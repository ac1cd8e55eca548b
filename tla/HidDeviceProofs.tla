--------------------------- MODULE HidDeviceProofs ---------------------------
(***************************************************************************)
(* Input never meets a driver or reports that a probe or a removal is      *)
(* taking away, and the transport is open exactly for its listeners: for   *)
(* any number of faults and of drivers that come and go.                   *)
(*                                                                         *)
(* The argument counts driver_input_lock: of its one unit either it is     *)
(* free, or the input thread has it, or a probe or removal that does not   *)
(* let input in.  Whoever has let input in is at one of three places, and  *)
(* there the device has a driver and parsed reports.                       *)
(*                                                                         *)
(* The end of the module shows that the device gets the right driver.      *)
(***************************************************************************)
EXTENDS HidDevice, TLAPS

Held == job.pc \in ProbePcs \cup RemovePcs

\* The unit of the semaphore is in one place.
SemCounted ==
  /\ inp # "off" => sem = 0 /\ (Held => ioStarted)
  /\ Held /\ ~ioStarted => sem = 0
  /\ inp = "off" /\ (Held => ioStarted) => sem = 1

\* Where a probe or a removal lets input in.
IoPlaces ==
  /\ Held /\ ioStarted => job.pc \in {"answer", "unlock", "rtalk"}
  /\ job.pc \in {"answer", "rtalk"} => ioStarted

\* A driver has parsed reports, but for where it is set up or given up.
Parsed ==
  /\ driver # None /\ job.pc \notin {"parse", "fail"} => parsed
  /\ job.pc \in {"lock", "match"} => driver = None /\ job.drv # None
  /\ job.pc \in {"parse", "start", "talk", "answer", "giveUp", "rtalk"} => driver # None

\* Listeners exist only under a driver whose transport has started.
Claims ==
  /\ opened \subseteq claimed
  /\ claimed # {} => llStarted /\ driver # None
  /\ job.pc \in {"parse", "start", "fail", "rclose"} => claimed = {}

IInv == TypeOK /\ SemCounted /\ IoPlaces /\ Parsed /\ Claims /\ InputSafe /\ OpenBalanced

-----------------------------------------------------------------------------
(* Jobs.                                                                   *)

\* The lists of drivers that the driver core tries are lists of drivers.
LEMMA DriverLists ==
  /\ <<>> \in Seq(Drivers) /\ <<Special>> \in Seq(Drivers) /\ InOrder \in Seq(Drivers)
<1>1. Special \in Drivers /\ Generic \in Drivers
  BY DEF Drivers
<1> QED
  BY <1>1 DEF InOrder

\* A job that moves on is a job, at its new place.
LEMMA JobMoves ==
  ASSUME NEW j \in Jobs, NEW p \in Pcs
  PROVE  /\ [j EXCEPT !.pc = p] \in Jobs
         /\ [j EXCEPT !.pc = p].pc = p /\ [j EXCEPT !.pc = p].drv = j.drv
BY DEF Jobs

\* A job that turns to its next driver waits for the lock with that driver.
LEMMA JobTakes ==
  ASSUME NEW j \in Jobs, j.next # <<>>
  PROVE  /\ [j EXCEPT !.pc = "lock", !.drv = Head(j.next), !.next = Tail(j.next)] \in Jobs
         /\ [j EXCEPT !.pc = "lock", !.drv = Head(j.next), !.next = Tail(j.next)].pc = "lock"
         /\ [j EXCEPT !.pc = "lock", !.drv = Head(j.next), !.next = Tail(j.next)].drv # None
<1>1. Head(j.next) \in Drivers /\ Tail(j.next) \in Seq(Drivers)
  BY DEF Jobs
<1>2. "lock" \in Pcs
  BY DEF Pcs
<1> QED
  BY <1>1, <1>2 DEF Jobs, Drivers, Generic, Special, None

\* What the driver core starts is a job, and so is none.
LEMMA JobStarts ==
  /\ NoJob \in Jobs
  /\ \A p \in {"try", "rlock"}, s \in {<<>>, <<Special>>, InOrder} :
       [pc |-> p, drv |-> None, next |-> s] \in Jobs
<1>1. {"off", "try", "rlock"} \subseteq Pcs
  BY DEF Pcs
<1> QED
  BY <1>1, DriverLists DEF Jobs, NoJob

\* A probe or a removal keeps the invariant.
LEMMA JobStep == IInv /\ JobNext => IInv'
<1> SUFFICES ASSUME IInv, JobNext PROVE IInv'
  OBVIOUS
<1> USE DEF IInv, JobFrame, devVars, llVars, busVars, lifeVars
<1>1. CASE TryNext
  <2>1. job' \in Jobs /\ (job'.pc = "off" \/ (job'.pc = "lock" /\ job'.drv # None /\ driver = None))
    <3>1. job \in Jobs
      BY DEF TypeOK
    <3>2. CASE job.next = <<>> \/ driver # None
      <4>1. job' = NoJob
        BY <1>1, <3>2 DEF TryNext
      <4> QED
        BY <4>1, JobStarts DEF NoJob
    <3>3. CASE ~(job.next = <<>> \/ driver # None)
      <4>1. job' = [job EXCEPT !.pc = "lock", !.drv = Head(job.next), !.next = Tail(job.next)]
        BY <1>1, <3>3 DEF TryNext
      <4> QED
        BY <3>1, <3>3, <4>1, JobTakes
    <3> QED
      BY <3>2, <3>3
  <2>2. CountsOK'
    BY <1>1, HidDeviceAssumption
       DEF TryNext, TypeOK, CountsOK, SemCounted, IoPlaces, Held, ProbePcs, RemovePcs
  <2>3. FlagsOK'
    BY <1>1 DEF TryNext, TypeOK, FlagsOK
  <2>4. TypeOK'
    BY <1>1, <2>1, <2>2, <2>3 DEF TryNext, TypeOK, Drivers
  <2>5. SemCounted' /\ InputSafe'
    BY <1>1, <2>1
       DEF TryNext, TypeOK, CountsOK, Held, ProbePcs, RemovePcs, SemCounted, IoPlaces, Parsed,
           InputSafe
  <2>6. IoPlaces'
    BY <1>1, <2>1 DEF TryNext, Held, ProbePcs, RemovePcs, IoPlaces
  <2>7. Parsed'
    BY <1>1, <2>1 DEF TryNext, None, Generic, Special, Parsed
  <2>8. Claims' /\ OpenBalanced'
    BY <1>1, <2>1 DEF TryNext, Claims, Parsed, OpenBalanced
  <2> QED
    BY <2>4, <2>5, <2>6, <2>7, <2>8
<1>2. CASE ProbeLock
  <2>1. job' \in Jobs /\ job'.pc \in {"match"} /\ job'.drv = job.drv
    <3>1. job \in Jobs /\ {"match"} \subseteq Pcs
      BY DEF TypeOK, Pcs, ProbePcs, RemovePcs
    <3>2. PICK p \in {"match"} : job' = [job EXCEPT !.pc = p]
      BY <1>2 DEF ProbeLock, Job
    <3> QED
      BY <3>1, <3>2, JobMoves
  <2>2. CountsOK'
    BY <1>2, HidDeviceAssumption
       DEF ProbeLock, Job, TypeOK, CountsOK, SemCounted, IoPlaces, Held, ProbePcs, RemovePcs
  <2>3. FlagsOK'
    BY <1>2 DEF ProbeLock, Job, TypeOK, FlagsOK
  <2>4. TypeOK'
    BY <1>2, <2>1, <2>2, <2>3 DEF ProbeLock, Job, TypeOK, Drivers
  <2>5. SemCounted' /\ InputSafe'
    BY <1>2, <2>1
       DEF ProbeLock, Job, TypeOK, CountsOK, Held, ProbePcs, RemovePcs, SemCounted, IoPlaces,
           Parsed, InputSafe
  <2>6. IoPlaces'
    BY <1>2, <2>1 DEF ProbeLock, Job, Held, ProbePcs, RemovePcs, IoPlaces
  <2>7. Parsed'
    BY <1>2, <2>1 DEF ProbeLock, Job, None, Generic, Special, Parsed
  <2>8. Claims' /\ OpenBalanced'
    BY <1>2, <2>1 DEF ProbeLock, Job, Claims, Parsed, OpenBalanced
  <2> QED
    BY <2>4, <2>5, <2>6, <2>7, <2>8
<1>3. CASE ProbeSignal
  <2>1. job' \in Jobs /\ job'.pc \in {"try"} /\ job'.drv = job.drv
    <3>1. job \in Jobs /\ {"try"} \subseteq Pcs
      BY DEF TypeOK, Pcs, ProbePcs, RemovePcs
    <3>2. PICK p \in {"try"} : job' = [job EXCEPT !.pc = p]
      BY <1>3 DEF ProbeSignal, Job, Fault
    <3> QED
      BY <3>1, <3>2, JobMoves
  <2>2. CountsOK'
    BY <1>3, HidDeviceAssumption
       DEF ProbeSignal, Job, Fault, TypeOK, CountsOK, SemCounted, IoPlaces, Held, ProbePcs,
           RemovePcs
  <2>3. FlagsOK'
    BY <1>3 DEF ProbeSignal, Job, Fault, TypeOK, FlagsOK
  <2>4. TypeOK'
    BY <1>3, <2>1, <2>2, <2>3 DEF ProbeSignal, Job, Fault, TypeOK, Drivers
  <2>5. SemCounted' /\ InputSafe'
    BY <1>3, <2>1
       DEF ProbeSignal, Job, Fault, TypeOK, CountsOK, Held, ProbePcs, RemovePcs, SemCounted,
           IoPlaces, Parsed, InputSafe
  <2>6. IoPlaces'
    BY <1>3, <2>1 DEF ProbeSignal, Job, Fault, Held, ProbePcs, RemovePcs, IoPlaces
  <2>7. Parsed'
    BY <1>3, <2>1 DEF ProbeSignal, Job, Fault, None, Generic, Special, Parsed
  <2>8. Claims' /\ OpenBalanced'
    BY <1>3, <2>1 DEF ProbeSignal, Job, Fault, Claims, Parsed, OpenBalanced
  <2> QED
    BY <2>4, <2>5, <2>6, <2>7, <2>8
<1>4. CASE ProbeMatch
  <2>1. job' \in Jobs /\ job'.pc \in {"parse", "unlock"} /\ job'.drv = job.drv
             /\ (job'.pc = "parse" => driver' = job.drv) /\ (job'.pc = "unlock" => driver' = driver)
    <3>1. job \in Jobs /\ {"parse", "unlock"} \subseteq Pcs
      BY DEF TypeOK, Pcs, ProbePcs, RemovePcs
    <3>2. PICK p \in {"parse", "unlock"} : job' = [job EXCEPT !.pc = p]
             /\ (p = "parse" => driver' = job.drv) /\ (p = "unlock" => driver' = driver)
      BY <1>4 DEF ProbeMatch, Matches
    <3> QED
      BY <3>1, <3>2, JobMoves
  <2>2. CountsOK'
    BY <1>4, HidDeviceAssumption
       DEF ProbeMatch, Matches, TypeOK, CountsOK, SemCounted, IoPlaces, Held, ProbePcs,
           RemovePcs
  <2>3. FlagsOK'
    BY <1>4 DEF ProbeMatch, Matches, TypeOK, FlagsOK
  <2>4. TypeOK'
    BY <1>4, <2>1, <2>2, <2>3 DEF ProbeMatch, Matches, TypeOK, Drivers, Jobs
  <2>5. SemCounted' /\ InputSafe'
    BY <1>4, <2>1
       DEF ProbeMatch, Matches, TypeOK, CountsOK, Held, ProbePcs, RemovePcs, SemCounted,
           IoPlaces, Parsed, InputSafe
  <2>6. IoPlaces'
    BY <1>4, <2>1 DEF ProbeMatch, Matches, Held, ProbePcs, RemovePcs, IoPlaces
  <2>7. Parsed'
    BY <1>4, <2>1 DEF ProbeMatch, Matches, None, Generic, Special, Parsed
  <2>8. Claims' /\ OpenBalanced'
    BY <1>4, <2>1 DEF ProbeMatch, Matches, Claims, Parsed, OpenBalanced
  <2> QED
    BY <2>4, <2>5, <2>6, <2>7, <2>8
<1>5. CASE ProbeParse
  <2>1. job' \in Jobs /\ job'.pc \in {"fail", "start"} /\ job'.drv = job.drv /\ (job'.pc = "start" => parsed')
    <3>1. job \in Jobs /\ {"fail", "start"} \subseteq Pcs
      BY DEF TypeOK, Pcs, ProbePcs, RemovePcs
    <3>2. PICK p \in {"fail", "start"} : job' = [job EXCEPT !.pc = p] /\ (p = "start" => parsed')
      BY <1>5 DEF ProbeParse, Fault
    <3> QED
      BY <3>1, <3>2, JobMoves
  <2>2. CountsOK'
    BY <1>5, HidDeviceAssumption
       DEF ProbeParse, Fault, TypeOK, CountsOK, SemCounted, IoPlaces, Held, ProbePcs, RemovePcs
  <2>3. FlagsOK'
    BY <1>5 DEF ProbeParse, Fault, TypeOK, FlagsOK
  <2>4. TypeOK'
    BY <1>5, <2>1, <2>2, <2>3 DEF ProbeParse, Fault, TypeOK, Drivers
  <2>5. SemCounted' /\ InputSafe'
    BY <1>5, <2>1
       DEF ProbeParse, Fault, TypeOK, CountsOK, Held, ProbePcs, RemovePcs, SemCounted, IoPlaces,
           Parsed, InputSafe
  <2>6. IoPlaces'
    BY <1>5, <2>1 DEF ProbeParse, Fault, Held, ProbePcs, RemovePcs, IoPlaces
  <2>7. Parsed'
    BY <1>5, <2>1 DEF ProbeParse, Fault, None, Generic, Special, Parsed
  <2>8. Claims' /\ OpenBalanced'
    BY <1>5, <2>1 DEF ProbeParse, Fault, Claims, Parsed, OpenBalanced
  <2> QED
    BY <2>4, <2>5, <2>6, <2>7, <2>8
<1>6. CASE ProbeStart
  <2>1. job' \in Jobs /\ job'.pc \in {"fail", "talk", "unlock"} /\ job'.drv = job.drv
    <3>1. job \in Jobs /\ {"fail", "talk", "unlock"} \subseteq Pcs
      BY DEF TypeOK, Pcs, ProbePcs, RemovePcs
    <3>2. PICK p \in {"fail", "talk", "unlock"} : job' = [job EXCEPT !.pc = p]
      BY <1>6 DEF ProbeStart, Connect, Fault
    <3> QED
      BY <3>1, <3>2, JobMoves
  <2>2. CountsOK'
    BY <1>6, HidDeviceAssumption
       DEF ProbeStart, Connect, Fault, TypeOK, CountsOK, SemCounted, IoPlaces, Held, ProbePcs,
           RemovePcs
  <2>3. FlagsOK'
    BY <1>6 DEF ProbeStart, Connect, Fault, TypeOK, FlagsOK
  <2>4. TypeOK'
    BY <1>6, <2>1, <2>2, <2>3 DEF ProbeStart, Connect, Fault, TypeOK, Drivers
  <2>5. SemCounted' /\ InputSafe'
    BY <1>6, <2>1
       DEF ProbeStart, Connect, Fault, TypeOK, CountsOK, Held, ProbePcs, RemovePcs, SemCounted,
           IoPlaces, Parsed, InputSafe
  <2>6. IoPlaces'
    BY <1>6, <2>1 DEF ProbeStart, Connect, Fault, Held, ProbePcs, RemovePcs, IoPlaces
  <2>7. Parsed'
    BY <1>6, <2>1 DEF ProbeStart, Connect, Fault, None, Generic, Special, Parsed
  <2>8. Claims' /\ OpenBalanced'
    BY <1>6, <2>1 DEF ProbeStart, Connect, Fault, Claims, Parsed, OpenBalanced
  <2> QED
    BY <2>4, <2>5, <2>6, <2>7, <2>8
<1>7. CASE ProbeTalks
  <2>1. job' \in Jobs /\ job'.pc \in {"answer"} /\ job'.drv = job.drv
    <3>1. job \in Jobs /\ {"answer"} \subseteq Pcs
      BY DEF TypeOK, Pcs, ProbePcs, RemovePcs
    <3>2. PICK p \in {"answer"} : job' = [job EXCEPT !.pc = p]
      BY <1>7 DEF ProbeTalks, Job, IoStart
    <3> QED
      BY <3>1, <3>2, JobMoves
  <2>2. CountsOK'
    BY <1>7, HidDeviceAssumption
       DEF ProbeTalks, Job, IoStart, TypeOK, CountsOK, SemCounted, IoPlaces, Held, ProbePcs,
           RemovePcs
  <2>3. FlagsOK'
    BY <1>7 DEF ProbeTalks, Job, IoStart, TypeOK, FlagsOK
  <2>4. TypeOK'
    BY <1>7, <2>1, <2>2, <2>3 DEF ProbeTalks, Job, IoStart, TypeOK, Drivers
  <2>5. SemCounted' /\ InputSafe'
    BY <1>7, <2>1
       DEF ProbeTalks, Job, IoStart, TypeOK, CountsOK, Held, ProbePcs, RemovePcs, SemCounted,
           IoPlaces, Parsed, InputSafe
  <2>6. IoPlaces'
    BY <1>7, <2>1 DEF ProbeTalks, Job, IoStart, Held, ProbePcs, RemovePcs, IoPlaces
  <2>7. Parsed'
    BY <1>7, <2>1 DEF ProbeTalks, Job, IoStart, None, Generic, Special, Parsed
  <2>8. Claims' /\ OpenBalanced'
    BY <1>7, <2>1 DEF ProbeTalks, Job, IoStart, Claims, Parsed, OpenBalanced
  <2> QED
    BY <2>4, <2>5, <2>6, <2>7, <2>8
<1>8. CASE ProbeListens
  <2>1. job' \in Jobs /\ job'.pc \in {"unlock"} /\ job'.drv = job.drv
    <3>1. job \in Jobs /\ {"unlock"} \subseteq Pcs
      BY DEF TypeOK, Pcs, ProbePcs, RemovePcs
    <3>2. PICK p \in {"unlock"} : job' = [job EXCEPT !.pc = p]
      BY <1>8 DEF ProbeListens, Job
    <3> QED
      BY <3>1, <3>2, JobMoves
  <2>2. CountsOK'
    BY <1>8, HidDeviceAssumption
       DEF ProbeListens, Job, TypeOK, CountsOK, SemCounted, IoPlaces, Held, ProbePcs, RemovePcs
  <2>3. FlagsOK'
    BY <1>8 DEF ProbeListens, Job, TypeOK, FlagsOK
  <2>4. TypeOK'
    BY <1>8, <2>1, <2>2, <2>3 DEF ProbeListens, Job, TypeOK, Drivers
  <2>5. SemCounted' /\ InputSafe'
    BY <1>8, <2>1
       DEF ProbeListens, Job, TypeOK, CountsOK, Held, ProbePcs, RemovePcs, SemCounted, IoPlaces,
           Parsed, InputSafe
  <2>6. IoPlaces'
    BY <1>8, <2>1 DEF ProbeListens, Job, Held, ProbePcs, RemovePcs, IoPlaces
  <2>7. Parsed'
    BY <1>8, <2>1 DEF ProbeListens, Job, None, Generic, Special, Parsed
  <2>8. Claims' /\ OpenBalanced'
    BY <1>8, <2>1 DEF ProbeListens, Job, Claims, Parsed, OpenBalanced
  <2> QED
    BY <2>4, <2>5, <2>6, <2>7, <2>8
<1>9. CASE ProbeStopsInput
  <2>1. job' \in Jobs /\ job'.pc \in {"unlock", "giveUp"} /\ job'.drv = job.drv
    <3>1. job \in Jobs /\ {"unlock", "giveUp"} \subseteq Pcs
      BY DEF TypeOK, Pcs, ProbePcs, RemovePcs
    <3>2. PICK p \in {"unlock", "giveUp"} : job' = [job EXCEPT !.pc = p]
      BY <1>9 DEF ProbeStopsInput, Job, IoStop
    <3> QED
      BY <3>1, <3>2, JobMoves
  <2>2. CountsOK'
    BY <1>9, HidDeviceAssumption
       DEF ProbeStopsInput, Job, IoStop, TypeOK, CountsOK, SemCounted, IoPlaces, Held, ProbePcs,
           RemovePcs
  <2>3. FlagsOK'
    BY <1>9 DEF ProbeStopsInput, Job, IoStop, TypeOK, FlagsOK
  <2>4. TypeOK'
    BY <1>9, <2>1, <2>2, <2>3 DEF ProbeStopsInput, Job, IoStop, TypeOK, Drivers
  <2>5. SemCounted' /\ InputSafe'
    BY <1>9, <2>1
       DEF ProbeStopsInput, Job, IoStop, TypeOK, CountsOK, Held, ProbePcs, RemovePcs,
           SemCounted, IoPlaces, Parsed, InputSafe
  <2>6. IoPlaces'
    BY <1>9, <2>1 DEF ProbeStopsInput, Job, IoStop, Held, ProbePcs, RemovePcs, IoPlaces
  <2>7. Parsed'
    BY <1>9, <2>1 DEF ProbeStopsInput, Job, IoStop, None, Generic, Special, Parsed
  <2>8. Claims' /\ OpenBalanced'
    BY <1>9, <2>1 DEF ProbeStopsInput, Job, IoStop, Claims, Parsed, OpenBalanced
  <2> QED
    BY <2>4, <2>5, <2>6, <2>7, <2>8
<1>10. CASE ProbeGivesUp
  <2>1. job' \in Jobs /\ job'.pc \in {"fail"} /\ job'.drv = job.drv
    <3>1. job \in Jobs /\ {"fail"} \subseteq Pcs
      BY DEF TypeOK, Pcs, ProbePcs, RemovePcs
    <3>2. PICK p \in {"fail"} : job' = [job EXCEPT !.pc = p]
      BY <1>10 DEF ProbeGivesUp, Job, HwStop, Disconnect, Fault
    <3> QED
      BY <3>1, <3>2, JobMoves
  <2>2. CountsOK'
    BY <1>10, HidDeviceAssumption
       DEF ProbeGivesUp, Job, HwStop, Disconnect, Fault, TypeOK, CountsOK, SemCounted, IoPlaces,
           Held, ProbePcs, RemovePcs
  <2>3. FlagsOK'
    BY <1>10 DEF ProbeGivesUp, Job, HwStop, Disconnect, Fault, TypeOK, FlagsOK
  <2>4. TypeOK'
    BY <1>10, <2>1, <2>2, <2>3 DEF ProbeGivesUp, Job, HwStop, Disconnect, Fault, TypeOK, Drivers
  <2>5. SemCounted' /\ InputSafe'
    BY <1>10, <2>1
       DEF ProbeGivesUp, Job, HwStop, Disconnect, Fault, TypeOK, CountsOK, Held, ProbePcs,
           RemovePcs, SemCounted, IoPlaces, Parsed, InputSafe
  <2>6. IoPlaces'
    BY <1>10, <2>1
       DEF ProbeGivesUp, Job, HwStop, Disconnect, Fault, Held, ProbePcs, RemovePcs, IoPlaces
  <2>7. Parsed'
    BY <1>10, <2>1
       DEF ProbeGivesUp, Job, HwStop, Disconnect, Fault, None, Generic, Special, Parsed
  <2>8. Claims' /\ OpenBalanced'
    BY <1>10, <2>1 DEF ProbeGivesUp, Job, HwStop, Disconnect, Fault, Claims, Parsed, OpenBalanced
  <2> QED
    BY <2>4, <2>5, <2>6, <2>7, <2>8
<1>11. CASE ProbeFailed
  <2>1. job' \in Jobs /\ job'.pc \in {"unlock"} /\ job'.drv = job.drv
    <3>1. job \in Jobs /\ {"unlock"} \subseteq Pcs
      BY DEF TypeOK, Pcs, ProbePcs, RemovePcs
    <3>2. PICK p \in {"unlock"} : job' = [job EXCEPT !.pc = p]
      BY <1>11 DEF ProbeFailed, Job
    <3> QED
      BY <3>1, <3>2, JobMoves
  <2>2. CountsOK'
    BY <1>11, HidDeviceAssumption
       DEF ProbeFailed, Job, TypeOK, CountsOK, SemCounted, IoPlaces, Held, ProbePcs, RemovePcs
  <2>3. FlagsOK'
    BY <1>11 DEF ProbeFailed, Job, TypeOK, FlagsOK
  <2>4. TypeOK'
    BY <1>11, <2>1, <2>2, <2>3 DEF ProbeFailed, Job, TypeOK, Drivers
  <2>5. SemCounted' /\ InputSafe'
    BY <1>11, <2>1
       DEF ProbeFailed, Job, TypeOK, CountsOK, Held, ProbePcs, RemovePcs, SemCounted, IoPlaces,
           Parsed, InputSafe
  <2>6. IoPlaces'
    BY <1>11, <2>1 DEF ProbeFailed, Job, Held, ProbePcs, RemovePcs, IoPlaces
  <2>7. Parsed'
    BY <1>11, <2>1 DEF ProbeFailed, Job, None, Generic, Special, Parsed
  <2>8. Claims' /\ OpenBalanced'
    BY <1>11, <2>1 DEF ProbeFailed, Job, Claims, Parsed, OpenBalanced
  <2> QED
    BY <2>4, <2>5, <2>6, <2>7, <2>8
<1>12. CASE Unlock
  <2>1. job' \in Jobs /\ job'.pc \in {"try"} /\ job'.drv = job.drv
    <3>1. job \in Jobs /\ {"try"} \subseteq Pcs
      BY DEF TypeOK, Pcs, ProbePcs, RemovePcs
    <3>2. PICK p \in {"try"} : job' = [job EXCEPT !.pc = p]
      BY <1>12 DEF Unlock, Job
    <3> QED
      BY <3>1, <3>2, JobMoves
  <2>2. CountsOK'
    BY <1>12, HidDeviceAssumption
       DEF Unlock, Job, TypeOK, CountsOK, SemCounted, IoPlaces, Held, ProbePcs, RemovePcs
  <2>3. FlagsOK'
    BY <1>12 DEF Unlock, Job, TypeOK, FlagsOK
  <2>4. TypeOK'
    BY <1>12, <2>1, <2>2, <2>3 DEF Unlock, Job, TypeOK, Drivers
  <2>5. SemCounted' /\ InputSafe'
    BY <1>12, <2>1
       DEF Unlock, Job, TypeOK, CountsOK, Held, ProbePcs, RemovePcs, SemCounted, IoPlaces,
           Parsed, InputSafe
  <2>6. IoPlaces'
    BY <1>12, <2>1 DEF Unlock, Job, Held, ProbePcs, RemovePcs, IoPlaces
  <2>7. Parsed'
    BY <1>12, <2>1 DEF Unlock, Job, None, Generic, Special, Parsed
  <2>8. Claims' /\ OpenBalanced'
    BY <1>12, <2>1 DEF Unlock, Job, Claims, Parsed, OpenBalanced
  <2> QED
    BY <2>4, <2>5, <2>6, <2>7, <2>8
<1>13. CASE RemoveLock
  <2>1. job' \in Jobs /\ job'.pc \in {"rstop", "runlock"} /\ job'.drv = job.drv
    <3>1. job \in Jobs /\ {"rstop", "runlock"} \subseteq Pcs
      BY DEF TypeOK, Pcs, ProbePcs, RemovePcs
    <3>2. PICK p \in {"rstop", "runlock"} : job' = [job EXCEPT !.pc = p]
      BY <1>13 DEF RemoveLock
    <3> QED
      BY <3>1, <3>2, JobMoves
  <2>2. CountsOK'
    BY <1>13, HidDeviceAssumption
       DEF RemoveLock, TypeOK, CountsOK, SemCounted, IoPlaces, Held, ProbePcs, RemovePcs
  <2>3. FlagsOK'
    BY <1>13 DEF RemoveLock, TypeOK, FlagsOK
  <2>4. TypeOK'
    BY <1>13, <2>1, <2>2, <2>3 DEF RemoveLock, TypeOK, Drivers
  <2>5. SemCounted' /\ InputSafe'
    BY <1>13, <2>1
       DEF RemoveLock, TypeOK, CountsOK, Held, ProbePcs, RemovePcs, SemCounted, IoPlaces,
           Parsed, InputSafe
  <2>6. IoPlaces'
    BY <1>13, <2>1 DEF RemoveLock, Held, ProbePcs, RemovePcs, IoPlaces
  <2>7. Parsed'
    BY <1>13, <2>1 DEF RemoveLock, None, Generic, Special, Parsed
  <2>8. Claims' /\ OpenBalanced'
    BY <1>13, <2>1 DEF RemoveLock, Claims, Parsed, OpenBalanced
  <2> QED
    BY <2>4, <2>5, <2>6, <2>7, <2>8
<1>14. CASE RemoveTalks
  <2>1. job' \in Jobs /\ job'.pc \in {"rtalk"} /\ job'.drv = job.drv
    <3>1. job \in Jobs /\ {"rtalk"} \subseteq Pcs
      BY DEF TypeOK, Pcs, ProbePcs, RemovePcs
    <3>2. PICK p \in {"rtalk"} : job' = [job EXCEPT !.pc = p]
      BY <1>14 DEF RemoveTalks, Job, IoStart
    <3> QED
      BY <3>1, <3>2, JobMoves
  <2>2. CountsOK'
    BY <1>14, HidDeviceAssumption
       DEF RemoveTalks, Job, IoStart, TypeOK, CountsOK, SemCounted, IoPlaces, Held, ProbePcs,
           RemovePcs
  <2>3. FlagsOK'
    BY <1>14 DEF RemoveTalks, Job, IoStart, TypeOK, FlagsOK
  <2>4. TypeOK'
    BY <1>14, <2>1, <2>2, <2>3 DEF RemoveTalks, Job, IoStart, TypeOK, Drivers
  <2>5. SemCounted' /\ InputSafe'
    BY <1>14, <2>1
       DEF RemoveTalks, Job, IoStart, TypeOK, CountsOK, Held, ProbePcs, RemovePcs, SemCounted,
           IoPlaces, Parsed, InputSafe
  <2>6. IoPlaces'
    BY <1>14, <2>1 DEF RemoveTalks, Job, IoStart, Held, ProbePcs, RemovePcs, IoPlaces
  <2>7. Parsed'
    BY <1>14, <2>1 DEF RemoveTalks, Job, IoStart, None, Generic, Special, Parsed
  <2>8. Claims' /\ OpenBalanced'
    BY <1>14, <2>1 DEF RemoveTalks, Job, IoStart, Claims, Parsed, OpenBalanced
  <2> QED
    BY <2>4, <2>5, <2>6, <2>7, <2>8
<1>15. CASE RemoveStopsInput
  <2>1. job' \in Jobs /\ job'.pc \in {"rhw"} /\ job'.drv = job.drv
    <3>1. job \in Jobs /\ {"rhw"} \subseteq Pcs
      BY DEF TypeOK, Pcs, ProbePcs, RemovePcs
    <3>2. PICK p \in {"rhw"} : job' = [job EXCEPT !.pc = p]
      BY <1>15 DEF RemoveStopsInput, Job, IoStop
    <3> QED
      BY <3>1, <3>2, JobMoves
  <2>2. CountsOK'
    BY <1>15, HidDeviceAssumption
       DEF RemoveStopsInput, Job, IoStop, TypeOK, CountsOK, SemCounted, IoPlaces, Held,
           ProbePcs, RemovePcs
  <2>3. FlagsOK'
    BY <1>15 DEF RemoveStopsInput, Job, IoStop, TypeOK, FlagsOK
  <2>4. TypeOK'
    BY <1>15, <2>1, <2>2, <2>3 DEF RemoveStopsInput, Job, IoStop, TypeOK, Drivers
  <2>5. SemCounted' /\ InputSafe'
    BY <1>15, <2>1
       DEF RemoveStopsInput, Job, IoStop, TypeOK, CountsOK, Held, ProbePcs, RemovePcs,
           SemCounted, IoPlaces, Parsed, InputSafe
  <2>6. IoPlaces'
    BY <1>15, <2>1 DEF RemoveStopsInput, Job, IoStop, Held, ProbePcs, RemovePcs, IoPlaces
  <2>7. Parsed'
    BY <1>15, <2>1 DEF RemoveStopsInput, Job, IoStop, None, Generic, Special, Parsed
  <2>8. Claims' /\ OpenBalanced'
    BY <1>15, <2>1 DEF RemoveStopsInput, Job, IoStop, Claims, Parsed, OpenBalanced
  <2> QED
    BY <2>4, <2>5, <2>6, <2>7, <2>8
<1>16. CASE RemoveSilent
  <2>1. job' \in Jobs /\ job'.pc \in {"rhw"} /\ job'.drv = job.drv
    <3>1. job \in Jobs /\ {"rhw"} \subseteq Pcs
      BY DEF TypeOK, Pcs, ProbePcs, RemovePcs
    <3>2. PICK p \in {"rhw"} : job' = [job EXCEPT !.pc = p]
      BY <1>16 DEF RemoveSilent, Job
    <3> QED
      BY <3>1, <3>2, JobMoves
  <2>2. CountsOK'
    BY <1>16, HidDeviceAssumption
       DEF RemoveSilent, Job, TypeOK, CountsOK, SemCounted, IoPlaces, Held, ProbePcs, RemovePcs
  <2>3. FlagsOK'
    BY <1>16 DEF RemoveSilent, Job, TypeOK, FlagsOK
  <2>4. TypeOK'
    BY <1>16, <2>1, <2>2, <2>3 DEF RemoveSilent, Job, TypeOK, Drivers
  <2>5. SemCounted' /\ InputSafe'
    BY <1>16, <2>1
       DEF RemoveSilent, Job, TypeOK, CountsOK, Held, ProbePcs, RemovePcs, SemCounted, IoPlaces,
           Parsed, InputSafe
  <2>6. IoPlaces'
    BY <1>16, <2>1 DEF RemoveSilent, Job, Held, ProbePcs, RemovePcs, IoPlaces
  <2>7. Parsed'
    BY <1>16, <2>1 DEF RemoveSilent, Job, None, Generic, Special, Parsed
  <2>8. Claims' /\ OpenBalanced'
    BY <1>16, <2>1 DEF RemoveSilent, Job, Claims, Parsed, OpenBalanced
  <2> QED
    BY <2>4, <2>5, <2>6, <2>7, <2>8
<1>17. CASE RemoveHwStop
  <2>1. job' \in Jobs /\ job'.pc \in {"rclose"} /\ job'.drv = job.drv
    <3>1. job \in Jobs /\ {"rclose"} \subseteq Pcs
      BY DEF TypeOK, Pcs, ProbePcs, RemovePcs
    <3>2. PICK p \in {"rclose"} : job' = [job EXCEPT !.pc = p]
      BY <1>17 DEF RemoveHwStop, Job, HwStop, Disconnect
    <3> QED
      BY <3>1, <3>2, JobMoves
  <2>2. CountsOK'
    BY <1>17, HidDeviceAssumption
       DEF RemoveHwStop, Job, HwStop, Disconnect, TypeOK, CountsOK, SemCounted, IoPlaces, Held,
           ProbePcs, RemovePcs
  <2>3. FlagsOK'
    BY <1>17 DEF RemoveHwStop, Job, HwStop, Disconnect, TypeOK, FlagsOK
  <2>4. TypeOK'
    BY <1>17, <2>1, <2>2, <2>3 DEF RemoveHwStop, Job, HwStop, Disconnect, TypeOK, Drivers
  <2>5. SemCounted' /\ InputSafe'
    BY <1>17, <2>1
       DEF RemoveHwStop, Job, HwStop, Disconnect, TypeOK, CountsOK, Held, ProbePcs, RemovePcs,
           SemCounted, IoPlaces, Parsed, InputSafe
  <2>6. IoPlaces'
    BY <1>17, <2>1 DEF RemoveHwStop, Job, HwStop, Disconnect, Held, ProbePcs, RemovePcs, IoPlaces
  <2>7. Parsed'
    BY <1>17, <2>1 DEF RemoveHwStop, Job, HwStop, Disconnect, None, Generic, Special, Parsed
  <2>8. Claims' /\ OpenBalanced'
    BY <1>17, <2>1 DEF RemoveHwStop, Job, HwStop, Disconnect, Claims, Parsed, OpenBalanced
  <2> QED
    BY <2>4, <2>5, <2>6, <2>7, <2>8
<1>18. CASE RemoveClose
  <2>1. job' \in Jobs /\ job'.pc \in {"runlock"} /\ job'.drv = job.drv
    <3>1. job \in Jobs /\ {"runlock"} \subseteq Pcs
      BY DEF TypeOK, Pcs, ProbePcs, RemovePcs
    <3>2. PICK p \in {"runlock"} : job' = [job EXCEPT !.pc = p]
      BY <1>18 DEF RemoveClose, Job
    <3> QED
      BY <3>1, <3>2, JobMoves
  <2>2. CountsOK'
    BY <1>18, HidDeviceAssumption
       DEF RemoveClose, Job, TypeOK, CountsOK, SemCounted, IoPlaces, Held, ProbePcs, RemovePcs
  <2>3. FlagsOK'
    BY <1>18 DEF RemoveClose, Job, TypeOK, FlagsOK
  <2>4. TypeOK'
    BY <1>18, <2>1, <2>2, <2>3 DEF RemoveClose, Job, TypeOK, Drivers
  <2>5. SemCounted' /\ InputSafe'
    BY <1>18, <2>1
       DEF RemoveClose, Job, TypeOK, CountsOK, Held, ProbePcs, RemovePcs, SemCounted, IoPlaces,
           Parsed, InputSafe
  <2>6. IoPlaces'
    BY <1>18, <2>1 DEF RemoveClose, Job, Held, ProbePcs, RemovePcs, IoPlaces
  <2>7. Parsed'
    BY <1>18, <2>1 DEF RemoveClose, Job, None, Generic, Special, Parsed
  <2>8. Claims' /\ OpenBalanced'
    BY <1>18, <2>1 DEF RemoveClose, Job, Claims, Parsed, OpenBalanced
  <2> QED
    BY <2>4, <2>5, <2>6, <2>7, <2>8
<1>19. CASE RemoveUnlock
  <2>1. job' \in Jobs /\ job'.pc \in {"try"} /\ job'.drv = job.drv
    <3>1. job \in Jobs /\ {"try"} \subseteq Pcs
      BY DEF TypeOK, Pcs, ProbePcs, RemovePcs
    <3>2. PICK p \in {"try"} : job' = [job EXCEPT !.pc = p]
      BY <1>19 DEF RemoveUnlock, Job
    <3> QED
      BY <3>1, <3>2, JobMoves
  <2>2. CountsOK'
    BY <1>19, HidDeviceAssumption
       DEF RemoveUnlock, Job, TypeOK, CountsOK, SemCounted, IoPlaces, Held, ProbePcs, RemovePcs
  <2>3. FlagsOK'
    BY <1>19 DEF RemoveUnlock, Job, TypeOK, FlagsOK
  <2>4. TypeOK'
    BY <1>19, <2>1, <2>2, <2>3 DEF RemoveUnlock, Job, TypeOK, Drivers
  <2>5. SemCounted' /\ InputSafe'
    BY <1>19, <2>1
       DEF RemoveUnlock, Job, TypeOK, CountsOK, Held, ProbePcs, RemovePcs, SemCounted, IoPlaces,
           Parsed, InputSafe
  <2>6. IoPlaces'
    BY <1>19, <2>1 DEF RemoveUnlock, Job, Held, ProbePcs, RemovePcs, IoPlaces
  <2>7. Parsed'
    BY <1>19, <2>1 DEF RemoveUnlock, Job, None, Generic, Special, Parsed
  <2>8. Claims' /\ OpenBalanced'
    BY <1>19, <2>1 DEF RemoveUnlock, Job, Claims, Parsed, OpenBalanced
  <2> QED
    BY <2>4, <2>5, <2>6, <2>7, <2>8
<1> QED
  BY <1>1, <1>2, <1>3, <1>4, <1>5, <1>6, <1>7, <1>8, <1>9, <1>10, <1>11, <1>12, <1>13, <1>14, <1>15, <1>16, <1>17, <1>18, <1>19
     DEF JobNext

\* Drivers that come and go keep the invariant.
LEMMA BusStep == IInv /\ RtNext => IInv'
<1> SUFFICES ASSUME IInv, RtNext PROVE IInv'
  OBVIOUS
<1> USE DEF IInv, RtFrame, devVars, llVars, busVars, lifeVars
<1>1. CASE Register
  <2>1. job' = job
    BY <1>1 DEF Register
  <2>2. CountsOK'
    BY <1>1, HidDeviceAssumption
       DEF Register, TypeOK, CountsOK, SemCounted, IoPlaces, Held, ProbePcs, RemovePcs
  <2>3. FlagsOK'
    BY <1>1 DEF Register, TypeOK, FlagsOK
  <2>4. TypeOK'
    BY <1>1, <2>1, <2>2, <2>3 DEF Register, TypeOK, Drivers
  <2>5. SemCounted' /\ InputSafe'
    BY <1>1, <2>1
       DEF Register, TypeOK, CountsOK, Held, ProbePcs, RemovePcs, SemCounted, IoPlaces, Parsed,
           InputSafe
  <2>6. IoPlaces' /\ Parsed' /\ Claims' /\ OpenBalanced'
    BY <1>1, <2>1
       DEF Register, Held, ProbePcs, RemovePcs, None, Generic, Special, IoPlaces, Parsed,
           Claims, OpenBalanced
  <2> QED
    BY <2>4, <2>5, <2>6
<1>2. CASE DriverAttach
  <2>1. job' \in Jobs /\ (job' = job \/ (job.pc = "off" /\ job'.pc = "try"))
    BY <1>2, JobStarts DEF DriverAttach, Attach, TypeOK, NoJob
  <2>2. CountsOK'
    BY <1>2, HidDeviceAssumption
       DEF DriverAttach, Attach, TypeOK, CountsOK, SemCounted, IoPlaces, Held, ProbePcs,
           RemovePcs
  <2>3. FlagsOK'
    BY <1>2 DEF DriverAttach, Attach, TypeOK, FlagsOK
  <2>4. TypeOK'
    BY <1>2, <2>1, <2>2, <2>3 DEF DriverAttach, Attach, TypeOK, Drivers
  <2>5. SemCounted' /\ InputSafe'
    BY <1>2, <2>1
       DEF DriverAttach, Attach, TypeOK, CountsOK, Held, ProbePcs, RemovePcs, SemCounted,
           IoPlaces, Parsed, InputSafe
  <2>6. IoPlaces' /\ Parsed' /\ Claims' /\ OpenBalanced'
    BY <1>2, <2>1
       DEF DriverAttach, Attach, Held, ProbePcs, RemovePcs, None, Generic, Special, IoPlaces,
           Parsed, Claims, OpenBalanced
  <2> QED
    BY <2>4, <2>5, <2>6
<1>3. CASE DriverAdded
  <2>1. job' \in Jobs /\ (job' = job \/ (job.pc = "off" /\ job'.pc = "rlock"))
    BY <1>3, JobStarts DEF DriverAdded, Detach, Reprobe, TypeOK, NoJob
  <2>2. CountsOK'
    BY <1>3, HidDeviceAssumption
       DEF DriverAdded, Detach, Reprobe, TypeOK, CountsOK, SemCounted, IoPlaces, Held, ProbePcs,
           RemovePcs
  <2>3. FlagsOK'
    BY <1>3 DEF DriverAdded, Detach, Reprobe, TypeOK, FlagsOK
  <2>4. TypeOK'
    BY <1>3, <2>1, <2>2, <2>3 DEF DriverAdded, Detach, Reprobe, TypeOK, Drivers
  <2>5. SemCounted' /\ InputSafe'
    BY <1>3, <2>1
       DEF DriverAdded, Detach, Reprobe, TypeOK, CountsOK, Held, ProbePcs, RemovePcs,
           SemCounted, IoPlaces, Parsed, InputSafe
  <2>6. IoPlaces' /\ Parsed' /\ Claims' /\ OpenBalanced'
    BY <1>3, <2>1
       DEF DriverAdded, Detach, Reprobe, Held, ProbePcs, RemovePcs, None, Generic, Special,
           IoPlaces, Parsed, Claims, OpenBalanced
  <2> QED
    BY <2>4, <2>5, <2>6
<1>4. CASE Unregister
  <2>1. job' \in Jobs /\ (job' = job \/ (job.pc = "off" /\ job'.pc = "rlock"))
    BY <1>4, JobStarts DEF Unregister, Detach, TypeOK, NoJob
  <2>2. CountsOK'
    BY <1>4, HidDeviceAssumption
       DEF Unregister, Detach, TypeOK, CountsOK, SemCounted, IoPlaces, Held, ProbePcs, RemovePcs
  <2>3. FlagsOK'
    BY <1>4 DEF Unregister, Detach, TypeOK, FlagsOK
  <2>4. TypeOK'
    BY <1>4, <2>1, <2>2, <2>3 DEF Unregister, Detach, TypeOK, Drivers
  <2>5. SemCounted' /\ InputSafe'
    BY <1>4, <2>1
       DEF Unregister, Detach, TypeOK, CountsOK, Held, ProbePcs, RemovePcs, SemCounted,
           IoPlaces, Parsed, InputSafe
  <2>6. IoPlaces' /\ Parsed' /\ Claims' /\ OpenBalanced'
    BY <1>4, <2>1
       DEF Unregister, Detach, Held, ProbePcs, RemovePcs, None, Generic, Special, IoPlaces,
           Parsed, Claims, OpenBalanced
  <2> QED
    BY <2>4, <2>5, <2>6
<1>5. CASE Rescan
  <2>1. job' \in Jobs /\ (job' = job \/ (job.pc = "off" /\ job'.pc = "try"))
    BY <1>5, JobStarts DEF Rescan, Attach, TypeOK, NoJob
  <2>2. CountsOK'
    BY <1>5, HidDeviceAssumption
       DEF Rescan, Attach, TypeOK, CountsOK, SemCounted, IoPlaces, Held, ProbePcs, RemovePcs
  <2>3. FlagsOK'
    BY <1>5 DEF Rescan, Attach, TypeOK, FlagsOK
  <2>4. TypeOK'
    BY <1>5, <2>1, <2>2, <2>3 DEF Rescan, Attach, TypeOK, Drivers
  <2>5. SemCounted' /\ InputSafe'
    BY <1>5, <2>1
       DEF Rescan, Attach, TypeOK, CountsOK, Held, ProbePcs, RemovePcs, SemCounted, IoPlaces,
           Parsed, InputSafe
  <2>6. IoPlaces' /\ Parsed' /\ Claims' /\ OpenBalanced'
    BY <1>5, <2>1
       DEF Rescan, Attach, Held, ProbePcs, RemovePcs, None, Generic, Special, IoPlaces, Parsed,
           Claims, OpenBalanced
  <2> QED
    BY <2>4, <2>5, <2>6
<1> QED
  BY <1>1, <1>2, <1>3, <1>4, <1>5 DEF RtNext

\* The transport keeps the invariant.
LEMMA LifeStep == IInv /\ LifeNext => IInv'
<1> SUFFICES ASSUME IInv, LifeNext PROVE IInv'
  OBVIOUS
<1> USE DEF IInv, LifeFrame, devVars, llVars, busVars, lifeVars
<1>1. CASE AddDevice
  <2>1. job' \in Jobs /\ (job' = job \/ (job.pc = "off" /\ job'.pc = "try"))
    BY <1>1, JobStarts DEF AddDevice, Attach, Fault, TypeOK, NoJob
  <2>2. CountsOK'
    BY <1>1, HidDeviceAssumption
       DEF AddDevice, Attach, Fault, TypeOK, CountsOK, SemCounted, IoPlaces, Held, ProbePcs,
           RemovePcs
  <2>3. FlagsOK'
    BY <1>1 DEF AddDevice, Attach, Fault, TypeOK, FlagsOK
  <2>4. TypeOK'
    BY <1>1, <2>1, <2>2, <2>3 DEF AddDevice, Attach, Fault, TypeOK, Drivers
  <2>5. SemCounted' /\ InputSafe'
    BY <1>1, <2>1
       DEF AddDevice, Attach, Fault, TypeOK, CountsOK, Held, ProbePcs, RemovePcs, SemCounted,
           IoPlaces, Parsed, InputSafe
  <2>6. IoPlaces' /\ Parsed' /\ Claims' /\ OpenBalanced'
    BY <1>1, <2>1
       DEF AddDevice, Attach, Fault, Held, ProbePcs, RemovePcs, None, Generic, Special,
           IoPlaces, Parsed, Claims, OpenBalanced
  <2> QED
    BY <2>4, <2>5, <2>6
<1>2. CASE Added
  <2>1. job' = job
    BY <1>2 DEF Added
  <2>2. CountsOK'
    BY <1>2, HidDeviceAssumption
       DEF Added, TypeOK, CountsOK, SemCounted, IoPlaces, Held, ProbePcs, RemovePcs
  <2>3. FlagsOK'
    BY <1>2 DEF Added, TypeOK, FlagsOK
  <2>4. TypeOK'
    BY <1>2, <2>1, <2>2, <2>3 DEF Added, TypeOK, Drivers
  <2>5. SemCounted' /\ InputSafe'
    BY <1>2, <2>1
       DEF Added, TypeOK, CountsOK, Held, ProbePcs, RemovePcs, SemCounted, IoPlaces, Parsed,
           InputSafe
  <2>6. IoPlaces' /\ Parsed' /\ Claims' /\ OpenBalanced'
    BY <1>2, <2>1
       DEF Added, Held, ProbePcs, RemovePcs, None, Generic, Special, IoPlaces, Parsed, Claims,
           OpenBalanced
  <2> QED
    BY <2>4, <2>5, <2>6
<1>3. CASE DestroyDevice
  <2>1. job' \in Jobs /\ (job' = job \/ (job.pc = "off" /\ job'.pc = "rlock"))
    BY <1>3, JobStarts DEF DestroyDevice, Detach, TypeOK, NoJob
  <2>2. CountsOK'
    BY <1>3, HidDeviceAssumption
       DEF DestroyDevice, Detach, TypeOK, CountsOK, SemCounted, IoPlaces, Held, ProbePcs,
           RemovePcs
  <2>3. FlagsOK'
    BY <1>3 DEF DestroyDevice, Detach, TypeOK, FlagsOK
  <2>4. TypeOK'
    BY <1>3, <2>1, <2>2, <2>3 DEF DestroyDevice, Detach, TypeOK, Drivers
  <2>5. SemCounted' /\ InputSafe'
    BY <1>3, <2>1
       DEF DestroyDevice, Detach, TypeOK, CountsOK, Held, ProbePcs, RemovePcs, SemCounted,
           IoPlaces, Parsed, InputSafe
  <2>6. IoPlaces' /\ Parsed' /\ Claims' /\ OpenBalanced'
    BY <1>3, <2>1
       DEF DestroyDevice, Detach, Held, ProbePcs, RemovePcs, None, Generic, Special, IoPlaces,
           Parsed, Claims, OpenBalanced
  <2> QED
    BY <2>4, <2>5, <2>6
<1>4. CASE PutDevice
  <2>1. job' = job
    BY <1>4 DEF PutDevice
  <2>2. CountsOK'
    BY <1>4, HidDeviceAssumption
       DEF PutDevice, TypeOK, CountsOK, SemCounted, IoPlaces, Held, ProbePcs, RemovePcs
  <2>3. FlagsOK'
    BY <1>4 DEF PutDevice, TypeOK, FlagsOK
  <2>4. TypeOK'
    BY <1>4, <2>1, <2>2, <2>3 DEF PutDevice, TypeOK, Drivers
  <2>5. SemCounted' /\ InputSafe'
    BY <1>4, <2>1
       DEF PutDevice, TypeOK, CountsOK, Held, ProbePcs, RemovePcs, SemCounted, IoPlaces, Parsed,
           InputSafe
  <2>6. IoPlaces' /\ Parsed' /\ Claims' /\ OpenBalanced'
    BY <1>4, <2>1
       DEF PutDevice, Held, ProbePcs, RemovePcs, None, Generic, Special, IoPlaces, Parsed,
           Claims, OpenBalanced
  <2> QED
    BY <2>4, <2>5, <2>6
<1> QED
  BY <1>1, <1>2, <1>3, <1>4 DEF LifeNext

\* An input report keeps the invariant.
LEMMA InputStep == IInv /\ (InputLock \/ InputNext) => IInv'
<1> SUFFICES ASSUME IInv, (InputLock \/ InputNext) PROVE IInv'
  OBVIOUS
<1> USE DEF IInv, InputFrame, devVars, llVars, busVars, lifeVars
<1>1. CASE InputLock
  <2>1. job' = job
    BY <1>1 DEF InputLock
  <2>2. CountsOK'
    BY <1>1, HidDeviceAssumption
       DEF InputLock, TypeOK, CountsOK, SemCounted, IoPlaces, Held, ProbePcs, RemovePcs
  <2>3. FlagsOK'
    BY <1>1 DEF InputLock, TypeOK, FlagsOK
  <2>4. TypeOK'
    BY <1>1, <2>1, <2>2, <2>3 DEF InputLock, TypeOK, Drivers
  <2>5. SemCounted'
    BY <1>1, <2>1
       DEF InputLock, TypeOK, CountsOK, Held, ProbePcs, RemovePcs, SemCounted, IoPlaces
  <2>6. InputSafe'
    BY <1>1, <2>1
       DEF InputLock, TypeOK, CountsOK, Held, ProbePcs, RemovePcs, SemCounted, IoPlaces, Parsed,
           InputSafe
  <2>7. IoPlaces' /\ Parsed' /\ Claims' /\ OpenBalanced'
    BY <1>1, <2>1
       DEF InputLock, Held, ProbePcs, RemovePcs, None, Generic, Special, IoPlaces, Parsed,
           Claims, OpenBalanced
  <2> QED
    BY <2>4, <2>5, <2>6, <2>7
<1>2. CASE InputDriver
  <2>1. job' = job
    BY <1>2 DEF InputDriver
  <2>2. CountsOK'
    BY <1>2, HidDeviceAssumption
       DEF InputDriver, TypeOK, CountsOK, SemCounted, IoPlaces, Held, ProbePcs, RemovePcs
  <2>3. FlagsOK'
    BY <1>2 DEF InputDriver, TypeOK, FlagsOK
  <2>4. TypeOK'
    BY <1>2, <2>1, <2>2, <2>3 DEF InputDriver, TypeOK, Drivers
  <2>5. SemCounted'
    BY <1>2, <2>1
       DEF InputDriver, TypeOK, CountsOK, Held, ProbePcs, RemovePcs, SemCounted, IoPlaces
  <2>6. InputSafe'
    BY <1>2, <2>1
       DEF InputDriver, TypeOK, CountsOK, Held, ProbePcs, RemovePcs, SemCounted, IoPlaces,
           Parsed, InputSafe
  <2>7. IoPlaces' /\ Parsed' /\ Claims' /\ OpenBalanced'
    BY <1>2, <2>1
       DEF InputDriver, Held, ProbePcs, RemovePcs, None, Generic, Special, IoPlaces, Parsed,
           Claims, OpenBalanced
  <2> QED
    BY <2>4, <2>5, <2>6, <2>7
<1>3. CASE InputRaw
  <2>1. job' = job
    BY <1>3 DEF InputRaw
  <2>2. CountsOK'
    BY <1>3, HidDeviceAssumption
       DEF InputRaw, TypeOK, CountsOK, SemCounted, IoPlaces, Held, ProbePcs, RemovePcs
  <2>3. FlagsOK'
    BY <1>3 DEF InputRaw, TypeOK, FlagsOK
  <2>4. TypeOK'
    BY <1>3, <2>1, <2>2, <2>3 DEF InputRaw, TypeOK, Drivers
  <2>5. SemCounted'
    BY <1>3, <2>1 DEF InputRaw, TypeOK, CountsOK, Held, ProbePcs, RemovePcs, SemCounted, IoPlaces
  <2>6. InputSafe'
    BY <1>3, <2>1
       DEF InputRaw, TypeOK, CountsOK, Held, ProbePcs, RemovePcs, SemCounted, IoPlaces, Parsed,
           InputSafe
  <2>7. IoPlaces' /\ Parsed' /\ Claims' /\ OpenBalanced'
    BY <1>3, <2>1
       DEF InputRaw, Held, ProbePcs, RemovePcs, None, Generic, Special, IoPlaces, Parsed,
           Claims, OpenBalanced
  <2> QED
    BY <2>4, <2>5, <2>6, <2>7
<1>4. CASE InputEvent
  <2>1. job' = job
    BY <1>4 DEF InputEvent
  <2>2. CountsOK'
    BY <1>4, HidDeviceAssumption
       DEF InputEvent, TypeOK, CountsOK, SemCounted, IoPlaces, Held, ProbePcs, RemovePcs
  <2>3. FlagsOK'
    BY <1>4 DEF InputEvent, TypeOK, FlagsOK
  <2>4. TypeOK'
    BY <1>4, <2>1, <2>2, <2>3 DEF InputEvent, TypeOK, Drivers
  <2>5. SemCounted'
    BY <1>4, <2>1
       DEF InputEvent, TypeOK, CountsOK, Held, ProbePcs, RemovePcs, SemCounted, IoPlaces
  <2>6. InputSafe'
    BY <1>4, <2>1
       DEF InputEvent, TypeOK, CountsOK, Held, ProbePcs, RemovePcs, SemCounted, IoPlaces,
           Parsed, InputSafe
  <2>7. IoPlaces' /\ Parsed' /\ Claims' /\ OpenBalanced'
    BY <1>4, <2>1
       DEF InputEvent, Held, ProbePcs, RemovePcs, None, Generic, Special, IoPlaces, Parsed,
           Claims, OpenBalanced
  <2> QED
    BY <2>4, <2>5, <2>6, <2>7
<1>5. CASE InputUnlock
  <2>1. job' = job
    BY <1>5 DEF InputUnlock
  <2>2. CountsOK'
    BY <1>5, HidDeviceAssumption
       DEF InputUnlock, TypeOK, CountsOK, SemCounted, IoPlaces, Held, ProbePcs, RemovePcs
  <2>3. FlagsOK'
    BY <1>5 DEF InputUnlock, TypeOK, FlagsOK
  <2>4. TypeOK'
    BY <1>5, <2>1, <2>2, <2>3 DEF InputUnlock, TypeOK, Drivers
  <2>5. SemCounted'
    BY <1>5, <2>1
       DEF InputUnlock, TypeOK, CountsOK, Held, ProbePcs, RemovePcs, SemCounted, IoPlaces
  <2>6. InputSafe'
    BY <1>5, <2>1
       DEF InputUnlock, TypeOK, CountsOK, Held, ProbePcs, RemovePcs, SemCounted, IoPlaces,
           Parsed, InputSafe
  <2>7. IoPlaces' /\ Parsed' /\ Claims' /\ OpenBalanced'
    BY <1>5, <2>1
       DEF InputUnlock, Held, ProbePcs, RemovePcs, None, Generic, Special, IoPlaces, Parsed,
           Claims, OpenBalanced
  <2> QED
    BY <2>4, <2>5, <2>6, <2>7
<1> QED
  BY <1>1, <1>2, <1>3, <1>4, <1>5 DEF InputNext

\* A listener keeps the invariant.
LEMMA ListenerStep == IInv /\ (\E l \in Listeners : HwOpen(l) \/ HwClose(l)) => IInv'
<1> SUFFICES ASSUME IInv, (\E l \in Listeners : HwOpen(l) \/ HwClose(l)) PROVE IInv'
  OBVIOUS
<1> USE DEF IInv, OpenFrame, devVars, llVars, busVars, lifeVars
<1> PICK l \in Listeners : HwOpen(l) \/ HwClose(l)
  OBVIOUS
<1>1. CASE HwOpen(l)
  <2>1. job' = job
    BY <1>1 DEF HwOpen, Fault
  <2>2. CountsOK'
    BY <1>1, HidDeviceAssumption
       DEF HwOpen, Fault, TypeOK, CountsOK, SemCounted, IoPlaces, Held, ProbePcs, RemovePcs
  <2>3. FlagsOK'
    BY <1>1 DEF HwOpen, Fault, TypeOK, FlagsOK
  <2>4. TypeOK'
    BY <1>1, <2>1, <2>2, <2>3 DEF HwOpen, Fault, TypeOK, Drivers
  <2>5. SemCounted' /\ InputSafe'
    BY <1>1, <2>1
       DEF HwOpen, Fault, TypeOK, CountsOK, Held, ProbePcs, RemovePcs, SemCounted, IoPlaces,
           Parsed, InputSafe
  <2>6. IoPlaces'
    BY <1>1, <2>1 DEF HwOpen, Fault, Held, ProbePcs, RemovePcs, IoPlaces
  <2>7. Parsed'
    BY <1>1, <2>1 DEF HwOpen, Fault, None, Generic, Special, Parsed
  <2>8. Claims' /\ OpenBalanced'
    BY <1>1, <2>1 DEF HwOpen, Fault, Claims, Parsed, OpenBalanced
  <2> QED
    BY <2>4, <2>5, <2>6, <2>7, <2>8
<1>2. CASE HwClose(l)
  <2>1. job' = job
    BY <1>2 DEF HwClose
  <2>2. CountsOK'
    BY <1>2, HidDeviceAssumption
       DEF HwClose, TypeOK, CountsOK, SemCounted, IoPlaces, Held, ProbePcs, RemovePcs
  <2>3. FlagsOK'
    BY <1>2 DEF HwClose, TypeOK, FlagsOK
  <2>4. TypeOK'
    BY <1>2, <2>1, <2>2, <2>3 DEF HwClose, TypeOK, Drivers
  <2>5. SemCounted' /\ InputSafe'
    BY <1>2, <2>1
       DEF HwClose, TypeOK, CountsOK, Held, ProbePcs, RemovePcs, SemCounted, IoPlaces, Parsed,
           InputSafe
  <2>6. IoPlaces'
    BY <1>2, <2>1 DEF HwClose, Held, ProbePcs, RemovePcs, IoPlaces
  <2>7. Parsed'
    BY <1>2, <2>1 DEF HwClose, None, Generic, Special, Parsed
  <2>8. Claims' /\ OpenBalanced'
    BY <1>2, <2>1 DEF HwClose, Claims, Parsed, OpenBalanced
  <2> QED
    BY <2>4, <2>5, <2>6, <2>7, <2>8
<1> QED
  BY <1>1, <1>2

-----------------------------------------------------------------------------
\* A device that has been allocated satisfies the invariant.
LEMMA InitInv == Init => IInv
<1> SUFFICES ASSUME Init PROVE IInv
  OBVIOUS
<1>1. job \in Jobs
  BY JobStarts DEF Init
<1>2. FlagsOK
  BY DEF Init, FlagsOK
<1>3. CountsOK
  BY HidDeviceAssumption DEF Init, CountsOK
<1>4. TypeOK
  BY <1>1, <1>2, <1>3 DEF Init, TypeOK, Drivers
<1> QED
  BY <1>4 DEF Init, NoJob, IInv, SemCounted, IoPlaces, Parsed, Claims, InputSafe, OpenBalanced,
              Held, ProbePcs, RemovePcs

\* Every step keeps it, and so does a stutter.
LEMMA NextInv == IInv /\ [Next]_vars => IInv'
<1>1. IInv /\ UNCHANGED vars => IInv'
  BY DEF vars, devVars, llVars, busVars, lifeVars, IInv, TypeOK, SemCounted, IoPlaces, Parsed,
         Claims, InputSafe, OpenBalanced, Held, FlagsOK, CountsOK
<1> QED
  BY <1>1, JobStep, BusStep, LifeStep, InputStep, ListenerStep DEF Next, Ended

\* The inductive invariant of the device's life (struct hid_device, its driver, its transport).
THEOREM Invariance == Spec => []IInv
BY InitInv, NextInv, PTL DEF Spec

\* Every variable keeps its type, the count of driver_input_lock among them.
THEOREM TypesCorrect == Spec => []TypeOK
<1>1. IInv => TypeOK
  BY DEF IInv
<1> QED
  BY <1>1, Invariance, PTL

\* A report being processed has its driver and its parsed reports, and reaches no driver that is
\* being probed or removed and has not let input in (__hid_input_report against hid_device_probe
\* and hid_device_remove).
THEOREM InputIsSafe == Spec => []InputSafe
<1>1. IInv => InputSafe
  BY DEF IInv
<1> QED
  BY <1>1, Invariance, PTL

\* The transport is open exactly for its listeners and under a driver (hid_hw_open, hid_hw_close).
THEOREM OpenIsBalanced == Spec => []OpenBalanced
<1>1. IInv => OpenBalanced
  BY DEF IInv
<1> QED
  BY <1>1, Invariance, PTL

-----------------------------------------------------------------------------
(* The right driver: whoever changes the drivers on the bus while the device is on it leaves a job *)
(* or a thread behind that is still to make up for it.  The lists of drivers to try are short      *)
(* enough to be written out.                                                                       *)

\* Whom a job will still try.
Upcoming(j, d) ==
  \/ j.pc \in {"lock", "match"} /\ j.drv = d
  \/ \E i \in DOMAIN j.next : j.next[i] = d

Removing == job.pc = "rlock" \/ job.pc \in RemovePcs

\* The driver that the device should have.
Wanted == IF Special \in registered THEN Special ELSE Generic

\* The lists of drivers that are tried, and what is left of them.
Lists == {<<>>, <<Special>>, <<Generic>>, <<Generic, Special>>}

\* What the jobs and the bus know of each other, whatever fails.
JobOrder ==
  /\ job.next \in Lists
  /\ job.pc = "off" => job.next = <<>>
  /\ parsed => driver # None
  /\ job.pc = "parse" => ~parsed
  /\ job.pc = "runlock" => driver = None
  /\ driver # None /\ reprobed => Removing
  /\ job.pc = "match" => ~reprobed
  /\ onBus <=> life \in {"adding", "added"}
  /\ life = "added" => added
  /\ life = "allocated" => driver = None /\ job.pc = "off"
  /\ rt \in {"attach", "scan"} => Special \in registered
  /\ rt = "rescan" => Special \notin registered
  /\ Generic \in registered

\* The device has the driver it should have, or somebody is still at it: the job that
\* is under way, or the thread that registered or unregistered the special driver.
Heading ==
  /\ job.pc # "fail"
  /\ Upcoming(job, Special) => Special \in registered
  /\ driver = Special => Special \in registered \/ (Removing /\ rt = "rescan")
  /\ Removing => rt = "rescan" \/ (rt = "off" /\ Special \in registered)
  /\ rt = "off" => (driver = Wanted /\ ~Removing)
                   \/ ((driver = None \/ Removing) /\ Upcoming(job, Wanted))
  /\ rt = "scan" => driver # None \/ Upcoming(job, Special)

Rightful == JobOrder /\ (faults = 0 /\ onBus => Heading)

USE DEF Generic, Special, None

\* What is left of a list of drivers, and who is in it.
LEMMA ListParts ==
  /\ \A s \in Lists :
       s # <<>> => Tail(s) \in Lists /\ Head(s) \in Drivers
  /\ Head(<<Generic>>) = Generic /\ Tail(<<Generic>>) = <<>>
  /\ Head(<<Special>>) = Special /\ Tail(<<Special>>) = <<>>
  /\ Head(<<Generic, Special>>) = Generic /\ Tail(<<Generic, Special>>) = <<Special>>
BY DEF Lists, Drivers

\* Who is still to be tried, by the list alone.
LEMMA UpcomingIs ==
  ASSUME NEW j, j.next \in Lists
  PROVE  /\ Upcoming(j, Special) <=> \/ j.pc \in {"lock", "match"} /\ j.drv = Special
                                  \/ j.next = <<Special>> \/ j.next = <<Generic, Special>>
         /\ Upcoming(j, Generic) <=> \/ j.pc \in {"lock", "match"} /\ j.drv = Generic
                                  \/ j.next = <<Generic>> \/ j.next = <<Generic, Special>>
<1>1. CASE j.next = <<>>
  BY <1>1 DEF Upcoming
<1>2. CASE j.next = <<Special>>
  <2>1. 1 \in DOMAIN j.next /\ j.next[1] = Special /\ \A i \in DOMAIN j.next : i = 1
    BY <1>2
  <2> QED
    BY <1>2, <2>1 DEF Upcoming
<1>3. CASE j.next = <<Generic>>
  <2>1. 1 \in DOMAIN j.next /\ j.next[1] = Generic /\ \A i \in DOMAIN j.next : i = 1
    BY <1>3
  <2> QED
    BY <1>3, <2>1 DEF Upcoming
<1>4. CASE j.next = <<Generic, Special>>
  <2>1. 1 \in DOMAIN j.next /\ j.next[1] = Generic /\ 2 \in DOMAIN j.next /\ j.next[2] = Special
    BY <1>4
  <2> QED
    BY <1>4, <2>1 DEF Upcoming
<1> QED
  BY <1>1, <1>2, <1>3, <1>4 DEF Lists

\* A job that moves on keeps its driver and its list.
LEMMA JobKeeps ==
  ASSUME NEW j \in Jobs, NEW p \in Pcs
  PROVE  /\ [j EXCEPT !.pc = p].pc = p /\ [j EXCEPT !.pc = p].drv = j.drv
         /\ [j EXCEPT !.pc = p].next = j.next
BY DEF Jobs

\* Whatever a step of a job does besides, the bus and the device's life stay as they are.
LEMMA JobLeaves ==
  ASSUME TypeOK, JobNext
  PROVE  /\ UNCHANGED <<registered, rt, ops, life, onBus, added>>
         /\ faults' = 0 => faults = 0
<1>1. faults \in Nat
  BY HidDeviceAssumption DEF TypeOK, CountsOK
<1> QED
  BY <1>1
     DEF JobNext, JobFrame, busVars, lifeVars, devVars, llVars, Job, TryNext, ProbeLock, ProbeSignal, ProbeMatch,
         ProbeParse, ProbeStart, Connect, ProbeTalks, ProbeListens, ProbeStopsInput, ProbeGivesUp,
         ProbeFailed, Unlock, RemoveLock, RemoveTalks, RemoveStopsInput, RemoveSilent,
         RemoveHwStop, RemoveClose, RemoveUnlock, IoStart, IoStop, Fault

\* A probe or a removal heads for the right driver.
LEMMA JobRightful ==
  ASSUME IInv, Rightful, JobNext
  PROVE  Rightful'
<1> DEFINE Moves(p) == job'.pc = p /\ job'.drv = job.drv /\ job'.next = job.next
<1> USE DEF Rightful, JobOrder, Heading, Removing, Wanted, RemovePcs, JobFrame, devVars, busVars
<1>0. /\ UNCHANGED <<registered, rt, life, onBus, added>> /\ (faults' = 0 => faults = 0)
      /\ job \in Jobs /\ driver \in Drivers \cup {None} /\ Parsed
  BY JobLeaves DEF IInv, TypeOK
<1>1. ASSUME NEW p \in Pcs, NEW q, Job(q, p)
      PROVE  Moves(p) /\ job.pc = q
  BY <1>0, <1>1, JobKeeps DEF Job
<1>2. Pcs = {"off", "try", "lock", "rlock", "match", "parse", "start", "talk", "answer", "giveUp",
             "fail", "unlock", "rstop", "rtalk", "rhw", "rclose", "runlock"}
  BY DEF Pcs, ProbePcs
<1>. /\ "parse" \in Pcs /\ "unlock" \in Pcs /\ "start" \in Pcs /\ "fail" \in Pcs
     /\ "talk" \in Pcs /\ "runlock" \in Pcs /\ "rstop" \in Pcs
  BY <1>2
<1>17. ASSUME NEW p \in Pcs, job' = [job EXCEPT !.pc = p]
      PROVE  Moves(p)
  BY <1>0, <1>17, JobKeeps
<1>3. CASE TryNext
  <2>0. UNCHANGED <<driver, parsed, reprobed>> /\ job.pc = "try"
    BY <1>3 DEF TryNext
  <2>1. CASE job' = NoJob /\ (job.next = <<>> \/ driver # None)
    <3>1. job'.pc = "off" /\ job'.next = <<>> /\ <<>> \in Lists
      BY <2>1 DEF NoJob, Lists
    <3>2. ~Upcoming(job', Special) /\ ~Upcoming(job', Generic)
      BY <3>1 DEF Upcoming
    <3>3. driver = None => ~Upcoming(job, Special) /\ ~Upcoming(job, Generic)
      BY <2>0, <2>1 DEF Upcoming
    <3> QED
      BY <1>0, <2>0, <3>1, <3>2, <3>3
  <2>2. CASE driver = None /\ job.next # <<>> /\ job'.pc = "lock" /\ job'.drv = Head(job.next) /\ job'.next = Tail(job.next)
    <3>1. job'.next \in Lists
      BY <2>2, ListParts
    <3>2. /\ Upcoming(job', Special) <=> Upcoming(job, Special)
          /\ Upcoming(job', Generic) <=> Upcoming(job, Generic)
      <4>1. CASE job.next = <<Special>>
        BY <2>0, <2>2, <4>1, ListParts DEF Upcoming
      <4>2. CASE job.next = <<Generic>>
        BY <2>0, <2>2, <4>2, ListParts DEF Upcoming
      <4>3. CASE job.next = <<Generic, Special>>
        <5>1. job'.drv = Generic /\ job'.next = <<Special>>
          BY <2>2, <4>3, ListParts
        <5> QED
          BY <2>0, <2>2, <3>1, <4>3, <5>1, UpcomingIs
      <4> QED
        BY <2>2, <4>1, <4>2, <4>3 DEF Lists
    <3> QED
      BY <1>0, <2>0, <2>2, <3>1, <3>2
  <2>3. job.next # <<>> /\ driver = None =>
         job'.pc = "lock" /\ job'.drv = Head(job.next) /\ job'.next = Tail(job.next)
    BY <1>0, <1>3 DEF TryNext, Jobs
  <2> QED
    BY <1>3, <2>1, <2>2, <2>3 DEF TryNext
<1>4. CASE ProbeLock
  BY <1>0, <1>1, <1>2, <1>4, UpcomingIs DEF ProbeLock, Parsed
<1>5. CASE ProbeSignal
  <2>1. faults' # 0
    BY <1>5, HidDeviceAssumption DEF ProbeSignal, Fault, IInv, TypeOK, CountsOK
  <2> QED
    BY <1>0, <1>1, <1>2, <1>5, <2>1 DEF ProbeSignal, Parsed
<1>6. CASE ProbeMatch
  <2>2. CASE Matches(job.drv)
    <3>1. Moves("parse") /\ driver' = job.drv /\ UNCHANGED <<parsed, reprobed>>
      BY <1>17, <1>6, <2>2 DEF ProbeMatch
    <3> QED
      BY <1>0, <1>6, <2>2, <3>1, UpcomingIs DEF ProbeMatch, Parsed, Matches, Drivers, Lists, Jobs
  <2>3. CASE ~Matches(job.drv)
    <3>1. Moves("unlock") /\ UNCHANGED <<driver, parsed, reprobed>>
      BY <1>17, <1>6, <2>3 DEF ProbeMatch
    <3> QED
      BY <1>0, <1>6, <2>3, <3>1, UpcomingIs DEF ProbeMatch, Parsed, Matches, Drivers, Lists, Jobs
  <2> QED
    BY <2>2, <2>3
<1>7. CASE ProbeParse
  <2>1. Moves("start") \/ (Moves("fail") /\ faults' # 0)
    BY <1>17, <1>7, HidDeviceAssumption DEF ProbeParse, Fault, IInv, TypeOK, CountsOK
  <2> QED
    BY <1>0, <1>7, <2>1, UpcomingIs DEF ProbeParse, Parsed
<1>8. CASE ProbeStart
  <2>1. Moves("talk") \/ Moves("unlock") \/ (Moves("fail") /\ faults' # 0)
    BY <1>17, <1>8, HidDeviceAssumption DEF ProbeStart, Connect, Fault, IInv, TypeOK, CountsOK
  <2> QED
    BY <1>0, <1>8, <2>1, UpcomingIs DEF ProbeStart, Parsed
<1>9. CASE ProbeTalks \/ ProbeListens \/ ProbeStopsInput
  <2>1. /\ Moves("answer") \/ Moves("unlock") \/ Moves("giveUp")
        /\ job.pc \in {"talk", "answer"} /\ UNCHANGED <<driver, parsed, reprobed>>
    BY <1>1, <1>2, <1>9 DEF ProbeTalks, ProbeListens, ProbeStopsInput, IoStart, IoStop
  <2> QED
    BY <1>0, <1>9, <2>1, UpcomingIs DEF Parsed
<1>10. CASE ProbeGivesUp
  <2>1. faults' # 0
    BY <1>10, HidDeviceAssumption DEF ProbeGivesUp, Fault, IInv, TypeOK, CountsOK
  <2> QED
    BY <1>0, <1>1, <1>2, <1>10, <2>1 DEF ProbeGivesUp
<1>11. CASE ProbeFailed
  BY <1>0, <1>1, <1>2, <1>11 DEF ProbeFailed
<1>12. CASE Unlock
  BY <1>0, <1>1, <1>2, <1>12, UpcomingIs DEF Unlock
<1>13. CASE RemoveLock
  <2>1. /\ (Moves("runlock") /\ driver = None) \/ Moves("rstop")
        /\ job.pc = "rlock" /\ UNCHANGED <<driver, parsed, reprobed>>
    BY <1>17, <1>13 DEF RemoveLock
  <2> QED
    BY <1>0, <2>1, UpcomingIs
<1>14. CASE RemoveTalks \/ RemoveStopsInput \/ RemoveSilent \/ RemoveHwStop
  <2>1. /\ Moves("rtalk") \/ Moves("rhw") \/ Moves("rclose")
        /\ job.pc \in RemovePcs /\ UNCHANGED <<driver, parsed, reprobed>>
    BY <1>1, <1>2, <1>14
       DEF RemoveTalks, RemoveStopsInput, RemoveSilent, RemoveHwStop, IoStart, IoStop
  <2> QED
    BY <1>0, <1>14, <2>1, UpcomingIs
<1>15. CASE RemoveClose
  BY <1>0, <1>1, <1>2, <1>15, UpcomingIs DEF RemoveClose
<1>16. CASE RemoveUnlock
  BY <1>0, <1>1, <1>2, <1>16, UpcomingIs DEF RemoveUnlock
<1> QED
  BY <1>3, <1>4, <1>5, <1>6, <1>7, <1>8, <1>9, <1>10, <1>11, <1>12, <1>13, <1>14, <1>15, <1>16
     DEF JobNext

\* What the driver core starts has the list that it is given.
LEMMA JobIs ==
  /\ NoJob.pc = "off" /\ NoJob.next = <<>>
  /\ \A p, s : LET j == [pc |-> p, drv |-> None, next |-> s]
              IN  j.pc = p /\ j.drv = None /\ j.next = s
  /\ InOrder \in Lists /\ <<>> \in Lists /\ <<Special>> \in Lists
  /\ Special \in registered => InOrder = <<Generic, Special>>
  /\ Special \notin registered => InOrder = <<Generic>>
BY DEF NoJob, InOrder, Lists

\* Drivers that come and go keep the device heading for the right one.
LEMMA BusRightful ==
  ASSUME IInv, Rightful, RtNext
  PROVE  Rightful'
<1> USE DEF Rightful, JobOrder, Heading, Removing, Wanted, RemovePcs, RtFrame, lifeVars, Attach, Detach
<1>0. /\ UNCHANGED <<driver, parsed, life, onBus, added, faults>>
      /\ job \in Jobs /\ driver \in Drivers \cup {None} /\ registered \subseteq Drivers
  BY DEF IInv, TypeOK, RtNext, Register, DriverAttach, DriverAdded, Unregister, Rescan
<1>1. job.pc = "off" => ~Upcoming(job, Special) /\ ~Upcoming(job, Generic)
  BY DEF Upcoming
<1>2. CASE Register
  BY <1>0, <1>1, <1>2 DEF Register, Upcoming
<1>3. CASE DriverAttach
  BY <1>0, <1>1, <1>3, JobIs, UpcomingIs DEF DriverAttach
<1>4. CASE DriverAdded
  BY <1>0, <1>1, <1>4, JobIs, UpcomingIs DEF DriverAdded, Reprobe, Matches, Drivers
<1>5. CASE Unregister
  BY <1>0, <1>1, <1>5, JobIs, UpcomingIs DEF Unregister
<1>6. CASE Rescan
  <2>1. /\ rt = "rescan" /\ rt' = "off" /\ job.pc = "off" /\ Special \notin registered
        /\ UNCHANGED <<registered, reprobed>>
    BY <1>6 DEF Rescan
  <2>2. CASE onBus /\ driver = None
    <3>1. job'.pc = "try" /\ job'.next = InOrder
      BY <1>6, <2>2, JobIs DEF Rescan
    <3>2. Upcoming(job', Wanted) /\ ~Upcoming(job', Special)
      BY <2>1, <3>1, JobIs, UpcomingIs
    <3> QED
      BY <1>0, <2>1, <2>2, <3>1, <3>2, JobIs
  <2>3. CASE ~(onBus /\ driver = None)
    <3>1. job' = job
      BY <1>6, <2>3 DEF Rescan
    <3> QED
      BY <1>0, <1>1, <2>1, <2>3, <3>1 DEF Drivers
  <2> QED
    BY <2>2, <2>3
<1> QED
  BY <1>2, <1>3, <1>4, <1>5, <1>6 DEF RtNext

\* So does the device that comes and goes.
LEMMA LifeRightful ==
  ASSUME IInv, Rightful, LifeNext
  PROVE  Rightful'
<1> USE DEF Rightful, JobOrder, Heading, Removing, Wanted, RemovePcs, LifeFrame, devVars, busVars, Attach, Detach
<1>1. CASE AddDevice
  <2>1. CASE Fault
    <3>1. faults' # 0
      BY <2>1, HidDeviceAssumption DEF Fault, IInv, TypeOK, CountsOK
    <3> QED
      BY <1>1, <3>1, JobIs DEF AddDevice
  <2>2. CASE Attach(InOrder) /\ life' = "adding" /\ onBus' = TRUE /\ added' = added
    <3>1. /\ UNCHANGED <<driver, parsed, reprobed, registered, rt>> /\ life = "allocated"
      BY <1>1 DEF AddDevice
    <3>2. job'.pc = "try" /\ job'.next = InOrder
      BY <2>2, JobIs
    <3>3. Upcoming(job', Wanted) /\ (Upcoming(job', Special) => Special \in registered)
      BY <3>2, JobIs, UpcomingIs
    <3> QED
      BY <2>2, <3>1, <3>2, <3>3, JobIs
  <2> QED
    BY <1>1, <2>1, <2>2 DEF AddDevice
<1>2. CASE Added
  BY <1>2 DEF Added
<1>3. CASE DestroyDevice
  BY <1>3, JobIs DEF DestroyDevice
<1>4. CASE PutDevice
  BY <1>4 DEF PutDevice
<1> QED
  BY <1>1, <1>2, <1>3, <1>4 DEF LifeNext

\* Reports and listeners have no part in it.
LEMMA RightfulStep ==
  ASSUME IInv, Rightful, [Next]_vars
  PROVE  Rightful'
<1>1. ASSUME UNCHANGED <<job, driver, parsed, reprobed, onBus, life, added, rt, registered>>,
             faults' = 0 => faults = 0
      PROVE  Rightful'
  BY <1>1 DEF Rightful, JobOrder, Heading, Removing, Wanted
<1>2. CASE InputLock \/ InputNext \/ Ended \/ UNCHANGED vars
  BY <1>1, <1>2 DEF InputLock, InputNext, InputDriver, InputRaw, InputEvent, InputUnlock, InputFrame,
     Ended, vars, devVars, busVars, lifeVars
<1>3. CASE \E l \in Listeners : HwOpen(l) \/ HwClose(l)
  <2>1. faults' = 0 => faults = 0
    <3>1. UNCHANGED faults \/ Fault
      BY <1>3 DEF HwOpen, HwClose, OpenFrame
    <3> QED
      BY <3>1, HidDeviceAssumption DEF Fault, IInv, TypeOK, CountsOK
  <2> QED
    BY <1>1, <1>3, <2>1 DEF HwOpen, HwClose, OpenFrame, busVars, lifeVars
<1> QED
  BY <1>2, <1>3, JobRightful, BusRightful, LifeRightful DEF Next

\* Before the device is on the bus nothing is wanted of it.
LEMMA RightfulInit == Init => Rightful
BY JobIs DEF Init, Rightful, JobOrder, Removing, RemovePcs

\* When all is quiet and nothing has failed, the device has the special driver if there is one,
\* otherwise hid-generic, however many drivers came and went, and however their registration met
\* the probes and removals of the device (__hid_bus_driver_added, __hid_bus_reprobe_drivers,
\* __bus_removed_driver).
THEOREM DriverIsRight == Spec => []RightDriver
<1>1. IInv /\ Rightful => RightDriver
  BY DEF Rightful, JobOrder, Heading, Removing, RemovePcs, Wanted, RightDriver, Upcoming
<1>2. IInv /\ Rightful /\ [Next]_vars => (IInv /\ Rightful)'
  BY NextInv, RightfulStep
<1> QED
  BY <1>1, <1>2, InitInv, RightfulInit, PTL DEF Spec
=============================================================================
