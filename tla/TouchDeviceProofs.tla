-------------------------- MODULE TouchDeviceProofs --------------------------
(***************************************************************************)
(* What TouchDevice guarantees, for any number of contacts and any         *)
(* debounce time.  The inductive invariant adds to the invariants that TLC *)
(* checks that a touchscreen never presses BTN_LEFT and that a touchpad is *)
(* never disabled.                                                         *)
(***************************************************************************)
EXTENDS TouchDevice, FiniteSetTheorems, WellFoundedInduction, TLAPS

Inv ==
  /\ TypeOK /\ KernelView /\ QuietWhenSuppressed
  /\ ~touchpad => ~pressed /\ ~left /\ ~buttonState
  /\ touchpad => enabled /\ ~pen

\* The finger count of the event codes, for any set of contacts.
LEMMA FingersRange == \A S \in SUBSET Indices : Fingers(Cardinality(S)) \in 0..5
<1> SUFFICES ASSUME NEW S \in SUBSET Indices PROVE Fingers(Cardinality(S)) \in 0..5
  OBVIOUS
<1>1. IsFiniteSet(S)
  BY FS_Subset, TouchDeviceAssumption
<1>2. Cardinality(S) \in Nat
  BY <1>1, FS_CardinalityType
<1> QED
  BY <1>2 DEF Fingers

\* The lowest index of a frame exists: m_emitted.begin() of a map that is not empty.
LEMMA LowestExists == \A S \in SUBSET Nat : S # {} => First(S) \in S
<1> SUFFICES ASSUME NEW S \in SUBSET Nat, S # {} PROVE First(S) \in S
  OBVIOUS
<1> DEFINE R == {ss \in Nat \X Nat : ss[1] < ss[2]}
<1>0. IsWellFoundedOn(R, Nat)
  BY NatLessThanWellFounded DEF OpToRel
<1> HIDE DEF R
<1>1. S \subseteq Nat /\ S # {}
  OBVIOUS
<1>3. \E n \in S : \A m \in S : ~(<<m, n>> \in R)
  BY <1>0, <1>1, WFMin, ZenonT(30)
<1>4. PICK n \in S : \A m \in S : ~(<<m, n>> \in R)
  BY <1>3
<1>5. ASSUME NEW m \in S PROVE n <= m
  <2>1. m \in Nat /\ n \in Nat
    BY <1>1
  <2>2. m < n => <<m, n>> \in R
    BY <2>1 DEF R
  <2> QED
    BY <1>4, <2>1, <2>2
<1> QED
  BY <1>5 DEF First

\* Both maps start empty and agree.
LEMMA InitInv == Init => Inv
<1> SUFFICES ASSUME Init PROVE Inv
  OBVIOUS
<1>1. Nothing \in Places /\ DOMAIN Nothing = {}
  BY DEF Nothing, Places
<1>2. Cardinality({}) = 0
  BY FS_EmptySet
<1>3. TypeOK
  <2>1. emitted \in Places /\ slots \in Places
    BY <1>1 DEF Init
  <2>2. single \in Indices \cup {0} /\ age \in 0..Debounce /\ tool \in 0..5
    BY TouchDeviceAssumption DEF Init
  <2>3. abs \in Positions \cup {NONE}
    BY DEF Init
  <2>4. /\ enabled \in BOOLEAN /\ blocked \in BOOLEAN /\ touch \in BOOLEAN /\ left \in BOOLEAN
        /\ buttonState \in BOOLEAN /\ initialized \in BOOLEAN
        /\ touchpad \in BOOLEAN /\ pressed \in BOOLEAN /\ pen \in BOOLEAN
    BY DEF Init
  <2> QED
    BY <2>1, <2>2, <2>3, <2>4 DEF TypeOK
<1>4. KernelView
  BY <1>1, <1>2 DEF Init, KernelView, Fingers
<1> QED
  BY <1>1, <1>3, <1>4 DEF Init, Inv, QuietWhenSuppressed

-----------------------------------------------------------------------------
(***************************************************************************)
(* process(): the multitouch slots after a frame are the contacts it       *)
(* keeps, each where m_emitted puts it.                                    *)
(***************************************************************************)
LEMMA ProcessSlots ==
  ASSUME TypeOK, slots = emitted, NEW frame \in Frames, Process(frame)
  PROVE  /\ emitted' \in Places /\ slots' = emitted'
         /\ DOMAIN emitted' = Kept(frame) /\ Kept(frame) \in SUBSET Indices
<1> DEFINE A == {j \in DOMAIN frame : Accepted(frame[j])}
           K == Kept(frame)
           put == [i \in A |-> frame[i].pos]
<1>1. /\ DOMAIN frame \in SUBSET Indices
      /\ \A i \in DOMAIN frame : frame[i] \in Contact
  BY DEF Frames
<1>2. A \subseteq K /\ K \subseteq A \cup DOMAIN emitted /\ K \in SUBSET Indices
  BY <1>1 DEF Kept
<1>3. \A i \in K : (i \in A <=> frame[i].stable) /\ (i \notin A => i \in DOMAIN emitted)
  BY <1>1 DEF Kept, Accepted, Contact
<1>4. \A i \in A : frame[i].pos \in Positions
  BY <1>1 DEF Accepted, Contact
<1>5. \A i \in DOMAIN emitted : emitted[i] \in Positions
  BY DEF TypeOK, Places
<1>6. emitted' = [i \in K |-> IF frame[i].stable THEN frame[i].pos ELSE emitted[i]]
  BY DEF Process
<1>7. slots' = [i \in (DOMAIN slots \cup DOMAIN put) \ (DOMAIN emitted \ K) |->
                  IF i \in DOMAIN put THEN put[i] ELSE slots[i]]
  BY DEF Process, Multitouch
<1>8. (DOMAIN slots \cup DOMAIN put) \ (DOMAIN emitted \ K) = K
  BY <1>2
<1>9. \A i \in K : (IF i \in DOMAIN put THEN put[i] ELSE slots[i])
                     = (IF frame[i].stable THEN frame[i].pos ELSE emitted[i])
  BY <1>3
<1>10. slots' = [i \in K |-> IF frame[i].stable THEN frame[i].pos ELSE emitted[i]]
  BY <1>7, <1>8, <1>9
<1>11. \A i \in K : (IF frame[i].stable THEN frame[i].pos ELSE emitted[i]) \in Positions
  BY <1>3, <1>4, <1>5
<1>12. emitted' \in [K -> Positions]
  BY <1>6, <1>11
<1> QED
  BY <1>2, <1>6, <1>10, <1>12 DEF Places

(***************************************************************************)
(* lift_all() leaves nothing behind in the kernel's slots.                 *)
(***************************************************************************)
LEMMA LiftAllSlots ==
  ASSUME slots = emitted, LiftAll
  PROVE  /\ emitted' = Nothing /\ slots' = Nothing
         /\ DOMAIN Nothing = {} /\ Nothing \in Places
<1>1. DOMAIN Nothing = {} /\ Nothing \in Places
  BY DEF Nothing, Places
<1>2. slots' = [i \in (DOMAIN slots \cup DOMAIN Nothing) \ DOMAIN emitted |->
                  IF i \in DOMAIN Nothing THEN Nothing[i] ELSE slots[i]]
  BY DEF LiftAll, Multitouch
<1>3. (DOMAIN slots \cup DOMAIN Nothing) \ DOMAIN emitted = {}
  BY <1>1
<1>4. slots' = [i \in {} |-> IF i \in DOMAIN Nothing THEN Nothing[i] ELSE slots[i]]
  BY <1>2, <1>3
<1>5. slots' = Nothing
  BY <1>4 DEF Nothing
<1> QED
  BY <1>1, <1>5 DEF LiftAll

\* After lift_all() the invariant holds again, whatever else the caller sets.
LEMMA LiftAllInv ==
  ASSUME Inv, LiftAll, single' = single, age' = age, pressed' = pressed, touchpad' = touchpad,
         enabled' \in BOOLEAN, blocked' \in BOOLEAN, pen' \in BOOLEAN,
         touchpad => enabled' /\ ~pen'
  PROVE  Inv'
<1>1. /\ emitted' = Nothing /\ slots' = Nothing
      /\ DOMAIN Nothing = {} /\ Nothing \in Places
  BY LiftAllSlots DEF Inv, KernelView
<1>2. Fingers(Cardinality({})) = 0
  BY FS_EmptySet DEF Fingers
<1>3. /\ touch' = FALSE /\ abs' = abs /\ left' = (IF touchpad THEN FALSE ELSE left)
      /\ tool' = (IF touchpad THEN 0 ELSE tool)
      /\ buttonState' = FALSE /\ initialized' = FALSE
  BY DEF LiftAll, LiftSingletouch
<1>4. left' = FALSE
  BY <1>3 DEF Inv, TypeOK
<1>5. TypeOK'
  <2>1. /\ touch' \in BOOLEAN /\ left' \in BOOLEAN
        /\ buttonState' \in BOOLEAN /\ initialized' \in BOOLEAN /\ pressed' \in BOOLEAN
        /\ touchpad' \in BOOLEAN
    BY <1>3, <1>4 DEF Inv, TypeOK
  <2>2. single' \in Indices \cup {0} /\ age' \in 0..Debounce /\ tool' \in 0..5
    BY <1>3 DEF Inv, TypeOK
  <2>3. abs' \in Positions \cup {NONE}
    BY <1>3 DEF Inv, TypeOK
  <2> QED
    BY <1>1, <2>1, <2>2, <2>3 DEF TypeOK
<1>6. KernelView'
  BY <1>1, <1>2, <1>3 DEF KernelView
<1>7. QuietWhenSuppressed'
  BY <1>1, <1>3, <1>4 DEF QuietWhenSuppressed
<1> QED
  BY <1>3, <1>4, <1>5, <1>6, <1>7 DEF Inv

\* A frame that is processed keeps the invariant.
LEMMA ProcessInv ==
  ASSUME Inv, NEW frame \in Frames, Process(frame), ~blocked', enabled',
         enabled' \in BOOLEAN, blocked' \in BOOLEAN, UNCHANGED <<age, userVars>>
  PROVE  Inv'
<1>1. /\ emitted' \in Places /\ slots' = emitted'
      /\ DOMAIN emitted' = Kept(frame) /\ Kept(frame) \in SUBSET Indices
  BY ProcessSlots DEF Inv, KernelView
<1>2. /\ left' = left /\ buttonState' = buttonState /\ initialized' = initialized
      /\ age' = age /\ pressed' = pressed /\ pen' = pen /\ touchpad' = touchpad
  BY DEF Process, LiftSingletouch, EmitSingletouch, userVars
<1>3. Fingers(Cardinality(Kept(frame))) \in 0..5
  BY <1>1, FingersRange
<1>4. QuietWhenSuppressed'
  BY DEF QuietWhenSuppressed
<1>5. CASE Kept(frame) = {}
  <2>1. /\ single' = single /\ touch' = FALSE /\ abs' = abs
        /\ tool' = (IF touchpad THEN 0 ELSE tool)
    BY <1>5 DEF Process, LiftSingletouch
  <2>2. Fingers(Cardinality({})) = 0
    BY FS_EmptySet DEF Fingers
  <2>3. TypeOK'
    <3>1. touch' \in BOOLEAN /\ left' \in BOOLEAN
      BY <1>2, <2>1 DEF Inv, TypeOK
    <3>2. /\ buttonState' \in BOOLEAN /\ initialized' \in BOOLEAN
          /\ pressed' \in BOOLEAN /\ pen' \in BOOLEAN /\ touchpad' \in BOOLEAN
      BY <1>2 DEF Inv, TypeOK
    <3>3. single' \in Indices \cup {0} /\ age' \in 0..Debounce /\ tool' \in 0..5
      BY <1>2, <2>1 DEF Inv, TypeOK
    <3>4. abs' \in Positions \cup {NONE}
      BY <2>1 DEF Inv, TypeOK
    <3> QED
      BY <1>1, <3>1, <3>2, <3>3, <3>4 DEF TypeOK
  <2>4. KernelView'
    BY <1>1, <1>2, <1>5, <2>1, <2>2 DEF KernelView
  <2> QED
    BY <1>2, <1>4, <2>3, <2>4 DEF Inv
<1>6. CASE Kept(frame) # {}
  <2>1. /\ single' = Primary(Kept(frame)) /\ touch' = TRUE /\ abs' = emitted'[single']
        /\ tool' = (IF touchpad THEN Fingers(Cardinality(Kept(frame))) ELSE tool)
    BY <1>6 DEF Process, EmitSingletouch
  <2>2. single' \in Kept(frame)
    BY <1>1, <1>6, <2>1, LowestExists, TouchDeviceAssumption DEF Primary
  <2>3. abs' \in Positions
    BY <1>1, <2>1, <2>2 DEF Places
  <2>4. TypeOK'
    BY <1>1, <1>2, <1>3, <2>1, <2>2, <2>3 DEF Inv, TypeOK
  <2>5. KernelView'
    BY <1>1, <1>2, <1>6, <2>1, <2>2 DEF KernelView
  <2> QED
    BY <1>2, <1>4, <2>4, <2>5 DEF Inv
<1> QED
  BY <1>5, <1>6

-----------------------------------------------------------------------------
\* Every step keeps the invariant.
LEMMA StepInv == Inv /\ [Next]_vars => Inv'
<1> SUFFICES ASSUME Inv, [Next]_vars PROVE Inv'
  OBVIOUS
<1>1. ASSUME NEW frame \in Frames, NEW stray \in BOOLEAN, OnTouch(frame, stray) PROVE Inv'
  <2>1. /\ enabled' = Reenabled /\ age' = age /\ pressed' = pressed /\ pen' = pen
        /\ touchpad' = touchpad
        /\ enabled' \in BOOLEAN /\ (touchpad => enabled' /\ ~pen')
    BY <1>1 DEF OnTouch, Reenabled, userVars, Inv, TypeOK
  <2>2. CASE enabled'
    <3>1. blocked' = IsBlocked(frame, stray) /\ blocked' \in BOOLEAN
      BY <1>1, <2>2 DEF OnTouch, Update, IsBlocked
    <3>2. CASE blocked'
      <4>1. LiftAll /\ single' = single
        BY <1>1, <2>2, <3>2 DEF OnTouch, Update
      <4> QED
        BY <2>1, <3>1, <4>1, LiftAllInv DEF Inv, TypeOK
    <3>3. CASE ~blocked'
      <4>1. Process(frame) /\ UNCHANGED <<age, userVars>>
        BY <1>1, <2>2, <3>3 DEF OnTouch, Update
      <4> QED
        BY <2>1, <2>2, <3>1, <3>3, <4>1, ProcessInv
    <3> QED
      BY <3>2, <3>3
  <2>3. CASE ~enabled'
    <3>1. /\ UNCHANGED <<blocked, emitted, single, buttonState, initialized, slots, touch,
                         tool, abs, left>>
          /\ ~enabled
      BY <1>1, <2>1, <2>3 DEF OnTouch, Reenabled
    <3> QED
      BY <2>1, <3>1 DEF Inv, TypeOK, KernelView, QuietWhenSuppressed, Fingers
  <2> QED
    BY <2>2, <2>3
<1>2. CASE OnButton
  <2>1. /\ enabled /\ ~blocked /\ buttonState' = pressed /\ left' = pressed /\ initialized' = TRUE
        /\ age' = 0 /\ UNCHANGED <<enabled, blocked, emitted, single, slots, touch, tool, abs,
                                   pressed, pen, touchpad>>
    BY <1>2 DEF OnButton, userVars
  <2>2. TypeOK'
    BY <2>1, TouchDeviceAssumption DEF Inv, TypeOK
  <2> QED
    BY <2>1, <2>2 DEF Inv, KernelView, QuietWhenSuppressed, Fingers
<1>3. CASE OnStylus
  <2>1. CASE enabled
    <3>1. /\ LiftAll /\ enabled' = FALSE /\ blocked' = FALSE /\ ~touchpad /\ pen' \in BOOLEAN
          /\ single' = single /\ age' = age /\ pressed' = pressed /\ touchpad' = touchpad
      BY <1>3, <2>1 DEF OnStylus
    <3> QED
      BY <3>1, LiftAllInv
  <2>2. CASE ~enabled
    <3>1. /\ UNCHANGED <<enabled, blocked, emitted, single, buttonState, initialized, age, slots,
                         touch, tool, abs, left, pressed, touchpad>>
          /\ ~touchpad /\ pen' \in BOOLEAN
      BY <1>3, <2>2 DEF OnStylus
    <3> QED
      BY <3>1 DEF Inv, TypeOK, KernelView, QuietWhenSuppressed, Fingers
  <2> QED
    BY <2>1, <2>2
<1>4. CASE Tick
  <2>1. /\ age' \in 0..Debounce
        /\ UNCHANGED <<enabled, blocked, emitted, single, buttonState, initialized, slots,
                       touch, tool, abs, left, pressed, pen, touchpad>>
    BY <1>4, TouchDeviceAssumption DEF Tick, userVars, Inv, TypeOK
  <2> QED
    BY <2>1 DEF Inv, TypeOK, KernelView, QuietWhenSuppressed, Fingers
<1>5. CASE Sensor
  <2>1. /\ touchpad /\ pressed' \in BOOLEAN
        /\ UNCHANGED <<enabled, blocked, emitted, single, buttonState, initialized, age, slots,
                       touch, tool, abs, left, pen, touchpad>>
    BY <1>5 DEF Sensor, buttonVars
  <2> QED
    BY <2>1 DEF Inv, TypeOK, KernelView, QuietWhenSuppressed, Fingers
<1>6. CASE UNCHANGED vars
  BY <1>6 DEF vars, Inv, TypeOK, KernelView, QuietWhenSuppressed, Fingers
<1> QED
  BY <1>1, <1>2, <1>3, <1>4, <1>5, <1>6 DEF Next

(***************************************************************************)
(* The invariant holds in every state that TouchDevice reaches.            *)
(***************************************************************************)
THEOREM Invariance == Spec => []Inv
<1> QED
  BY InitInv, StepInv, PTL DEF Spec

(***************************************************************************)
(* Every variable keeps its type, whatever the frames and the button do.   *)
(***************************************************************************)
THEOREM TypesCorrect == Spec => []TypeOK
<1>1. Inv => TypeOK
  BY DEF Inv
<1> QED
  BY <1>1, Invariance, PTL

(***************************************************************************)
(* The single touch protocol, the multitouch protocol and m_emitted agree  *)
(* after every SYN_REPORT, for any number of contacts.                     *)
(***************************************************************************)
THEOREM KernelAgrees == Spec => []KernelView
<1>1. Inv => KernelView
  BY DEF Inv
<1> QED
  BY <1>1, Invariance, PTL

(***************************************************************************)
(* A device that a palm or a pen suppresses has nothing down.              *)
(***************************************************************************)
THEOREM Suppressed == Spec => []QuietWhenSuppressed
<1>1. Inv => QuietWhenSuppressed
  BY DEF Inv
<1> QED
  BY <1>1, Invariance, PTL

(***************************************************************************)
(* BTN_LEFT goes up only with the sensor, or under a palm or a pen.        *)
(***************************************************************************)
THEOREM HoldCorrect == Spec => HoldSurvives
<1> DEFINE Held == left /\ ~left' => ~pressed \/ blocked' \/ ~enabled'
<1>1. ASSUME [Next]_vars PROVE Held
  <2>1. ASSUME NEW frame \in Frames, NEW stray \in BOOLEAN, OnTouch(frame, stray), enabled', ~blocked'
        PROVE  left' = left
    BY <2>1 DEF OnTouch, Update, Process, LiftSingletouch, EmitSingletouch
  <2>2. OnButton => left' = pressed
    BY DEF OnButton
  <2>3. OnStylus => left' = left \/ ~enabled'
    BY DEF OnStylus
  <2>4. Tick \/ Sensor \/ UNCHANGED vars => left' = left
    BY DEF Tick, Sensor, vars
  <2> QED
    BY <1>1, <2>1, <2>2, <2>3, <2>4 DEF Next
<1> QED
  BY <1>1, PTL DEF Spec, HoldSurvives

-----------------------------------------------------------------------------
(***************************************************************************)
(* One step of TouchDevice is a Touch, a Click or a Release of the abstract *)
(* pointer, or nothing that it sees.                                       *)
(***************************************************************************)
LEMMA PointerStep == Inv /\ Inv' /\ [Next]_vars => [P!Next]_(P!vars)
<1> SUFFICES ASSUME Inv, Inv', [Next]_vars PROVE [P!Next]_(P!vars)
  OBVIOUS
<1> DEFINE primary == IF touch THEN single ELSE NONE
<1>1. ASSUME LiftAll PROVE P!Release
  <2>1. touch' = FALSE /\ left' = FALSE
    BY <1>1 DEF LiftAll, LiftSingletouch, Inv, TypeOK
  <2>2. DOMAIN slots' = {}
    BY <2>1 DEF Inv, KernelView
  <2> QED
    BY <2>1, <2>2 DEF P!Release
<1>2. ASSUME NEW frame \in Frames, Process(frame) PROVE P!Touch
  <2>1. DOMAIN slots' = Kept(frame) /\ Kept(frame) \in SUBSET Indices /\ left' = left
    BY <1>2, ProcessSlots DEF Inv, KernelView, Process, LiftSingletouch, EmitSingletouch
  <2>2. CASE Kept(frame) = {}
    <3>1. touch' = FALSE
      BY <1>2, <2>2 DEF Process, LiftSingletouch
    <3> QED
      BY <2>1, <2>2, <3>1 DEF P!Touch
  <2>3. CASE Kept(frame) # {}
    <3>1. touch' = TRUE /\ single' = Primary(Kept(frame)) /\ single' \in Kept(frame)
      BY <1>2, <2>1, <2>3 DEF Process, EmitSingletouch, Inv, KernelView
    <3>2. primary \in Kept(frame) => primary = single
      BY <2>1, TouchDeviceAssumption
    <3>3. primary \in Kept(frame) => single' = primary
      BY <3>1, <3>2 DEF Primary
    <3>4. primary' = single'
      BY <3>1
    <3> QED
      BY <2>1, <3>1, <3>3, <3>4 DEF P!Touch
  <2> QED
    BY <2>2, <2>3
<1>3. ASSUME UNCHANGED <<slots, touch, single, left>> PROVE UNCHANGED P!vars
  BY <1>3 DEF P!vars
<1>4. ASSUME NEW frame \in Frames, NEW stray \in BOOLEAN, OnTouch(frame, stray)
      PROVE  [P!Next]_(P!vars)
  BY <1>1, <1>2, <1>3, <1>4 DEF OnTouch, Update, P!Next
<1>5. CASE OnButton
  <2>1. left' \in BOOLEAN /\ left \in BOOLEAN /\ UNCHANGED <<slots, touch, single>>
    BY <1>5 DEF OnButton, Inv, TypeOK
  <2>2. CASE left' = left
    BY <1>3, <2>1, <2>2
  <2>3. CASE left' # left
    BY <2>1, <2>3 DEF P!Click, P!Next
  <2> QED
    BY <2>2, <2>3
<1>6. CASE OnStylus
  BY <1>1, <1>3, <1>6 DEF OnStylus, P!Next
<1>7. CASE Tick \/ Sensor \/ UNCHANGED vars
  BY <1>3, <1>7 DEF Tick, Sensor, vars
<1> QED
  BY <1>4, <1>5, <1>6, <1>7 DEF Next

(***************************************************************************)
(* TouchDevice implements Pointer: what the desktop may rely on holds for  *)
(* any number of contacts, frames, palms, pens and clicks.                 *)
(***************************************************************************)
THEOREM Refinement == Spec => ActsAsPointer
<1>1. Init => P!Init
  BY DEF Init, Nothing, P!Init
<1> QED
  BY <1>1, PointerStep, Invariance, PTL DEF Spec, ActsAsPointer, P!Spec
=============================================================================
