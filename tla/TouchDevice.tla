----------------------------- MODULE TouchDevice -----------------------------
(***************************************************************************)
(* iptsd's TouchDevice (src/apps/daemon/touch.hpp after the patches of     *)
(* patchsets/iptsd): frames of contacts and samples of the click button    *)
(* come in, events for the kernel's input device go out.  Everything       *)
(* between two SYN_REPORTs is one step.                                    *)
(*                                                                         *)
(* A frame maps the indices that the tracker gave to its contacts, all     *)
(* different, to what the stabilizer and the validator say of them.        *)
(***************************************************************************)
EXTENDS Integers, FiniteSets

CONSTANTS
  Indices,          \* contact indices
  Positions,        \* places on the surface, and at most the overshoot outside it
  OUTSIDE,          \* a place farther outside
  DisableOnPalm,    \* m_disable_on_palm
  Debounce,         \* m_button_debounce_ms, in ticks of the clock
  NONE

ASSUME TouchDeviceAssumption ==
  /\ Indices \subseteq Nat /\ IsFiniteSet(Indices)
  /\ OUTSIDE \notin Positions
  /\ DisableOnPalm \in BOOLEAN
  /\ Debounce \in Nat
  /\ NONE \notin Indices \cup Positions

Contact == [stable : BOOLEAN, valid : BOOLEAN, pos : Positions \cup {OUTSIDE}]

\* Both m_emitted and the kernel's slots: a place for every index in use.
Places == UNION {[S -> Positions] : S \in SUBSET Indices}

VARIABLES
  \* TouchDevice
  enabled, blocked,
  emitted,      \* m_emitted: the place of every accepted contact
  single,       \* m_single_index
  buttonState, initialized,
  age,          \* ticks since m_button_last_change, up to Debounce
  \* the kernel's view of the input device
  slots,        \* the place of every multitouch slot that is in use
  touch,        \* BTN_TOUCH
  tool,         \* BTN_TOOL_FINGER ... QUINTTAP as the number of fingers, 0 for none
  abs,          \* ABS_X, ABS_Y
  left,         \* BTN_LEFT
  \* the hardware and its user
  touchpad,     \* m_info.is_touchpad(); otherwise a touchscreen with a pen
  pressed,      \* the click sensor, bounce included
  pen           \* a pen is near the touchscreen

buttonVars == <<buttonState, initialized, age>>
userVars   == <<touchpad, pressed, pen>>
vars == <<touchpad, enabled, blocked, emitted, single, buttonState, initialized, age,
          slots, touch, tool, abs, left, pressed, pen>>

Nothing == [i \in {} |-> NONE]

Init ==
  /\ touchpad \in BOOLEAN
  /\ enabled = TRUE /\ blocked = FALSE /\ emitted = Nothing /\ single = 0
  /\ buttonState = FALSE /\ initialized = FALSE /\ age = Debounce
  /\ slots = Nothing /\ touch = FALSE /\ tool = 0 /\ abs = NONE /\ left = FALSE
  /\ pressed = FALSE /\ pen = FALSE

First(S) == CHOOSE i \in S : \A j \in S : i <= j

\* Mutant of Primary: the lowest index moves the pointer.
PrimaryFirst(S) == First(S)

\* The contact that moves the pointer: the one that did, or else the first.
Primary(S) == IF single \in S THEN single ELSE First(S)

-----------------------------------------------------------------------------
\* Mutant of Multitouch: nothing is lifted.
MultitouchNoLift(put, lifted) ==
  slots' = [i \in DOMAIN slots \cup DOMAIN put |-> IF i \in DOMAIN put THEN put[i] ELSE slots[i]]

\* emit_multitouch for the contacts of put, lift_multitouch for the indices of lifted.
Multitouch(put, lifted) ==
  slots' = [i \in (DOMAIN slots \cup DOMAIN put) \ lifted |->
              IF i \in DOMAIN put THEN put[i] ELSE slots[i]]

\* Mutant of LiftSingletouch: it releases the button too, as before the patch.
LiftSingletouchAndButton(button) ==
  touch' = FALSE /\ tool' = 0 /\ left' = FALSE /\ UNCHANGED abs

\* No finger is left; the button is what the caller says.
LiftSingletouch(button) ==
  /\ touch' = FALSE /\ left' = button /\ UNCHANGED abs
  /\ tool' = IF touchpad THEN 0 ELSE tool

Fingers(n) == IF n >= 5 THEN 5 ELSE n

EmitSingletouch(pos, n) ==
  /\ touch' = TRUE /\ abs' = pos /\ UNCHANGED left
  /\ tool' = IF touchpad THEN Fingers(n) ELSE tool

\* Mutant of LiftAll: m_button_state survives.
LiftAllKeepsState ==
  /\ Multitouch(Nothing, DOMAIN emitted)
  /\ emitted' = Nothing
  /\ LiftSingletouch(IF touchpad THEN FALSE ELSE left)
  /\ UNCHANGED <<buttonState, initialized>>

LiftAll ==
  /\ Multitouch(Nothing, DOMAIN emitted)
  /\ emitted' = Nothing
  /\ LiftSingletouch(IF touchpad THEN FALSE ELSE left)
  /\ buttonState' = FALSE /\ initialized' = FALSE

Accepted(c) == c.stable /\ c.valid /\ c.pos # OUTSIDE

\* The contacts of a frame that stay or become accepted.  A contact with an
\* unstable measurement keeps its last place, whatever that measurement is.
Kept(frame) == {i \in DOMAIN frame : \/ Accepted(frame[i])
                                     \/ ~frame[i].stable /\ i \in DOMAIN emitted}

Process(frame) ==
  /\ emitted' = [i \in Kept(frame) |-> IF frame[i].stable THEN frame[i].pos ELSE emitted[i]]
  /\ Multitouch([i \in {j \in DOMAIN frame : Accepted(frame[j])} |-> frame[i].pos],
                DOMAIN emitted \ Kept(frame))
  /\ \/ /\ Kept(frame) = {}
        /\ LiftSingletouch(left) /\ UNCHANGED single
     \/ /\ Kept(frame) # {}
        /\ single' = Primary(Kept(frame))
        /\ EmitSingletouch(emitted'[single'], Cardinality(Kept(frame)))
  /\ UNCHANGED <<buttonState, initialized>>

IsBlocked(frame, stray) == DisableOnPalm /\ (stray \/ \E i \in DOMAIN frame : ~frame[i].valid)

\* stray: a palm without an index is among the contacts.
Update(frame, stray) ==
  /\ blocked' = IsBlocked(frame, stray)
  /\ IF blocked' THEN LiftAll /\ UNCHANGED single ELSE Process(frame)

\* Mutant of Reenabled: a pen that has gone leaves the touchscreen disabled.
ReenabledNever == enabled

\* A touchscreen that a pen had disabled is enabled by the first frame without it.
Reenabled == enabled \/ ~pen

\* Daemon::on_touch.
OnTouch(frame, stray) ==
  /\ enabled' = Reenabled
  /\ \/ enabled' /\ Update(frame, stray)
     \/ ~enabled' /\ UNCHANGED <<blocked, emitted, single, buttonState, initialized,
                                 slots, touch, tool, abs, left>>
  /\ UNCHANGED <<age, userVars>>

\* Mutant of OnButton: a palm does not suppress the raw button.
OnButtonUnblocked ==
  /\ enabled /\ pressed # buttonState
  /\ initialized => age >= Debounce
  /\ buttonState' = pressed /\ left' = pressed
  /\ initialized' = TRUE /\ age' = 0
  /\ UNCHANGED <<enabled, blocked, emitted, single, slots, touch, tool, abs, userVars>>

\* Either kind of button report; a change too soon after the last one is dropped.
OnButton ==
  /\ enabled /\ ~blocked
  /\ pressed # buttonState
  /\ initialized => age >= Debounce
  /\ buttonState' = pressed /\ left' = pressed
  /\ initialized' = TRUE /\ age' = 0
  /\ UNCHANGED <<enabled, blocked, emitted, single, slots, touch, tool, abs, userVars>>

\* Daemon::on_stylus with touchscreen_disable_on_stylus: TouchDevice::disable.
OnStylus ==
  /\ ~touchpad /\ pen' \in BOOLEAN
  /\ \/ /\ enabled
        /\ LiftAll /\ enabled' = FALSE /\ blocked' = FALSE
     \/ /\ ~enabled
        /\ UNCHANGED <<enabled, blocked, emitted, buttonState, initialized,
                       slots, touch, tool, abs, left>>
  /\ UNCHANGED <<single, age, pressed, touchpad>>

Tick ==
  /\ age < Debounce /\ age' = age + 1
  /\ UNCHANGED <<enabled, blocked, emitted, single, buttonState, initialized,
                 slots, touch, tool, abs, left, userVars>>

\* The user clicks or lets go, or the sensor bounces.
Sensor ==
  /\ touchpad /\ pressed' = ~pressed
  /\ UNCHANGED <<enabled, blocked, emitted, single, buttonVars, slots, touch, tool, abs,
                 left, pen, touchpad>>

Frames == UNION {[S -> Contact] : S \in SUBSET Indices}

Next ==
  \/ \E frame \in Frames, stray \in BOOLEAN : OnTouch(frame, stray)
  \/ OnButton
  \/ OnStylus
  \/ Tick
  \/ Sensor

Spec == Init /\ [][Next]_vars

\* The clock runs and the touchpad keeps sending frames and the button's state.
Fairness ==
  /\ WF_vars(Tick) /\ WF_vars(OnButton)
  /\ WF_vars(\E frame \in Frames, stray \in BOOLEAN : OnTouch(frame, stray))

FairSpec == Spec /\ Fairness

-----------------------------------------------------------------------------
(***************************************************************************)
(* Every variable has its type: no slot holds a place off the surface and  *)
(* no contact is accepted that the tracker did not name.                   *)
(***************************************************************************)
TypeOK ==
  /\ enabled \in BOOLEAN /\ blocked \in BOOLEAN /\ touch \in BOOLEAN /\ left \in BOOLEAN
  /\ buttonState \in BOOLEAN /\ initialized \in BOOLEAN
  /\ touchpad \in BOOLEAN /\ pressed \in BOOLEAN /\ pen \in BOOLEAN
  /\ emitted \in Places /\ slots \in Places
  /\ single \in Indices \cup {0} /\ age \in 0..Debounce /\ tool \in 0..5
  /\ abs \in Positions \cup {NONE}

(***************************************************************************)
(* The two protocols agree: m_emitted is what the multitouch slots hold,   *)
(* BTN_TOUCH and the finger count say how many there are, and the single   *)
(* touch position is that of one of them (regression.cpp, consistent()).   *)
(***************************************************************************)
KernelView ==
  /\ slots = emitted
  /\ touch <=> DOMAIN slots # {}
  /\ touch => single \in DOMAIN slots /\ abs = slots[single]
  /\ touchpad => tool = Fingers(Cardinality(DOMAIN slots))

(***************************************************************************)
(* While a palm or a pen suppresses the device, nothing is down: "a firm   *)
(* palm press that mechanically trips the click sensor" is no click.       *)
(***************************************************************************)
QuietWhenSuppressed == ~enabled \/ blocked => ~touch /\ DOMAIN slots = {} /\ ~left

(***************************************************************************)
(* "Ordinary contact loss must not synthesize a physical button release":  *)
(* BTN_LEFT goes up only because the sensor did, or a palm or pen came.    *)
(***************************************************************************)
HoldSurvives == [][left /\ ~left' => ~pressed \/ blocked' \/ ~enabled']_vars

(***************************************************************************)
(* BTN_LEFT follows the sensor once that settles, although changes within  *)
(* the debounce time and under a palm are dropped and not remembered.      *)
(***************************************************************************)
ButtonSettles ==
  \A b \in BOOLEAN : <>[](pressed = b /\ enabled /\ ~blocked) => <>[](left = b)

(***************************************************************************)
(* A pen does not leave the touchscreen dead: once it has gone, fingers    *)
(* count again, however often it came and went during a touch.             *)
(***************************************************************************)
TouchReturns == <>[]~pen => []<>enabled

(***************************************************************************)
(* The device is a pointer as the desktop expects it: the pointer changes  *)
(* finger only when its own is lifted, and fingers leave the button alone. *)
(***************************************************************************)
P == INSTANCE Pointer WITH fingers <- DOMAIN slots,
                           primary <- IF touch THEN single ELSE NONE,
                           button  <- left
ActsAsPointer == P!Spec
=============================================================================
