------------------------------- MODULE Pointer -------------------------------
(***************************************************************************)
(* What the desktop may rely on from the input device that iptsd creates:  *)
(* a set of fingers, the one that moves the pointer, and a button that is  *)
(* independent of them.  The comments of iptsd patch 0002 promise as much: *)
(* a replacement for a lifted finger "in this frame, without a false       *)
(* all-fingers-up frame", and "ordinary contact loss must not synthesize a *)
(* physical button release".                                               *)
(***************************************************************************)
CONSTANTS Indices, NONE

VARIABLES
  fingers,    \* the contacts on the surface
  primary,    \* the one that moves the pointer, NONE when there is none
  button      \* whether the button is down

vars == <<fingers, primary, button>>

Init == fingers = {} /\ primary = NONE /\ button = FALSE

\* Fingers come and go; the pointer changes finger only when its own is lifted.
Touch ==
  /\ fingers' \in SUBSET Indices
  /\ \/ fingers' = {} /\ primary' = NONE
     \/ primary \in fingers' /\ primary' = primary
     \/ primary \notin fingers' /\ primary' \in fingers'
  /\ UNCHANGED button

Click == button' = ~button /\ UNCHANGED <<fingers, primary>>

\* A palm, or a pen: everything is released at once.
Release == fingers' = {} /\ primary' = NONE /\ button' = FALSE

Next == Touch \/ Click \/ Release

Spec == Init /\ [][Next]_vars
=============================================================================
