-------------------------- MODULE ClickTrialProofs --------------------------
(***************************************************************************)
(* That a trial is guarded, for any number of failed steps and kills of    *)
(* trial.py, until a rollback fails.                                       *)
(*                                                                         *)
(* Guarded is not inductive: it does not say which part of the way back a  *)
(* running rollback has still to go.  The invariant does: a rollback that  *)
(* is past the override has still the reload before it while systemd would *)
(* start the candidate, and the restart while the candidate runs.          *)
(***************************************************************************)
EXTENDS ClickTrial, TLAPS

\* How far trial.py has come: before the reload nothing of the service has changed.
TrialOrder ==
  /\ pc \in {"state", "arm", "override", "reload"} => loaded = "packaged" /\ daemon # "candidate"
  /\ pc \in {"state", "arm", "override"} =>
       /\ ~override /\ \A r \in Rollbacks : rb[r] = "idle"
       /\ pc = "override" => timer
  /\ pc \notin {"idle", "except"} => rb["handler"] = "idle"
  /\ runtime = "none" => pc = "idle" /\ ~timer /\ \A r \in Rollbacks : rb[r] = "idle"
  /\ override /\ loaded = "packaged" => daemon # "candidate"

\* How far the rollbacks have come.
WayBack ==
  /\ override => timer \/ \E r \in Rollbacks : rb[r] \in {"exists", "unlink"}
  /\ loaded = "candidate" /\ ~override => \E r \in Rollbacks : rb[r] = "reload"
  /\ daemon = "candidate" /\ ~override /\ loaded = "packaged" =>
       \E r \in Rollbacks : rb[r] = "restart"
  /\ \A r \in Rollbacks : rb[r] \in {"reload", "restart", "stop", "restored"} => ~override

Inv == TypeOK /\ (RollbackFailed \/ (TrialOrder /\ WayBack))

-----------------------------------------------------------------------------
LEMMA InitInv == Init => Inv
<1> SUFFICES ASSUME Init PROVE Inv
  OBVIOUS
<1>1. faults \in [FaultKinds -> 0..MaxFaults]
  BY ClickTrialAssumption DEF Init
<1>2. TypeOK
  BY <1>1 DEF Init, TypeOK, TrialLabels, RollbackLabels
<1>3. TrialOrder /\ WayBack
  BY DEF Init, TrialOrder, WayBack
<1> QED
  BY <1>2, <1>3 DEF Inv

\* A fault uses up one of the behaviour's faults; that a rollback failed is remembered.
LEMMA FaultTyped == \A kind \in {"step", "kill", "rollback"} :
  TypeOK /\ Fault(kind) =>
    /\ faults' \in [FaultKinds -> 0..MaxFaults]
    /\ RollbackFailed \/ kind = "rollback" => RollbackFailed'
<1> SUFFICES ASSUME NEW kind \in {"step", "kill", "rollback"}, TypeOK, Fault(kind)
             PROVE  /\ faults' \in [FaultKinds -> 0..MaxFaults]
                    /\ RollbackFailed \/ kind = "rollback" => RollbackFailed'
  OBVIOUS
<1>1. /\ faults \in [FaultKinds -> 0..MaxFaults] /\ MaxFaults \in Nat
      /\ kind \in FaultKinds /\ faults[kind] > 0
      /\ faults' = [faults EXCEPT ![kind] = faults[kind] - 1]
  BY ClickTrialAssumption DEF TypeOK, Fault
<1>2. faults[kind] - 1 \in 0..MaxFaults /\ faults[kind] - 1 < MaxFaults
  BY <1>1
<1>3. faults' \in [FaultKinds -> 0..MaxFaults]
  BY <1>1, <1>2
<1>4. RollbackFailed \/ kind = "rollback" => RollbackFailed'
  BY <1>1, <1>2 DEF RollbackFailed
<1> QED
  BY <1>3, <1>4

\* Nothing else makes a rollback fail.
LEMMA NoFault == UNCHANGED faults => (RollbackFailed <=> RollbackFailed')
BY DEF RollbackFailed

\* A step of trial.py keeps the invariant.
LEMMA TrialStep == Inv /\ (TrialStart \/ Trial \/ TrialKilled) => Inv'
<1> SUFFICES ASSUME Inv, TrialStart \/ Trial \/ TrialKilled PROVE Inv'
  OBVIOUS
<1> USE FaultTyped, NoFault DEF Inv, TypeOK, TrialOrder, WayBack, Rollbacks, TrialLabels, RollbackLabels
<1>1. CASE TrialStart
  BY <1>1 DEF TrialStart, service
<1>2. CASE TrialState
  BY <1>2 DEF TrialState, service
<1>3. CASE TrialArm
  BY <1>3 DEF TrialArm, Except, service
<1>4. CASE TrialOverride
  BY <1>4 DEF TrialOverride, Except
<1>5. CASE TrialReload
  BY <1>5 DEF TrialReload, DaemonReload, Except
<1>6. CASE TrialRestart
  BY <1>6 DEF TrialRestart, RestartFails, Except
<1>7. CASE TrialCheck
  BY <1>7 DEF TrialCheck, Except, service
<1>8. CASE TrialEnd
  BY <1>8 DEF TrialEnd, service
<1>9. CASE TrialKilled
  BY <1>9 DEF TrialKilled, service
<1> QED
  BY <1>1, <1>2, <1>3, <1>4, <1>5, <1>6, <1>7, <1>8, <1>9 DEF Trial

\* A step of a rollback, or its failure, keeps the invariant.
LEMMA RollbackStep ==
  ASSUME Inv, NEW r \in Rollbacks,
         Rollback(r) \/ RollbackKilled(r) \/ TimerFires
  PROVE  Inv'
<1> USE FaultTyped, NoFault DEF Inv, TypeOK, TrialOrder, WayBack, Rollbacks, TrialLabels, RollbackLabels,
                       At, Goto
<1>1. CASE TimerFires
  BY <1>1 DEF TimerFires, service
<1>2. CASE RollbackExists(r)
  BY <1>2 DEF RollbackExists, service
<1>3. CASE RollbackUnlink(r)
  BY <1>3 DEF RollbackUnlink
<1>4. CASE RollbackReload(r)
  BY <1>4 DEF RollbackReload, DaemonReload
<1>5. CASE RollbackRestart(r)
  BY <1>5 DEF RollbackRestart, RestartFails
<1>6. CASE RollbackStop(r)
  BY <1>6 DEF RollbackStop, service
<1>7. CASE RollbackRestored(r)
  BY <1>7 DEF RollbackRestored, service
<1>8. CASE RollbackKilled(r)
  BY <1>8 DEF RollbackKilled, service
<1> QED
  BY <1>1, <1>2, <1>3, <1>4, <1>5, <1>6, <1>7, <1>8 DEF Rollback

LEMMA InvStep == Inv /\ [Next]_vars => Inv'
<1> SUFFICES ASSUME Inv, [Next]_vars PROVE Inv'
  OBVIOUS
<1> USE NoFault DEF Inv, TypeOK, TrialOrder, WayBack, Rollbacks
<1>1. CASE ServiceRestart
  BY <1>1 DEF ServiceRestart
<1>2. CASE Reboot
  BY <1>2 DEF Reboot, TrialLabels, RollbackLabels
<1>3. CASE UNCHANGED vars
  BY <1>3 DEF vars
<1>4. CASE TimerFires
  BY <1>4, RollbackStep
<1> QED
  BY <1>1, <1>2, <1>3, <1>4, TrialStep, RollbackStep DEF Next

(***************************************************************************)
(* Until a rollback fails, an override and a candidate always have a       *)
(* rollback to come or underway, however often trial.py fails, is killed   *)
(* or is overtaken by the timer.                                           *)
(***************************************************************************)
THEOREM TrialGuarded == Spec => []Guarded
<1>1. Inv => Guarded
  BY DEF Inv, TypeOK, WayBack, Guarded, At
<1>2. Inv /\ [Next]_vars => Inv'
  BY InvStep
<1> QED
  BY <1>1, <1>2, InitInv, PTL DEF Spec
=============================================================================
