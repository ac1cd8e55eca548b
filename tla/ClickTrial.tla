----------------------------- MODULE ClickTrial -----------------------------
(***************************************************************************)
(* A trial of a new iptsd on a running laptop (trial.py and                *)
(* rollback-trial.py of experimental/touchpad-click): a volatile override  *)
(* makes the service run the candidate, and a rollback, started by a timer *)
(* armed before or by trial.py when a step fails, puts the packaged iptsd  *)
(* back.  Each command or file operation is a step, after which the script *)
(* can be killed, the other one can run, or the machine can be rebooted.   *)
(***************************************************************************)
EXTENDS Integers

CONSTANTS
  FaultKinds,   \* "step": a step of trial.py fails; "kill": it is killed between two steps;
                \* "rollback": a step of the rollback fails, or it is killed
  MaxFaults     \* bound: how many faults of each kind in one behaviour

ASSUME ClickTrialAssumption ==
  FaultKinds \subseteq {"step", "kill", "rollback"} /\ MaxFaults \in Nat

\* The two that run rollback-trial.py: trial.py's except clause, and the timer.
Rollbacks == {"handler", "timer"}

TrialLabels    == {"idle", "state", "arm", "override", "reload", "restart", "check", "except"}
RollbackLabels == {"idle", "exists", "unlink", "reload", "restart", "stop", "restored"}

VARIABLES
  override,   \* the override file exists
  loaded,     \* the iptsd that systemd would start: "packaged" or "candidate"
  daemon,     \* the iptsd that runs, or "none"
  runtime,    \* /run/sl7-iptsd-click-test: "none", "made", or what state.json says:
              \* "trial" or "restored"
  timer,      \* sl7-iptsd-click-rollback.timer is armed
  pc,         \* trial.py
  rb,         \* the two rollbacks
  faults      \* faults still allowed, of each kind

service == <<override, loaded, daemon>>
vars    == <<override, loaded, daemon, runtime, timer, pc, rb, faults>>

Init ==
  /\ override = FALSE /\ loaded = "packaged" /\ daemon = "packaged"
  /\ runtime = "none" /\ timer = FALSE /\ pc = "idle" /\ rb = [r \in Rollbacks |-> "idle"]
  /\ faults = [kind \in FaultKinds |-> MaxFaults]

Fault(kind) ==
  /\ kind \in FaultKinds /\ faults[kind] > 0
  /\ faults' = [faults EXCEPT ![kind] = @ - 1]

\* systemctl daemon-reload reads the files that are there.
DaemonReload == loaded' = IF override THEN "candidate" ELSE "packaged"

\* A restart that fails leaves the old iptsd alone or stops it.
RestartFails == daemon' \in {daemon, "none"}

-----------------------------------------------------------------------------
(***************************************************************************)
(* trial.py --apply.                                                       *)
(***************************************************************************)

\* The preflight, and the directory that makes a second trial impossible until a reboot.
TrialStart ==
  /\ pc = "idle"
  /\ daemon = "packaged" /\ loaded = "packaged" /\ ~override /\ runtime = "none"
  /\ runtime' = "made" /\ pc' = "state"
  /\ UNCHANGED <<service, timer, rb, faults>>

TrialState ==
  /\ pc = "state"
  /\ \/ runtime' = "trial" /\ pc' = "arm" /\ UNCHANGED faults
     \/ Fault("step") /\ pc' = "idle" /\ UNCHANGED runtime
  /\ UNCHANGED <<service, timer, rb>>

\* A step inside the try block: what happens when it fails.
Except ==
  /\ Fault("step") /\ pc' = "except" /\ rb' = [rb EXCEPT !["handler"] = "exists"]

\* Mutant of TrialArm: a timer that cannot be armed is no reason to stop.
TrialArmUnchecked ==
  /\ pc = "arm" /\ pc' = "override"
  /\ \/ timer' = TRUE /\ UNCHANGED faults
     \/ Fault("step") /\ UNCHANGED timer
  /\ UNCHANGED <<service, runtime, rb>>

TrialArm ==
  /\ pc = "arm"
  /\ \/ timer' = TRUE /\ pc' = "override" /\ UNCHANGED <<rb, faults>>
     \/ Except /\ UNCHANGED timer
  /\ UNCHANGED <<service, runtime>>

TrialOverride ==
  /\ pc = "override"
  /\ \/ override' = TRUE /\ pc' = "reload" /\ UNCHANGED <<rb, faults>>
     \/ Except /\ UNCHANGED override
  /\ UNCHANGED <<loaded, daemon, runtime, timer>>

TrialReload ==
  /\ pc = "reload"
  /\ \/ DaemonReload /\ pc' = "restart" /\ UNCHANGED <<rb, faults>>
     \/ Except /\ UNCHANGED loaded
  /\ UNCHANGED <<override, daemon, runtime, timer>>

TrialRestart ==
  /\ pc = "restart"
  /\ \/ daemon' = loaded /\ pc' = "check" /\ UNCHANGED <<rb, faults>>
     \/ Except /\ RestartFails
  /\ UNCHANGED <<override, loaded, runtime, timer>>

\* The trial stands when the candidate runs; anything else ends it.
TrialCheck ==
  /\ pc = "check"
  /\ \/ daemon = "candidate" /\ pc' = "idle" /\ UNCHANGED <<rb, faults>>
     \/ /\ daemon # "candidate"
        /\ pc' = "except" /\ rb' = [rb EXCEPT !["handler"] = "exists"] /\ UNCHANGED faults
     \/ Except
  /\ UNCHANGED <<service, runtime, timer>>

\* trial.py waits for the rollback it started, whatever comes of it.
TrialEnd ==
  /\ pc = "except" /\ rb["handler"] = "idle"
  /\ pc' = "idle"
  /\ UNCHANGED <<service, runtime, timer, rb, faults>>

TrialKilled ==
  /\ pc # "idle" /\ Fault("kill") /\ pc' = "idle"
  /\ UNCHANGED <<service, runtime, timer, rb>>

-----------------------------------------------------------------------------
(***************************************************************************)
(* rollback-trial.py.                                                      *)
(***************************************************************************)
At(r, label)   == rb[r] = label
Goto(r, label) == rb' = [rb EXCEPT ![r] = label]

\* 180 s: longer than anything trial.py does but wait for systemd or its rollback.
TimerFires ==
  /\ timer /\ pc \in {"idle", "reload", "restart", "except"} /\ At("timer", "idle")
  /\ timer' = FALSE /\ Goto("timer", "exists")
  /\ UNCHANGED <<service, runtime, pc, faults>>

RollbackExists(r) ==
  /\ At(r, "exists") /\ Goto(r, IF override THEN "unlink" ELSE "stop")
  /\ UNCHANGED <<service, runtime, timer, pc, faults>>

\* The other rollback may have removed the file: an exception, and the end of this one.
RollbackUnlink(r) ==
  /\ At(r, "unlink")
  /\ override' = FALSE /\ Goto(r, IF override THEN "reload" ELSE "idle")
  /\ UNCHANGED <<loaded, daemon, runtime, timer, pc, faults>>

\* Mutant of RollbackReload: systemd is not told that the override is gone.
RollbackReloadNot(r) ==
  /\ At(r, "reload") /\ Goto(r, "restart")
  /\ UNCHANGED <<service, runtime, timer, pc, faults>>

RollbackReload(r) ==
  /\ At(r, "reload")
  /\ \/ DaemonReload /\ Goto(r, "restart") /\ UNCHANGED faults
     \/ Fault("rollback") /\ Goto(r, "idle") /\ UNCHANGED loaded
  /\ UNCHANGED <<override, daemon, runtime, timer, pc>>

RollbackRestart(r) ==
  /\ At(r, "restart")
  /\ \/ daemon' = loaded /\ Goto(r, "stop") /\ UNCHANGED faults
     \/ Fault("rollback") /\ Goto(r, "idle") /\ RestartFails
  /\ UNCHANGED <<override, loaded, runtime, timer, pc>>

\* A timer that is not there is no error (check=False).
RollbackStop(r) ==
  /\ At(r, "stop") /\ Goto(r, "restored") /\ timer' = FALSE
  /\ UNCHANGED <<service, runtime, pc, faults>>

RollbackRestored(r) ==
  /\ At(r, "restored") /\ Goto(r, "idle") /\ runtime' = "restored"
  /\ UNCHANGED <<service, timer, pc, faults>>

RollbackKilled(r) ==
  /\ ~At(r, "idle") /\ Fault("rollback") /\ Goto(r, "idle")
  /\ UNCHANGED <<service, runtime, timer, pc>>

Rollback(r) ==
  \/ RollbackExists(r) \/ RollbackUnlink(r) \/ RollbackReload(r)
  \/ RollbackRestart(r) \/ RollbackStop(r) \/ RollbackRestored(r)

-----------------------------------------------------------------------------
\* Restart=on-failure: an iptsd that has gone is started again.
ServiceRestart ==
  /\ daemon = "none" /\ daemon' = loaded
  /\ UNCHANGED <<override, loaded, runtime, timer, pc, rb, faults>>

\* Everything the trial makes is below /run.
Reboot ==
  /\ override' = FALSE /\ loaded' = "packaged" /\ daemon' = "packaged"
  /\ runtime' = "none" /\ timer' = FALSE /\ pc' = "idle" /\ rb' = [r \in Rollbacks |-> "idle"]
  /\ UNCHANGED faults

Trial == \/ TrialState \/ TrialArm \/ TrialOverride \/ TrialReload \/ TrialRestart
         \/ TrialCheck \/ TrialEnd

Next ==
  \/ TrialStart \/ Trial \/ TrialKilled
  \/ TimerFires
  \/ \E r \in Rollbacks : Rollback(r) \/ RollbackKilled(r)
  \/ ServiceRestart
  \/ Reboot

Spec == Init /\ [][Next]_vars

\* Scripts run to their end, the timer elapses, systemd restarts what has failed.
Fairness ==
  /\ WF_vars(Trial) /\ WF_vars(TimerFires) /\ WF_vars(ServiceRestart)
  /\ \A r \in Rollbacks : WF_vars(Rollback(r))

FairSpec == Spec /\ Fairness

-----------------------------------------------------------------------------
(***************************************************************************)
(* Every variable has its type.                                            *)
(***************************************************************************)
TypeOK ==
  /\ override \in BOOLEAN /\ timer \in BOOLEAN
  /\ loaded \in {"packaged", "candidate"} /\ daemon \in {"packaged", "candidate", "none"}
  /\ runtime \in {"none", "made", "trial", "restored"}
  /\ pc \in TrialLabels /\ rb \in [Rollbacks -> RollbackLabels]
  /\ faults \in [FaultKinds -> 0..MaxFaults]

\* A run of rollback-trial.py has failed or has been killed.
RollbackFailed == "rollback" \in FaultKinds /\ faults["rollback"] < MaxFaults

(***************************************************************************)
(* "Arm the rollback before changing the service that provides pointer     *)
(* input" (trial.py:69): wherever trial.py fails or is killed, an override *)
(* and a candidate that runs or may be started have a rollback to come, or *)
(* one underway, until a rollback itself fails.                            *)
(***************************************************************************)
Guarded ==
  override \/ loaded = "candidate" \/ daemon = "candidate"
    => timer \/ RollbackFailed \/ \E r \in Rollbacks : ~At(r, "idle")

(***************************************************************************)
(* A trial ends by itself: the packaged iptsd comes back, unless a         *)
(* rollback fails.                                                         *)
(***************************************************************************)
TrialEnds == daemon # "packaged" ~> daemon = "packaged" \/ RollbackFailed

(***************************************************************************)
(* "Restored packaged iptsd" (rollback-trial.py:22): once state.json says   *)
(* restored, the override is gone and systemd starts the packaged iptsd,   *)
(* at the latest when a rollback that is still underway has ended.         *)
(***************************************************************************)
RestoredIsPackaged == runtime = "restored" ~> loaded = "packaged" /\ ~override
=============================================================================
