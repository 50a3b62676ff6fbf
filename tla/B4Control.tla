----------------------------- MODULE B4Control -----------------------------
(***************************************************************************)
(* The B4 control plane from the first panel to the public closeout: the   *)
(* holdout is authored and frozen (B4Holdout), its readiness is published  *)
(* and bound to the freeze, the launch is authorized, and the one formal   *)
(* attempt runs (B4Attempt).  The gates between the phases are files.      *)
(***************************************************************************)
EXTENDS B4Holdout, B4Attempt

VARIABLES
  readiness,    \* the public readiness report: "none", "public", or "bound" to the freeze
  authorized    \* b4_private_launch_authorization.json exists

gateVars == <<readiness, authorized>>
controlVars == <<holdoutVars, gateVars, attemptVars>>

ControlInit ==
  /\ HoldoutInit /\ AttemptInit
  /\ readiness = "none" /\ authorized = FALSE

\* validate_frozen_holdout
FrozenHoldoutValid == author.done = PanelCount /\ Replays /\ HoldoutFrozen

NoTreatment == entries = {} /\ outcomes = {}

\* build_public_readiness, and the first file of write_public_readiness.
PublishReadiness ==
  /\ readiness = "none"
  /\ FrozenHoldoutValid /\ NoTreatment /\ ~authorized /\ ~release
  /\ readiness' = "public"
  /\ UNCHANGED <<holdoutVars, attemptVars, authorized>>

\* The second file, in the same run or in a later one.
BindReadiness ==
  /\ readiness = "public"
  /\ FrozenHoldoutValid /\ NoTreatment /\ ~authorized /\ ~release
  /\ readiness' = "bound"
  /\ UNCHANGED <<holdoutVars, attemptVars, authorized>>

\* create_launch_authorization
AuthorizeLaunch ==
  /\ ~authorized /\ ~release /\ terminal = NoTerminal
  /\ HoldoutFrozen /\ readiness = "bound"
  /\ authorized' = TRUE
  /\ UNCHANGED <<holdoutVars, attemptVars, readiness>>

\* Broken variant: the holdout is complete when its last panel is.
RunAdmittedByPanels == author.done = PanelCount /\ Replays

\* What run_formal_replication validates first.
RunAdmitted == FrozenHoldoutValid /\ readiness = "bound" /\ authorized

\* closeout_interrupted_failure loads the freeze and the authorization.
CloseoutAdmitted == HoldoutFrozen /\ authorized

\* The worker's start and the closeout look at the gates.  The launcher and the
\* reset do not: they may run at any time, over an unfinished holdout too.
AttemptStep ==
  /\ AttemptNext
  /\ StartRun => RunAdmitted
  /\ RefuseRun => ~RunAdmitted \/ LaunchStateExists
  /\ StartCloseout => CloseoutAdmitted
  /\ UNCHANGED <<holdoutVars, gateVars>>

HoldoutStep ==
  /\ HoldoutNext
  /\ UNCHANGED <<launchVars, runsVars, evidenceVars, boundary, closeVars, workVars, gateVars>>

ControlNext ==
  HoldoutStep \/ PublishReadiness \/ BindReadiness \/ AuthorizeLaunch \/ AttemptStep

ControlSpec == ControlInit /\ [][ControlNext]_controlVars /\ AttemptFairness
----------------------------------------------------------------------------
(* Properties *)

\* A worker has got past its validations, or something was closed out.
AttemptBegun ==
  runsMade \/ admission \/ release \/ observed \/ terminal # NoTerminal \/ public # NoCloseout

\* The attempt runs on the holdout that was frozen: a launch may come too early,
\* but from the moment a worker has made its runs directory the holdout is
\* complete, the readiness is bound to it and the launch is authorized, and no
\* command writes any of them again.
AttemptUsesFrozenHoldout ==
  [][AttemptBegun =>
       /\ HoldoutFrozen /\ readiness = "bound" /\ authorized
       /\ UNCHANGED <<holdoutVars, gateVars>>]_controlVars
=============================================================================
