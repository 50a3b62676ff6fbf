-------------------------- MODULE B4Control_proofs --------------------------
(***************************************************************************)
(* The attempt inside the whole control plane: the authoring and the gates *)
(* leave its invariants alone, and it runs on a holdout that is frozen and *)
(* stays as it was.                                                        *)
(***************************************************************************)
EXTENDS B4Control, B4Holdout_proofs, B4Attempt_proofs

USE DEF attemptVars, launchVars, runsVars, evidenceVars, closeVars, workVars

----------------------------------------------------------------------------
(* The invariants of the holdout and of the attempt hold in the composition *)

\* A step outside the attempt changes at most the number of faults.
LEMMA InvOutside ==
  ASSUME AttemptInv, faults' \in 0..MaxFaults,
         UNCHANGED <<launchVars, runsVars, evidenceVars, boundary, closeVars, workVars>>
  PROVE  AttemptInv'
<1>1. UNCHANGED FlagsType /\ UNCHANGED EvidenceType /\ UNCHANGED PlacesType
        /\ UNCHANGED RecordsType
  BY DEF FlagsType, EvidenceType, PlacesType, RecordsType
<1>2. CountersType'
  BY DEF AttemptInv, AttemptTypeOK, CountersType, FaultsType
<1>3. UNCHANGED Control /\ UNCHANGED Children /\ UNCHANGED Threads
  BY DEF Control, Children, Threads
<1>4. UNCHANGED Receipts /\ UNCHANGED Verdict
  BY DEF Receipts, Verdict, TerminalAgrees
<1>. QED BY <1>1, <1>2, <1>3, <1>4 DEF AttemptInv, AttemptTypeOK

\* The number of faults stays in its range in the authoring too.
LEMMA FaultsOutside ==
  ASSUME FaultsType, HoldoutNext
  PROVE  faults' \in 0..MaxFaults
BY MaxFaultsAssumption DEF FaultsType, HoldoutNext, CommandFails, Fault

\* Every step of the control keeps the invariant of the attempt.
LEMMA ControlInvStep ==
  ASSUME AttemptInv, [ControlNext]_controlVars
  PROVE  AttemptInv'
<1>0. faults \in 0..MaxFaults
  BY DEF AttemptInv, AttemptTypeOK, CountersType, FaultsType
<1>1. CASE HoldoutStep
  <2>1. faults' \in 0..MaxFaults
    BY <1>0, <1>1, FaultsOutside DEF HoldoutStep, FaultsType
  <2>. QED BY <1>1, <2>1, InvOutside DEF HoldoutStep
<1>2. CASE AttemptStep
  BY <1>2, InvStep DEF AttemptStep
<1>3. CASE PublishReadiness \/ BindReadiness \/ AuthorizeLaunch
  BY <1>3, InvStep DEF PublishReadiness, BindReadiness, AuthorizeLaunch
<1>4. CASE UNCHANGED controlVars
  BY <1>4, InvStep DEF controlVars
<1>. QED BY <1>1, <1>2, <1>3, <1>4 DEF ControlNext

\* A step outside the authoring changes nothing of the holdout.
LEMMA HoldoutOutside ==
  ASSUME HoldoutInv, UNCHANGED holdoutVars
  PROVE  HoldoutInv' /\ UNCHANGED <<Completions, HoldoutFrozen>>
<1> USE DEF holdoutVars
<1>1. HoldoutTypeOK' /\ Phases'
  BY DEF HoldoutInv, HoldoutTypeOK, Phases, panel
<1>2. Completed' /\ ToCome' /\ InWork'
  BY FilesKept
<1>3. UNCHANGED <<Completions, HoldoutFrozen>>
  BY DEF Completions, HoldoutFrozen, FreezeOutputs
<1>. QED BY <1>1, <1>2, <1>3 DEF HoldoutInv

\* Every step of the control keeps the invariant of the holdout and is, for the
\* holdout, a step of its ledger.
LEMMA ControlHoldoutStep ==
  ASSUME HoldoutInv, [ControlNext]_controlVars
  PROVE  HoldoutInv' /\ [Ledger!Next]_<<Completions, HoldoutFrozen>>
<1>1. CASE HoldoutStep
  BY <1>1, HoldoutInvStep, LedgerStep DEF HoldoutStep
<1>2. CASE ~HoldoutStep
  <2>1. UNCHANGED holdoutVars
    BY <1>2 DEF ControlNext, PublishReadiness, BindReadiness, AuthorizeLaunch, AttemptStep,
           controlVars
  <2>. QED BY <2>1, HoldoutOutside
<1>. QED BY <1>1, <1>2

\* Every step of the control is, for the attempt, a step of its own or none.
LEMMA ControlAttemptStep ==
  ASSUME AttemptInv, [ControlNext]_controlVars
  PROVE  /\ [Shot!Next]_<<Phase, public.kind>>
         /\ boundary # "none" /\ boundary' # boundary => cmd = "failing" /\ observer # "gone"
<1>1. CASE AttemptStep
  BY <1>1, ShotStep, ReceiptOnceStep DEF AttemptStep, AttemptInv
<1>2. CASE ~AttemptStep
  <2>1. UNCHANGED <<release, cmd, observed, public, boundary>>
    BY <1>2 DEF ControlNext, HoldoutStep, PublishReadiness, BindReadiness, AuthorizeLaunch,
           controlVars
  <2>. QED BY <2>1 DEF Phase, WorkerLives
<1>. QED BY <1>1, <1>2

\* The whole control plane keeps both invariants.
THEOREM ControlInvariant == ControlSpec => [](HoldoutInv /\ AttemptInv)
<1>1. ControlInit => HoldoutInv /\ AttemptInv
  BY InvInit, HoldoutInvInit DEF ControlInit
<1>2. HoldoutInv /\ AttemptInv /\ [ControlNext]_controlVars => HoldoutInv' /\ AttemptInv'
  BY ControlInvStep, ControlHoldoutStep
<1>. QED BY <1>1, <1>2, PTL DEF ControlSpec

\* Authoring can be resumed, receipts have their evidence, successes are
\* complete and the terminal state agrees with the closeout, in the whole
\* control plane and for any number of panels, observations and faults.
THEOREM ControlIsSafe ==
  ControlSpec => [](/\ HoldoutTypeOK /\ AuthoringResumable
                    /\ AttemptTypeOK /\ ReceiptHasEvidence /\ SuccessIsComplete /\ TerminalAgrees)
<1>1. HoldoutInv => HoldoutTypeOK /\ AuthoringResumable
  BY InvResumable DEF HoldoutInv
<1>2. AttemptInv => AttemptTypeOK /\ ReceiptHasEvidence /\ SuccessIsComplete /\ TerminalAgrees
  BY DEF AttemptInv, Receipts, Verdict, ReceiptHasEvidence, SuccessIsComplete
<1>. QED BY <1>1, <1>2, ControlInvariant, PTL

\* When no panel child outlives a killed worker, a published failure counts
\* every observation on disk, in the whole control plane.
THEOREM ControlCoversEvidence ==
  ASSUME ~Orphans
  PROVE  ControlSpec => []CloseoutCoversEvidence
<1>1. ControlInit => Covered
  BY DEF ControlInit, AttemptInit, Covered, NoChild, NoCloseout
<1>2. AttemptInv /\ Covered /\ [ControlNext]_controlVars => Covered'
  <2> SUFFICES ASSUME AttemptInv, Covered, [ControlNext]_controlVars PROVE Covered'
    OBVIOUS
  <2>1. CASE AttemptStep
    BY <2>1, CoveredStep DEF AttemptStep
  <2>2. CASE ~AttemptStep
    <3>1. UNCHANGED <<evidenceVars, boundary, closeVars, workVars>>
      BY <2>2 DEF ControlNext, HoldoutStep, PublishReadiness, BindReadiness, AuthorizeLaunch,
             controlVars
    <3>. QED BY <3>1 DEF Covered
  <2>. QED BY <2>1, <2>2
<1>3. Covered => CloseoutCoversEvidence
  BY DEF Covered, CloseoutCoversEvidence
<1>. QED BY <1>1, <1>2, <1>3, ControlInvariant, PTL DEF ControlSpec

\* In the whole control plane the panels are the append-only ledger, the
\* attempt is the one-shot experiment, and its receipt is written once.
THEOREM ControlImplements ==
  ControlSpec => PanelsAreLedger /\ AttemptIsOneShot /\ ReceiptWrittenOnce
<1>1. ControlInit => Ledger!Init /\ Shot!Init
  BY PanelCountAssumption DEF ControlInit, HoldoutInit, Ledger!Init, Completions, HoldoutFrozen,
     FreezeOutputs, AttemptInit, Shot!Init, Phase, NoCloseout
<1>2. HoldoutInv /\ AttemptInv /\ [ControlNext]_controlVars
        => /\ [Ledger!Next]_<<Completions, HoldoutFrozen>>
           /\ [Shot!Next]_<<Phase, public.kind>>
           /\ [boundary # "none" /\ boundary' # boundary
                 => cmd = "failing" /\ observer # "gone"]_attemptVars
  BY ControlHoldoutStep, ControlAttemptStep
<1>. QED
  BY <1>1, <1>2, ControlInvariant, PTL
  DEF ControlSpec, PanelsAreLedger, Ledger!Spec, AttemptIsOneShot, Shot!Spec, ReceiptWrittenOnce

----------------------------------------------------------------------------
(* The gates *)

\* Where a worker is that has got past its validations, or a closeout.
PastTheGates == ctl \notin {"off", "start", "tree", "admission", "receipts"}

\* The freeze comes after the last panel, the binding of the readiness and the
\* authorization after the freeze, and all that a launch leads to, beyond the
\* launcher's own receipts, after the authorization.
Gated ==
  /\ frozen \in Nat /\ author.done \in Nat
  /\ step \in {"plan", "author", "cleanup"} \cup Derived
       => author.done < PanelCount /\ frozen = 0
  /\ step = "freeze" => author.done = PanelCount /\ frozen < FreezeOutputs
  /\ frozen > 0 => author.done = PanelCount
  /\ step \in {"off", "plan", "author", "cleanup", "freeze"} \cup Derived
  /\ authorized => HoldoutFrozen /\ readiness = "bound"
  /\ AttemptBegun \/ PastTheGates \/ child # NoChild \/ launcher = "release" => authorized

\* The commands of the authoring keep the order of the phases.
LEMMA HoldoutGated ==
  ASSUME Gated, HoldoutNext
  PROVE  /\ HoldoutFrozen => UNCHANGED holdoutVars
         /\ frozen' \in Nat /\ author'.done \in Nat
         /\ step' \in {"plan", "author", "cleanup"} \cup Derived
              => author'.done < PanelCount /\ frozen' = 0
         /\ step' = "freeze" => author'.done = PanelCount /\ frozen' < FreezeOutputs
         /\ frozen' > 0 => author'.done = PanelCount
         /\ step' \in {"off", "plan", "author", "cleanup", "freeze"} \cup Derived
         /\ HoldoutFrozen => HoldoutFrozen'
<1> USE PanelCountAssumption DEF Gated, Derived, FreezeOutputs, HoldoutFrozen, Stop, panel
<1>1. CASE StartPrepare \/ WritePlan
  BY <1>1 DEF StartPrepare, WritePlan
<1>2. CASE RejectCandidate \/ AcceptCandidate \/ NoneAdmitted \/ WriteManifests
  BY <1>2 DEF RejectCandidate, AcceptCandidate, NoneAdmitted, WriteManifests
<1>3. CASE WriteDerived
  BY <1>3 DEF WriteDerived, After
<1>4. CASE RemoveClone \/ CommitPanel
  BY <1>4 DEF RemoveClone, CommitPanel
<1>5. CASE StartFreeze
  BY <1>5 DEF StartFreeze, FreezeAdmitted
<1>6. CASE WriteFreezeOutput
  BY <1>6 DEF WriteFreezeOutput
<1>7. CASE CommandFails
  BY <1>7 DEF CommandFails
<1>. QED BY <1>1, <1>2, <1>3, <1>4, <1>5, <1>6, <1>7 DEF HoldoutNext

\* Nothing of an attempt that is not authorized gets further than its start.
LEMMA AttemptGated ==
  ASSUME AttemptInv, Gated, AttemptStep, ~authorized
  PROVE  ~AttemptBegun' /\ ~PastTheGates' /\ child' = NoChild /\ launcher' # "release"
<1> USE DEF Goto, Exit, Raise
<1>0. /\ ~AttemptBegun /\ ~PastTheGates /\ child = NoChild /\ launcher # "release"
      /\ ctl \in {"tree", "admission", "receipts"} => cmd = "reset"
  BY DEF Gated, AttemptInv, Control
<1> USE <1>0 DEF AttemptBegun, PastTheGates
<1>1. CASE LauncherNext
  BY <1>1 DEF LauncherNext, Launch, SeeAdmission, GiveUp, WriteRelease, LauncherDies
<1>2. CASE StartReset \/ ResetSteps
  BY <1>2 DEF StartReset, ResetSteps, RemoveTree, RemoveAdmission, RemoveReceipts
<1>3. CASE WorkerNext
  <2>1. ~StartRun
    BY DEF AttemptStep, RunAdmitted
  <2>2. RefuseRun
    BY <1>3, <2>1 DEF WorkerNext, WriteEnvelope, Admit, SeeRelease, ReleaseTimeout, StartChild,
       ReapChild, PanelsDone, JoinObserver, JoinTimeout, Reconcile, CheckReceipt, ReplaceReceipt,
       Score, Handle, Publish, WriteTerminal
  <2>. QED BY <2>2 DEF RefuseRun
<1>4. CASE ChildNext
  BY <1>4 DEF ChildNext, ChildObserve, ChildReport, ChildFail, NoChild
<1>5. CASE ObserverNext
  BY <1>5 DEF ObserverNext, ObserverLook, ObserverCheck, ObserverReplace
<1>6. CASE StartCloseout
  BY <1>6 DEF AttemptStep, CloseoutAdmitted
<1>7. CASE FaultNext
  <2>1. CASE IOError
    BY <2>1 DEF IOError
  <2>2. CASE SyncError
    BY <2>2 DEF SyncError
  <2>3. CASE ObserverError \/ PowerLoss
    BY <2>3 DEF ObserverError, PowerLoss
  <2>4. CASE Crash
    BY <2>4 DEF Crash
  <2>. QED BY <1>7, <2>1, <2>2, <2>3, <2>4 DEF FaultNext
<1>. QED BY <1>1, <1>2, <1>3, <1>4, <1>5, <1>6, <1>7 DEF AttemptStep, AttemptNext

\* So does every step of the control.
LEMMA GatedStep ==
  ASSUME AttemptInv, Gated, [ControlNext]_controlVars
  PROVE  Gated'
<1> USE DEF Gated, AttemptBegun, PastTheGates
<1>1. CASE HoldoutStep
  BY <1>1, HoldoutGated DEF HoldoutStep, gateVars
<1>2. CASE AttemptStep
  BY <1>2, AttemptGated DEF AttemptStep, holdoutVars, gateVars, HoldoutFrozen, FreezeOutputs
<1>3. CASE PublishReadiness \/ BindReadiness \/ AuthorizeLaunch
  BY <1>3 DEF PublishReadiness, BindReadiness, AuthorizeLaunch, holdoutVars, HoldoutFrozen,
         FreezeOutputs
<1>4. CASE UNCHANGED controlVars
  BY <1>4 DEF controlVars, holdoutVars, gateVars, HoldoutFrozen, FreezeOutputs
<1>. QED BY <1>1, <1>2, <1>3, <1>4 DEF ControlNext

\* The phases come in their order, whatever is interrupted and repeated.
THEOREM PhasesAreGated == ControlSpec => []Gated
<1>1. ControlInit => Gated
  BY PanelCountAssumption DEF ControlInit, HoldoutInit, AttemptInit, Gated, Derived, AttemptBegun,
     PastTheGates
<1>. QED BY <1>1, GatedStep, ControlInvariant, PTL DEF ControlSpec

\* A worker gets past its validations on a holdout that is frozen only, and from
\* then on no repeated or interrupted command writes the holdout or its gates,
\* although a launch or a reset may come at any time.
THEOREM AttemptsUseFrozenHoldout == ControlSpec => AttemptUsesFrozenHoldout
<1>1. Gated /\ [ControlNext]_controlVars
        => [AttemptBegun => /\ HoldoutFrozen /\ readiness = "bound" /\ authorized
                            /\ UNCHANGED <<holdoutVars, gateVars>>]_controlVars
  <2> SUFFICES ASSUME Gated, ControlNext, AttemptBegun
               PROVE  /\ HoldoutFrozen /\ readiness = "bound" /\ authorized
                      /\ UNCHANGED <<holdoutVars, gateVars>>
    OBVIOUS
  <2>1. HoldoutFrozen /\ readiness = "bound" /\ authorized
    BY DEF Gated
  <2>2. CASE HoldoutStep
    BY <2>1, <2>2, HoldoutGated DEF HoldoutStep
  <2>3. CASE AttemptStep
    BY <2>1, <2>3 DEF AttemptStep
  <2>4. ~PublishReadiness /\ ~BindReadiness /\ ~AuthorizeLaunch
    BY <2>1 DEF PublishReadiness, BindReadiness, AuthorizeLaunch
  <2>. QED BY <2>1, <2>2, <2>3, <2>4 DEF ControlNext
<1>. QED BY <1>1, PhasesAreGated, PTL DEF ControlSpec, AttemptUsesFrozenHoldout
=============================================================================
