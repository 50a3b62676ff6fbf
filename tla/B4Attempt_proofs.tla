-------------------------- MODULE B4Attempt_proofs --------------------------
(***************************************************************************)
(* What holds of the formal attempt of B4 for any number of panels,        *)
(* observations and faults.                                                *)
(***************************************************************************)
EXTENDS B4Attempt, FiniteSetTheorems, TLAPS

USE DEF attemptVars, launchVars, runsVars, evidenceVars, closeVars, workVars

----------------------------------------------------------------------------
(* Which command can be where *)

Control ==
  /\ cmd = "none" <=> ctl = "off"
  /\ cmd = "reset" <=> ctl \in {"tree", "admission", "receipts"}
  /\ ctl \in {"start", "envelopes", "waiting", "panels", "score"} => cmd = "run"
  /\ ctl = "joining" => cmd \in {"run", "failing"}
  /\ ctl \in {"reconcile", "check", "replace", "publish"}
       => cmd \in {"run", "failing", "closeout"}
  /\ ctl = "handler" => cmd = "failing"
  /\ cmd = "succeeded" => ctl = "terminal"

\* Every step leaves the command at a place of its own program.
LEMMA ControlStep ==
  ASSUME Control, [AttemptNext]_attemptVars
  PROVE  Control'
<1> USE DEF Control, Goto, Exit, Raise
<1>1. CASE LauncherNext
  BY <1>1 DEF LauncherNext, Launch, SeeAdmission, GiveUp, WriteRelease, LauncherDies
<1>2. CASE StartReset \/ ResetSteps
  BY <1>2 DEF StartReset, ResetSteps, RemoveTree, RemoveAdmission, RemoveReceipts
<1>3. CASE WorkerNext
  <2>1. CASE StartRun \/ RefuseRun \/ WriteEnvelope \/ Admit \/ SeeRelease \/ ReleaseTimeout
    BY <2>1 DEF StartRun, RefuseRun, WriteEnvelope, Admit, SeeRelease, ReleaseTimeout
  <2>2. CASE StartChild \/ ReapChild \/ PanelsDone \/ JoinObserver \/ JoinTimeout
    BY <2>2 DEF StartChild, ReapChild, PanelsDone, JoinObserver, JoinTimeout
  <2>3. CASE Reconcile \/ CheckReceipt \/ ReplaceReceipt
    BY <2>3 DEF Reconcile, AfterReceipt, CheckReceipt, ReplaceReceipt
  <2>4. CASE Score \/ Handle \/ Publish \/ WriteTerminal
    BY <2>4 DEF Score, Handle, Publish, WriteTerminal
  <2>. QED BY <1>3, <2>1, <2>2, <2>3, <2>4 DEF WorkerNext
<1>4. CASE ChildNext
  BY <1>4 DEF ChildNext, ChildObserve, ChildReport, ChildFail
<1>5. CASE ObserverNext
  BY <1>5 DEF ObserverNext, ObserverLook, ObserverCheck, ObserverReplace
<1>6. CASE StartCloseout
  BY <1>6 DEF StartCloseout
<1>7. CASE FaultNext
  BY <1>7 DEF FaultNext, IOError, SyncError, ObserverError, Crash, PowerLoss
<1>8. CASE UNCHANGED attemptVars
  BY <1>8
<1>. QED BY <1>1, <1>2, <1>3, <1>4, <1>5, <1>6, <1>7, <1>8 DEF AttemptNext

----------------------------------------------------------------------------
(* The launcher and the panel children: nothing is observed unreleased *)

Children ==
  /\ launcher # "none" => ~release
  /\ ctl = "panels" => release
  /\ child # NoChild => release
  /\ child # NoChild /\ cmd \in {"run", "failing", "succeeded"} => ctl = "panels"
  /\ child # NoChild /\ ctl = "panels" => child.panel = done + 1
  /\ entries # {} => observed
  /\ observed => release

\* Nothing is launched, started or observed before the release.
LEMMA ChildrenStep ==
  ASSUME AttemptTypeOK, Control, Children, [AttemptNext]_attemptVars
  PROVE  Children'
<1> USE DEF AttemptTypeOK, RecordsType, Control, Children, NoChild, Goto, Exit, Raise
<1>1. CASE LauncherNext
  BY <1>1 DEF LauncherNext, Launch, SeeAdmission, GiveUp, WriteRelease, LauncherDies
<1>2. CASE StartReset \/ ResetSteps
  BY <1>2 DEF StartReset, ResetForbidden, ResetSteps, RemoveTree, RemoveAdmission,
         RemoveReceipts
<1>3. CASE WorkerNext
  <2>1. CASE StartRun \/ RefuseRun \/ WriteEnvelope \/ Admit \/ SeeRelease \/ ReleaseTimeout
    BY <2>1 DEF StartRun, RefuseRun, LaunchStateExists, WriteEnvelope, Admit, SeeRelease,
           ReleaseTimeout
  <2>2. CASE StartChild \/ ReapChild \/ PanelsDone \/ JoinObserver \/ JoinTimeout
    BY <2>2 DEF StartChild, ReapChild, ReturnCodeOK, PanelsDone, JoinObserver, JoinTimeout,
           ObserverBusy
  <2>3. CASE Reconcile \/ CheckReceipt \/ ReplaceReceipt
    BY <2>3 DEF Reconcile, SyncFirst, AfterReceipt, CheckReceipt, ReplaceReceipt
  <2>4. CASE Score \/ Handle \/ Publish \/ WriteTerminal
    BY <2>4 DEF Score, Handle, Publish, PublicFree, Success, Failure, WriteTerminal,
           TerminalState, Crossed
  <2>. QED BY <1>3, <2>1, <2>2, <2>3, <2>4 DEF WorkerNext
<1>4. CASE ChildNext
  BY <1>4 DEF ChildNext, ChildObserve, ChildReport, ChildFail
<1>5. CASE ObserverNext
  BY <1>5 DEF ObserverNext, ObserverLook, SyncFirst, ObserverCheck, ObserverReplace
<1>6. CASE StartCloseout
  BY <1>6 DEF StartCloseout
<1>7. CASE FaultNext
  BY <1>7 DEF FaultNext, IOError, SyncError, TerminalState, Crossed, ObserverError, Crash,
         PowerLoss
<1>8. CASE UNCHANGED attemptVars
  BY <1>8
<1>. QED
  BY <1>1, <1>2, <1>3, <1>4, <1>5, <1>6, <1>7, <1>8 DEF AttemptNext

----------------------------------------------------------------------------
(* Types *)

\* The observations of an attempt can be counted.
LEMMA Counts ==
  /\ IsFiniteSet(Observations) /\ Cardinality(Observations) \in Nat
  /\ \A S \in SUBSET Observations : IsFiniteSet(S) /\ Cardinality(S) \in Nat
<1>1. IsFiniteSet(Panels)
  BY PanelCountAssumption, FS_Interval DEF Panels
<1>2. IsFiniteSet(Observations)
  BY <1>1, CellsAssumption, FS_Product DEF Observations
<1>. QED BY <1>2, FS_Subset, FS_CardinalityType

\* A child works on one of the panels.
LEMMA ChildOfPanel ==
  ASSUME AttemptTypeOK, child # NoChild
  PROVE  child \in [panel : Panels, state : {"running", "passed", "failed"}]
BY DEF AttemptTypeOK, RecordsType

\* Types, by kind: the flags,
LEMMA FlagsStep ==
  ASSUME FlagsType, [AttemptNext]_attemptVars
  PROVE  FlagsType'
<1> USE DEF FlagsType, LeaveStray, Goto, Exit, Raise
<1>1. CASE LauncherNext
  BY <1>1 DEF LauncherNext, Launch, SeeAdmission, GiveUp, WriteRelease, LauncherDies
<1>2. CASE StartReset \/ ResetSteps
  BY <1>2 DEF StartReset, ResetForbidden, ResetSteps, RemoveTree, RemoveAdmission,
         RemoveReceipts
<1>3. CASE WorkerNext
  <2>1. CASE StartRun \/ RefuseRun \/ WriteEnvelope \/ Admit \/ SeeRelease \/ ReleaseTimeout
    BY <2>1 DEF StartRun, RefuseRun, LaunchStateExists, WriteEnvelope, Admit, SeeRelease,
           ReleaseTimeout
  <2>2. CASE StartChild \/ ReapChild \/ PanelsDone \/ JoinObserver \/ JoinTimeout
    BY <2>2 DEF StartChild, ReapChild, ReturnCodeOK, PanelsDone, JoinObserver, JoinTimeout,
           ObserverBusy
  <2>3. CASE Reconcile \/ CheckReceipt \/ ReplaceReceipt
    BY <2>3 DEF Reconcile, SyncFirst, AfterReceipt, CheckReceipt, ReplaceReceipt
  <2>4. CASE Score \/ Handle \/ Publish \/ WriteTerminal
    BY <2>4 DEF Score, Handle, Publish, PublicFree, Success, Failure, WriteTerminal,
           TerminalState, Crossed
  <2>. QED BY <1>3, <2>1, <2>2, <2>3, <2>4 DEF WorkerNext
<1>4. CASE ChildNext
  BY <1>4 DEF ChildNext, ChildObserve, ChildReport, ChildFail
<1>5. CASE ObserverNext
  BY <1>5 DEF ObserverNext, ObserverLook, SyncFirst, ObserverCheck, ObserverReplace
<1>6. CASE StartCloseout
  BY <1>6 DEF StartCloseout
<1>7. CASE FaultNext
  BY <1>7 DEF FaultNext, IOError, SyncError, TerminalState, Crossed, ObserverError, Crash,
         PowerLoss
<1>8. CASE UNCHANGED attemptVars
  BY <1>8
<1>. QED
  BY <1>1, <1>2, <1>3, <1>4, <1>5, <1>6, <1>7, <1>8 DEF AttemptNext

\* the counters,
LEMMA CountersStep ==
  ASSUME AttemptTypeOK, CountersType, Children, [AttemptNext]_attemptVars
  PROVE  CountersType'
<1> USE PanelCountAssumption, MaxFaultsAssumption DEF CountersType, FaultsType, Fault, Goto,
      Exit, Raise
<1>1. CASE LauncherNext
  BY <1>1 DEF LauncherNext, Launch, SeeAdmission, GiveUp, WriteRelease, LauncherDies
<1>2. CASE StartReset \/ ResetSteps
  BY <1>2 DEF StartReset, ResetForbidden, ResetSteps, RemoveTree, RemoveAdmission,
         RemoveReceipts
<1>3. CASE WorkerNext
  <2>1. CASE StartRun \/ RefuseRun \/ WriteEnvelope \/ Admit \/ SeeRelease \/ ReleaseTimeout
    BY <2>1 DEF StartRun, RefuseRun, LaunchStateExists, WriteEnvelope, Admit, SeeRelease,
           ReleaseTimeout
  <2>2. CASE StartChild
    BY <2>2 DEF StartChild
  <2>3. CASE ReapChild
    <3>1. child.panel \in 1..PanelCount /\ child.panel = done + 1
      BY <2>3, ChildOfPanel DEF ReapChild, NoChild, Children, Panels
    <3>. QED BY <2>3, <3>1 DEF ReapChild
  <2>4. CASE PanelsDone \/ JoinObserver \/ JoinTimeout
    BY <2>4 DEF PanelsDone, JoinObserver, JoinTimeout
  <2>5. CASE Reconcile \/ CheckReceipt \/ ReplaceReceipt
    BY <2>5 DEF Reconcile, SyncFirst, AfterReceipt, CheckReceipt, ReplaceReceipt
  <2>6. CASE Score \/ Handle \/ Publish \/ WriteTerminal
    BY <2>6 DEF Score, Handle, Publish, PublicFree, Success, Failure, WriteTerminal,
           TerminalState, Crossed
  <2>. QED BY <1>3, <2>1, <2>2, <2>3, <2>4, <2>5, <2>6 DEF WorkerNext
<1>4. CASE ChildNext
  BY <1>4 DEF ChildNext, ChildObserve, ChildReport, ChildFail
<1>5. CASE ObserverNext
  BY <1>5 DEF ObserverNext, ObserverLook, SyncFirst, ObserverCheck, ObserverReplace
<1>6. CASE StartCloseout
  BY <1>6 DEF StartCloseout
<1>7. CASE FaultNext
  BY <1>7 DEF FaultNext, IOError, SyncError, TerminalState, Crossed, ObserverError, Crash,
         PowerLoss
<1>8. CASE UNCHANGED attemptVars
  BY <1>8
<1>. QED
  BY <1>1, <1>2, <1>3, <1>4, <1>5, <1>6, <1>7, <1>8 DEF AttemptNext

\* the observations and reports,
LEMMA EvidenceStep ==
  ASSUME AttemptTypeOK, EvidenceType, [AttemptNext]_attemptVars
  PROVE  EvidenceType'
<1> USE DEF EvidenceType, Observations, Goto, Exit, Raise
<1>1. CASE LauncherNext
  BY <1>1 DEF LauncherNext, Launch, SeeAdmission, GiveUp, WriteRelease, LauncherDies
<1>2. CASE StartReset \/ ResetSteps
  BY <1>2 DEF StartReset, ResetForbidden, ResetSteps, RemoveTree, RemoveAdmission,
         RemoveReceipts
<1>3. CASE WorkerNext
  <2>1. CASE StartRun \/ RefuseRun \/ WriteEnvelope \/ Admit \/ SeeRelease \/ ReleaseTimeout
    BY <2>1 DEF StartRun, RefuseRun, LaunchStateExists, WriteEnvelope, Admit, SeeRelease,
           ReleaseTimeout
  <2>2. CASE StartChild \/ ReapChild \/ PanelsDone \/ JoinObserver \/ JoinTimeout
    BY <2>2 DEF StartChild, ReapChild, ReturnCodeOK, PanelsDone, JoinObserver, JoinTimeout,
           ObserverBusy
  <2>3. CASE Reconcile \/ CheckReceipt \/ ReplaceReceipt
    BY <2>3 DEF Reconcile, SyncFirst, AfterReceipt, CheckReceipt, ReplaceReceipt
  <2>4. CASE Score \/ Handle \/ Publish \/ WriteTerminal
    BY <2>4 DEF Score, Handle, Publish, PublicFree, Success, Failure, WriteTerminal,
           TerminalState, Crossed
  <2>. QED BY <1>3, <2>1, <2>2, <2>3, <2>4 DEF WorkerNext
<1>4. CASE ChildNext
  <2>1. CASE ChildObserve
    BY <2>1, ChildOfPanel DEF ChildObserve, NoChild
  <2>2. CASE ChildReport
    BY <2>2, ChildOfPanel DEF ChildReport, NoChild
  <2>3. CASE ChildFail
    BY <2>3 DEF ChildFail
  <2>. QED BY <1>4, <2>1, <2>2, <2>3 DEF ChildNext
<1>5. CASE ObserverNext
  BY <1>5 DEF ObserverNext, ObserverLook, SyncFirst, ObserverCheck, ObserverReplace
<1>6. CASE StartCloseout
  BY <1>6 DEF StartCloseout
<1>7. CASE FaultNext
  BY <1>7 DEF FaultNext, IOError, SyncError, TerminalState, Crossed, ObserverError, Crash,
         PowerLoss
<1>8. CASE UNCHANGED attemptVars
  BY <1>8
<1>. QED
  BY <1>1, <1>2, <1>3, <1>4, <1>5, <1>6, <1>7, <1>8 DEF AttemptNext

\* the places of the processes,
LEMMA PlacesStep ==
  ASSUME PlacesType, [AttemptNext]_attemptVars
  PROVE  PlacesType'
<1> USE DEF PlacesType, Goto, Exit, Raise
<1>1. CASE LauncherNext
  BY <1>1 DEF LauncherNext, Launch, SeeAdmission, GiveUp, WriteRelease, LauncherDies
<1>2. CASE StartReset \/ ResetSteps
  BY <1>2 DEF StartReset, ResetForbidden, ResetSteps, RemoveTree, RemoveAdmission,
         RemoveReceipts
<1>3. CASE WorkerNext
  <2>1. CASE StartRun \/ RefuseRun \/ WriteEnvelope \/ Admit \/ SeeRelease \/ ReleaseTimeout
    BY <2>1 DEF StartRun, RefuseRun, LaunchStateExists, WriteEnvelope, Admit, SeeRelease,
           ReleaseTimeout
  <2>2. CASE StartChild \/ ReapChild \/ PanelsDone \/ JoinObserver \/ JoinTimeout
    BY <2>2 DEF StartChild, ReapChild, ReturnCodeOK, PanelsDone, JoinObserver, JoinTimeout,
           ObserverBusy
  <2>3. CASE Reconcile \/ CheckReceipt \/ ReplaceReceipt
    BY <2>3 DEF Reconcile, SyncFirst, AfterReceipt, CheckReceipt, ReplaceReceipt
  <2>4. CASE Score \/ Handle \/ Publish \/ WriteTerminal
    BY <2>4 DEF Score, Handle, Publish, PublicFree, Success, Failure, WriteTerminal,
           TerminalState, Crossed
  <2>. QED BY <1>3, <2>1, <2>2, <2>3, <2>4 DEF WorkerNext
<1>4. CASE ChildNext
  BY <1>4 DEF ChildNext, ChildObserve, ChildReport, ChildFail
<1>5. CASE ObserverNext
  BY <1>5 DEF ObserverNext, ObserverLook, SyncFirst, ObserverCheck, ObserverReplace
<1>6. CASE StartCloseout
  BY <1>6 DEF StartCloseout
<1>7. CASE FaultNext
  BY <1>7 DEF FaultNext, IOError, SyncError, TerminalState, Crossed, ObserverError, Crash,
         PowerLoss
<1>8. CASE UNCHANGED attemptVars
  BY <1>8
<1>. QED
  BY <1>1, <1>2, <1>3, <1>4, <1>5, <1>6, <1>7, <1>8 DEF AttemptNext

\* and the records: closeout, terminal state, child.
LEMMA RecordsStep ==
  ASSUME RecordsType, CountersType, EvidenceType, [AttemptNext]_attemptVars
  PROVE  RecordsType'
<1> USE DEF RecordsType, Goto, Exit, Raise
<1>1. CASE LauncherNext
  BY <1>1 DEF LauncherNext, Launch, SeeAdmission, GiveUp, WriteRelease, LauncherDies
<1>2. CASE StartReset \/ ResetSteps
  BY <1>2 DEF StartReset, ResetForbidden, ResetSteps, RemoveTree, RemoveAdmission,
         RemoveReceipts
<1>3. CASE WorkerNext
  <2>1. CASE StartRun \/ RefuseRun \/ WriteEnvelope \/ Admit \/ SeeRelease \/ ReleaseTimeout
    BY <2>1 DEF StartRun, RefuseRun, LaunchStateExists, WriteEnvelope, Admit, SeeRelease,
           ReleaseTimeout
  <2>2. CASE StartChild
    BY <2>2, PanelCountAssumption DEF StartChild, CountersType, Panels
  <2>3. CASE ReapChild \/ PanelsDone \/ JoinObserver \/ JoinTimeout
    BY <2>3 DEF ReapChild, PanelsDone, JoinObserver, JoinTimeout
  <2>4. CASE Reconcile \/ CheckReceipt \/ ReplaceReceipt
    BY <2>4 DEF Reconcile, SyncFirst, AfterReceipt, CheckReceipt, ReplaceReceipt
  <2>5. CASE Score \/ Handle
    BY <2>5 DEF Score, Handle
  <2>6. CASE Publish
    <3>1. Success \in [kind : {"success"}, crossed : BOOLEAN, count : Nat]
      BY Counts DEF Success
    <3>2. Failure \in [kind : {"failure"}, crossed : BOOLEAN, count : Nat]
      BY Counts DEF Failure, Crossed, EvidenceType
    <3>. QED BY <2>6, <3>1, <3>2 DEF Publish
  <2>7. CASE WriteTerminal
    <3>1. TerminalState \in [state : {"complete", "failed_closed"}, crossed : BOOLEAN]
      BY DEF TerminalState, Crossed
    <3>. QED BY <2>7, <3>1 DEF WriteTerminal
  <2>. QED BY <1>3, <2>1, <2>2, <2>3, <2>4, <2>5, <2>6, <2>7 DEF WorkerNext
<1>4. CASE ChildNext
  <2>1. CASE ChildObserve
    BY <2>1 DEF ChildObserve
  <2>2. CASE ChildReport
    BY <2>2 DEF ChildReport, NoChild
  <2>3. CASE ChildFail
    BY <2>3 DEF ChildFail, NoChild
  <2>. QED BY <1>4, <2>1, <2>2, <2>3 DEF ChildNext
<1>5. CASE ObserverNext
  BY <1>5 DEF ObserverNext, ObserverLook, SyncFirst, ObserverCheck, ObserverReplace
<1>6. CASE StartCloseout
  BY <1>6 DEF StartCloseout
<1>7. CASE FaultNext
  <2>1. CASE IOError \/ ObserverError
    BY <2>1 DEF IOError, ObserverError
  <2>2. CASE SyncError
    <3>1. TerminalState \in [state : {"complete", "failed_closed"}, crossed : BOOLEAN]
      BY DEF TerminalState, Crossed
    <3>. QED BY <2>2, <3>1 DEF SyncError
  <2>3. CASE Crash \/ PowerLoss
    BY <2>3 DEF Crash, PowerLoss
  <2>. QED BY <1>7, <2>1, <2>2, <2>3 DEF FaultNext
<1>8. CASE UNCHANGED attemptVars
  BY <1>8
<1>. QED
  BY <1>1, <1>2, <1>3, <1>4, <1>5, <1>6, <1>7, <1>8 DEF AttemptNext


----------------------------------------------------------------------------
(* The observer thread: who can outlive whom *)

Threads ==
  /\ observer # "gone" =>
       /\ cmd \in {"run", "failing", "succeeded"}
       /\ ctl \notin {"start", "envelopes", "waiting"}
       /\ ctl \notin {"panels", "joining"} => cmd = "failing"
       /\ public.kind # "success"
  /\ observer = "idle" => ctl \in {"panels", "joining"}
  /\ ctl \in {"start", "envelopes", "waiting", "panels", "joining"} => public = NoCloseout

\* An observer that outlives its join has a failing worker above it.
LEMMA ThreadsStep ==
  ASSUME AttemptTypeOK, Control, Children, Threads, [AttemptNext]_attemptVars
  PROVE  Threads'
<1> USE DEF Control, Children, Threads, NoCloseout, Goto, Exit, Raise
<1>1. CASE LauncherNext
  BY <1>1 DEF LauncherNext, Launch, SeeAdmission, GiveUp, WriteRelease, LauncherDies
<1>2. CASE StartReset \/ ResetSteps
  BY <1>2 DEF StartReset, ResetForbidden, ResetSteps, RemoveTree, RemoveAdmission,
         RemoveReceipts
<1>3. CASE WorkerNext
  <2>1. CASE StartRun \/ RefuseRun \/ WriteEnvelope \/ Admit \/ SeeRelease \/ ReleaseTimeout
    BY <2>1 DEF StartRun, RefuseRun, LaunchStateExists, WriteEnvelope, Admit, SeeRelease,
           ReleaseTimeout
  <2>2. CASE StartChild \/ ReapChild \/ PanelsDone \/ JoinObserver \/ JoinTimeout
    BY <2>2 DEF StartChild, ReapChild, ReturnCodeOK, PanelsDone, JoinObserver, JoinTimeout,
           ObserverBusy
  <2>3. CASE Reconcile \/ CheckReceipt \/ ReplaceReceipt
    BY <2>3 DEF Reconcile, SyncFirst, AfterReceipt, CheckReceipt, ReplaceReceipt
  <2>4. CASE Score \/ Handle \/ Publish \/ WriteTerminal
    BY <2>4 DEF Score, Handle, Publish, PublicFree, Success, Failure, WriteTerminal,
           TerminalState, Crossed
  <2>. QED BY <1>3, <2>1, <2>2, <2>3, <2>4 DEF WorkerNext
<1>4. CASE ChildNext
  BY <1>4 DEF ChildNext, ChildObserve, ChildReport, ChildFail
<1>5. CASE ObserverNext
  BY <1>5 DEF ObserverNext, ObserverLook, SyncFirst, ObserverCheck, ObserverReplace
<1>6. CASE StartCloseout
  BY <1>6 DEF StartCloseout
<1>7. CASE FaultNext
  BY <1>7 DEF FaultNext, IOError, SyncError, TerminalState, Crossed, ObserverError, Crash,
         PowerLoss
<1>8. CASE UNCHANGED attemptVars
  BY <1>8
<1>. QED
  BY <1>1, <1>2, <1>3, <1>4, <1>5, <1>6, <1>7, <1>8 DEF AttemptNext

----------------------------------------------------------------------------
(* The boundary receipt and the observation it stands for *)

Receipts ==
  /\ synced \subseteq entries
  /\ boundary # "none" \/ ctl \in {"check", "replace"} \/ observer \in {"check", "replace"}
       => synced # {}
  /\ ctl = "replace" /\ boundary # "none" => observer # "gone"
  /\ observer = "replace" /\ boundary # "none" => cmd = "failing"
  /\ ctl = "score" => boundary # "none"
  /\ cmd = "reset" => boundary = "none" /\ public = NoCloseout /\ terminal = NoTerminal

\* Whoever is about to write the receipt has synced an observation.
LEMMA ReceiptsStep ==
  ASSUME AttemptTypeOK, Control, Children, Threads, Receipts, [AttemptNext]_attemptVars
  PROVE  Receipts'
<1> USE DEF Control, Children, Threads, Receipts, NoCloseout, NoTerminal, Goto, Exit, Raise
<1>1. CASE LauncherNext
  BY <1>1 DEF LauncherNext, Launch, SeeAdmission, GiveUp, WriteRelease, LauncherDies
<1>2. CASE StartReset \/ ResetSteps
  BY <1>2 DEF StartReset, ResetForbidden, ResetSteps, RemoveTree, RemoveAdmission,
         RemoveReceipts
<1>3. CASE WorkerNext
  <2>1. CASE StartRun \/ RefuseRun \/ WriteEnvelope \/ Admit \/ SeeRelease \/ ReleaseTimeout
    BY <2>1 DEF StartRun, RefuseRun, LaunchStateExists, WriteEnvelope, Admit, SeeRelease,
           ReleaseTimeout
  <2>2. CASE StartChild \/ ReapChild \/ PanelsDone \/ JoinObserver \/ JoinTimeout
    BY <2>2 DEF StartChild, ReapChild, ReturnCodeOK, PanelsDone, JoinObserver, JoinTimeout,
           ObserverBusy
  <2>3. CASE Reconcile \/ CheckReceipt \/ ReplaceReceipt
    BY <2>3 DEF Reconcile, SyncFirst, AfterReceipt, CheckReceipt, ReplaceReceipt
  <2>4. CASE Score \/ Handle \/ Publish \/ WriteTerminal
    BY <2>4 DEF Score, Handle, Publish, PublicFree, Success, Failure, WriteTerminal,
           TerminalState, Crossed
  <2>. QED BY <1>3, <2>1, <2>2, <2>3, <2>4 DEF WorkerNext
<1>4. CASE ChildNext
  BY <1>4 DEF ChildNext, ChildObserve, ChildReport, ChildFail
<1>5. CASE ObserverNext
  BY <1>5 DEF ObserverNext, ObserverLook, SyncFirst, ObserverCheck, ObserverReplace
<1>6. CASE StartCloseout
  BY <1>6 DEF StartCloseout
<1>7. CASE FaultNext
  BY <1>7 DEF FaultNext, IOError, SyncError, TerminalState, Crossed, ObserverError, Crash,
         PowerLoss
<1>8. CASE UNCHANGED attemptVars
  BY <1>8
<1>. QED
  BY <1>1, <1>2, <1>3, <1>4, <1>5, <1>6, <1>7, <1>8 DEF AttemptNext

----------------------------------------------------------------------------
(* The public closeout and the private terminal state *)

Verdict ==
  /\ public.kind = "success" \/ (ctl = "publish" /\ cmd = "run")
       => outcomes = Panels /\ boundary # "none"
  /\ public.kind = "success" => public.crossed
  /\ ctl = "terminal" /\ cmd \in {"run", "succeeded"} => public.kind = "success"
  /\ ctl = "terminal" /\ cmd \in {"failing", "closeout"}
       => public.kind = "failure" /\ public.crossed = (boundary # "none")
  /\ ctl \in {"publish", "terminal"} /\ cmd # "run" /\ boundary = "none"
       => observer \notin {"idle", "check", "replace"}
  /\ TerminalAgrees

\* A running child is a child.
LEMMA RunningIsChild == child.state = "running" => child # NoChild
BY DEF NoChild

\* What the terminal state says is what the public closeout says.
LEMMA TerminalStateAgrees ==
  ASSUME AttemptTypeOK, Control, Verdict, ctl = "terminal"
  PROVE  /\ TerminalState # NoTerminal
         /\ public.kind = (IF TerminalState.state = "complete" THEN "success" ELSE "failure")
         /\ TerminalState.crossed = public.crossed
<1>1. public.crossed \in BOOLEAN
  BY DEF AttemptTypeOK, RecordsType
<1>2. CASE cmd \in {"run", "succeeded"}
  BY <1>1, <1>2 DEF Verdict, TerminalState, NoTerminal
<1>3. CASE cmd \in {"failing", "closeout"}
  BY <1>3 DEF Verdict, TerminalState, NoTerminal, Crossed
<1>. QED BY <1>2, <1>3 DEF AttemptTypeOK, PlacesType, Control

\* The verdict keeps its evidence, and the terminal state follows it.
LEMMA VerdictStep ==
  ASSUME AttemptTypeOK, Control, Children, Threads, Receipts, Verdict, [AttemptNext]_attemptVars
  PROVE  Verdict'
<1> USE DEF Control, Children, Threads, Receipts, Verdict, TerminalAgrees, NoCloseout,
      NoTerminal, Goto, Exit, Raise
<1>1. CASE LauncherNext
  BY <1>1 DEF LauncherNext, Launch, SeeAdmission, GiveUp, WriteRelease, LauncherDies
<1>2. CASE StartReset \/ ResetSteps
  BY <1>2 DEF StartReset, ResetForbidden, ResetSteps, RemoveTree, RemoveAdmission,
         RemoveReceipts
<1>3. CASE WorkerNext
  <2>1. CASE StartRun \/ RefuseRun \/ WriteEnvelope \/ Admit \/ SeeRelease \/ ReleaseTimeout
    BY <2>1 DEF StartRun, RefuseRun, LaunchStateExists, WriteEnvelope, Admit, SeeRelease,
           ReleaseTimeout
  <2>2. CASE StartChild \/ ReapChild \/ PanelsDone \/ JoinObserver \/ JoinTimeout
    BY <2>2 DEF StartChild, ReapChild, ReturnCodeOK, PanelsDone, JoinObserver, JoinTimeout,
           ObserverBusy
  <2>3. CASE Reconcile \/ CheckReceipt \/ ReplaceReceipt
    BY <2>3 DEF Reconcile, SyncFirst, AfterReceipt, CheckReceipt, ReplaceReceipt
  <2>4. CASE Score
    BY <2>4 DEF Score
  <2>5. CASE Handle
    BY <2>5 DEF Handle
  <2>6. CASE Publish
    BY <2>6 DEF Publish, PublicFree, Success, Failure, Crossed
  <2>7. CASE WriteTerminal
    BY <2>7, TerminalStateAgrees DEF WriteTerminal
  <2>. QED BY <1>3, <2>1, <2>2, <2>3, <2>4, <2>5, <2>6, <2>7 DEF WorkerNext
<1>4. CASE ChildNext
  <2>1. CASE ChildObserve
    BY <2>1 DEF ChildObserve
  <2>2. CASE ChildReport
    <3>1. child.panel \in Panels /\ outcomes \subseteq Panels
      <4>1. child # NoChild
        BY <2>2, RunningIsChild DEF ChildReport
      <4>2. child \in [panel : Panels, state : {"running", "passed", "failed"}]
        BY <4>1, ChildOfPanel
      <4>. QED BY <4>2 DEF AttemptTypeOK, EvidenceType
    <3>2. outcomes = Panels => outcomes' = Panels
      BY <2>2, <3>1 DEF ChildReport
    <3>3. UNCHANGED <<public, terminal, boundary, cmd, ctl, observer>>
      BY <2>2 DEF ChildReport
    <3>. QED BY <3>2, <3>3
  <2>3. CASE ChildFail
    BY <2>3 DEF ChildFail
  <2>. QED BY <1>4, <2>1, <2>2, <2>3 DEF ChildNext
<1>5. CASE ObserverNext
  BY <1>5 DEF ObserverNext, ObserverLook, SyncFirst, ObserverCheck, ObserverReplace
<1>6. CASE StartCloseout
  BY <1>6 DEF StartCloseout
<1>7. CASE FaultNext
  <2>1. CASE IOError
    BY <2>1 DEF IOError
  <2>2. CASE SyncError
    BY <2>2, TerminalStateAgrees DEF SyncError
  <2>3. CASE ObserverError
    BY <2>3 DEF ObserverError
  <2>4. CASE Crash
    BY <2>4 DEF Crash
  <2>5. CASE PowerLoss
    BY <2>5 DEF PowerLoss
  <2>. QED BY <1>7, <2>1, <2>2, <2>3, <2>4, <2>5 DEF FaultNext
<1>8. CASE UNCHANGED attemptVars
  BY <1>8
<1>. QED
  BY <1>1, <1>2, <1>3, <1>4, <1>5, <1>6, <1>7, <1>8 DEF AttemptNext
----------------------------------------------------------------------------
(* The inductive invariant and what follows from it *)

AttemptInv ==
  AttemptTypeOK /\ Control /\ Children /\ Threads /\ Receipts /\ Verdict

\* The invariant holds before anything is launched,
LEMMA InvInit == AttemptInit => AttemptInv
<1> SUFFICES ASSUME AttemptInit PROVE AttemptInv
  OBVIOUS
<1> USE PanelCountAssumption, MaxFaultsAssumption DEF AttemptInit, NoChild, NoCloseout,
      NoTerminal
<1>1. FlagsType /\ EvidenceType /\ PlacesType
  BY DEF FlagsType, EvidenceType, PlacesType
<1>2. CountersType /\ RecordsType
  BY DEF CountersType, FaultsType, RecordsType
<1>3. Control /\ Children /\ Threads
  BY DEF Control, Children, Threads
<1>4. Receipts /\ Verdict
  BY DEF Receipts, Verdict, TerminalAgrees
<1>. QED BY <1>1, <1>2, <1>3, <1>4 DEF AttemptInv, AttemptTypeOK

\* and every step keeps it.
LEMMA InvStep == AttemptInv /\ [AttemptNext]_attemptVars => AttemptInv'
<1> SUFFICES ASSUME AttemptInv, [AttemptNext]_attemptVars PROVE AttemptInv'
  OBVIOUS
<1>1. FlagsType /\ CountersType /\ EvidenceType /\ PlacesType /\ RecordsType
  BY DEF AttemptInv, AttemptTypeOK
<1>2. AttemptTypeOK /\ Control /\ Children /\ Threads /\ Receipts /\ Verdict
  BY DEF AttemptInv
<1>3. FlagsType' /\ CountersType' /\ EvidenceType' /\ PlacesType' /\ RecordsType'
  BY <1>1, <1>2, FlagsStep, CountersStep, EvidenceStep, PlacesStep, RecordsStep
<1>4. Control' /\ Children' /\ Threads'
  BY <1>2, ControlStep, ChildrenStep, ThreadsStep
<1>5. Receipts' /\ Verdict'
  BY <1>2, ReceiptsStep, VerdictStep
<1>. QED BY <1>3, <1>4, <1>5 DEF AttemptInv, AttemptTypeOK

\* The invariant holds of every attempt.
THEOREM AttemptInvariant == AttemptSpec => []AttemptInv
BY InvInit, InvStep, PTL DEF AttemptSpec

\* The state of an attempt, as its commands and its files make it up, stays
\* within its types.
THEOREM AttemptTypeCorrect == AttemptSpec => []AttemptTypeOK
<1>1. AttemptInv => AttemptTypeOK
  BY DEF AttemptInv
<1>. QED BY <1>1, AttemptInvariant, PTL

\* However the worker, its observer and the operator's closeout interleave, and
\* whatever a power loss takes, a boundary receipt has an observation on disk.
THEOREM ReceiptsHaveEvidence == AttemptSpec => []ReceiptHasEvidence
<1>1. AttemptInv => ReceiptHasEvidence
  BY DEF AttemptInv, Receipts, ReceiptHasEvidence
<1>. QED BY <1>1, AttemptInvariant, PTL

\* A success is published on the reports of all the panels and on a receipt,
\* for any number of panels.
THEOREM SuccessesAreComplete == AttemptSpec => []SuccessIsComplete
<1>1. AttemptInv => SuccessIsComplete
  BY DEF AttemptInv, Verdict, SuccessIsComplete
<1>. QED BY <1>1, AttemptInvariant, PTL

\* The private terminal state agrees with the public closeout, through every
\* crash between the two and every later closeout.
THEOREM TerminalsAgree == AttemptSpec => []TerminalAgrees
<1>1. AttemptInv => TerminalAgrees
  BY DEF AttemptInv, Verdict
<1>. QED BY <1>1, AttemptInvariant, PTL

\* Only the observer that outlived its join, or the handler racing with it,
\* changes a receipt that exists.
LEMMA ReceiptOnceStep ==
  ASSUME Control, Children, Threads, Receipts, [AttemptNext]_attemptVars
  PROVE  boundary # "none" /\ boundary' # boundary => cmd = "failing" /\ observer # "gone"
<1> USE DEF Control, Children, Threads, Receipts, Goto, Exit, Raise
<1>1. CASE LauncherNext
  BY <1>1 DEF LauncherNext, Launch, SeeAdmission, GiveUp, WriteRelease, LauncherDies
<1>2. CASE StartReset \/ ResetSteps
  BY <1>2 DEF StartReset, ResetForbidden, ResetSteps, RemoveTree, RemoveAdmission,
         RemoveReceipts
<1>3. CASE WorkerNext
  <2>1. CASE StartRun \/ RefuseRun \/ WriteEnvelope \/ Admit \/ SeeRelease \/ ReleaseTimeout
    BY <2>1 DEF StartRun, RefuseRun, LaunchStateExists, WriteEnvelope, Admit, SeeRelease,
           ReleaseTimeout
  <2>2. CASE StartChild \/ ReapChild \/ PanelsDone \/ JoinObserver \/ JoinTimeout
    BY <2>2 DEF StartChild, ReapChild, ReturnCodeOK, PanelsDone, JoinObserver, JoinTimeout,
           ObserverBusy
  <2>3. CASE Reconcile \/ CheckReceipt \/ ReplaceReceipt
    BY <2>3 DEF Reconcile, SyncFirst, AfterReceipt, CheckReceipt, ReplaceReceipt
  <2>4. CASE Score \/ Handle \/ Publish \/ WriteTerminal
    BY <2>4 DEF Score, Handle, Publish, PublicFree, Success, Failure, WriteTerminal,
           TerminalState, Crossed
  <2>. QED BY <1>3, <2>1, <2>2, <2>3, <2>4 DEF WorkerNext
<1>4. CASE ChildNext
  BY <1>4 DEF ChildNext, ChildObserve, ChildReport, ChildFail
<1>5. CASE ObserverNext
  BY <1>5 DEF ObserverNext, ObserverLook, SyncFirst, ObserverCheck, ObserverReplace
<1>6. CASE StartCloseout
  BY <1>6 DEF StartCloseout
<1>7. CASE FaultNext
  BY <1>7 DEF FaultNext, IOError, SyncError, TerminalState, Crossed, ObserverError, Crash,
         PowerLoss
<1>8. CASE UNCHANGED attemptVars
  BY <1>8
<1>. QED
  BY <1>1, <1>2, <1>3, <1>4, <1>5, <1>6, <1>7, <1>8 DEF AttemptNext

\* The receipt is written once, except under an observer that outlived its join.
THEOREM ReceiptsWrittenOnce == AttemptSpec => ReceiptWrittenOnce
<1>1. AttemptInv /\ [AttemptNext]_attemptVars
        => [boundary # "none" /\ boundary' # boundary
              => cmd = "failing" /\ observer # "gone"]_attemptVars
  BY ReceiptOnceStep DEF AttemptInv
<1>. QED BY <1>1, AttemptInvariant, PTL DEF AttemptSpec, ReceiptWrittenOnce

----------------------------------------------------------------------------
(* The attempt implements the one-shot experiment *)

\* A step that changes neither the release, nor what was observed, nor the
\* closeout, and starts no worker once released, ends the shot or nothing.
LEMMA ShotQuiet ==
  ASSUME UNCHANGED <<release, observed, public>>, WorkerLives' => WorkerLives \/ ~release
  PROVE  [Shot!Next]_<<Phase, public.kind>>
<1>1. CASE ~release
  BY <1>1 DEF Phase
<1>2. CASE release /\ WorkerLives /\ ~WorkerLives'
  BY <1>2 DEF Shot!Next, Shot!End, Phase
<1>3. CASE release /\ (WorkerLives <=> WorkerLives')
  BY <1>3 DEF Phase
<1>. QED BY <1>1, <1>2, <1>3

\* Every step of the attempt is one of the one-shot experiment, or none.
LEMMA ShotStep ==
  ASSUME AttemptInv, [AttemptNext]_attemptVars
  PROVE  [Shot!Next]_<<Phase, public.kind>>
<1> DEFINE Quiet == /\ UNCHANGED <<release, observed, public>>
                    /\ WorkerLives' => WorkerLives \/ ~release
<1>0. Quiet => [Shot!Next]_<<Phase, public.kind>>
  BY ShotQuiet
<1>inv. Control /\ Children /\ Threads /\ Receipts /\ FlagsType
  BY DEF AttemptInv, AttemptTypeOK
<1>1. CASE WriteRelease
  <2>1. ~release /\ release' /\ ~observed /\ UNCHANGED <<cmd, observed, public>>
    BY <1>1, <1>inv DEF WriteRelease, Children, FlagsType
  <2>2. Phase = "idle" /\ Phase' \in {"released", "ended"}
    BY <2>1 DEF Phase, WorkerLives
  <2>. QED BY <2>1, <2>2 DEF Shot!Next, Shot!Release
<1>2. CASE ChildObserve
  <2>1. release /\ UNCHANGED <<release, cmd, public>> /\ observed' /\ child # NoChild
    BY <1>2, <1>inv DEF ChildObserve, Children, NoChild
  <2>2. CASE observed \/ ~WorkerLives
    BY <2>1, <2>2 DEF Phase, WorkerLives
  <2>3. CASE ~observed /\ WorkerLives
    <3>1. public = NoCloseout
      BY <1>inv, <2>1, <2>3 DEF Children, Threads, WorkerLives
    <3>. QED BY <2>1, <2>3, <3>1 DEF Shot!Next, Shot!Observe, Phase, WorkerLives, NoCloseout
  <2>. QED BY <2>2, <2>3
<1>3. CASE Publish
  <2>1. UNCHANGED <<release, observed>>
    BY <1>3 DEF Publish, Goto, Raise, Exit
  <2>2. CASE PublicFree
    <3>1. public.kind = "none" /\ ctl = "publish" /\ cmd' = cmd
      BY <1>3, <2>2 DEF Publish, PublicFree, NoCloseout, Goto
    <3>2. public'.kind = IF cmd = "run" THEN "success" ELSE "failure"
      BY <1>3, <2>2 DEF Publish, Success, Failure
    <3>3. cmd = "run" => Phase = "observed"
      BY <1>inv, <3>1 DEF AttemptInv, Verdict, Receipts, Children, Phase, WorkerLives
    <3>4. Phase' = Phase
      BY <2>1, <3>1 DEF Phase, WorkerLives
    <3>. QED BY <3>1, <3>2, <3>3, <3>4 DEF Shot!Next, Shot!Publish
  <2>3. CASE ~PublicFree
    <3>1. Quiet
      BY <1>3, <2>1, <2>3, <1>inv DEF Publish, Raise, Goto, Exit, WorkerLives, Control
    <3>. QED BY <1>0, <3>1
  <2>. QED BY <2>2, <2>3
<1>4. CASE Launch \/ SeeAdmission \/ GiveUp \/ LauncherDies \/ StartReset \/ ResetSteps
  <2>1. Quiet
    BY <1>4, <1>inv DEF Launch, SeeAdmission, GiveUp, LauncherDies, StartReset, ResetForbidden,
           ResetSteps, RemoveTree, RemoveAdmission, RemoveReceipts, Goto, Exit, WorkerLives
  <2>. QED BY <1>0, <2>1
<1>5. CASE WorkerNext /\ ~Publish
  <2>1. CASE StartRun \/ RefuseRun \/ WriteEnvelope \/ Admit \/ SeeRelease \/ ReleaseTimeout
    BY <2>1, <1>inv, <1>0 DEF StartRun, RefuseRun, WriteEnvelope, Admit, SeeRelease, ReleaseTimeout,
           Goto, Exit, WorkerLives, Control
  <2>2. CASE StartChild \/ ReapChild \/ PanelsDone \/ JoinObserver \/ JoinTimeout
    BY <2>2, <1>inv, <1>0 DEF StartChild, ReapChild, PanelsDone, JoinObserver, JoinTimeout,
           Goto, WorkerLives, Control
  <2>3. CASE Reconcile \/ CheckReceipt \/ ReplaceReceipt
    BY <2>3, <1>inv, <1>0 DEF Reconcile, AfterReceipt, CheckReceipt, ReplaceReceipt, Goto,
           Raise, Exit, WorkerLives, Control
  <2>4. CASE Score \/ Handle \/ WriteTerminal
    BY <2>4, <1>inv, <1>0 DEF Score, Handle, WriteTerminal, Goto, Raise, Exit, WorkerLives,
          Control
  <2>. QED BY <1>5, <2>1, <2>2, <2>3, <2>4 DEF WorkerNext
<1>6. CASE ChildReport \/ ChildFail \/ ObserverNext \/ StartCloseout
  BY <1>6, <1>inv, <1>0 DEF ChildReport, ChildFail, ObserverNext, ObserverLook, ObserverCheck,
         ObserverReplace, StartCloseout, Goto, WorkerLives, Control
<1>7. CASE FaultNext
  BY <1>7, <1>inv, <1>0 DEF FaultNext, IOError, SyncError, ObserverError, Crash, PowerLoss,
        Goto,
         Raise, Exit, WorkerLives, Control
<1>8. CASE UNCHANGED attemptVars
  BY <1>8, <1>0 DEF WorkerLives
<1>. QED
  BY <1>1, <1>2, <1>3, <1>4, <1>5, <1>6, <1>7, <1>8
  DEF AttemptNext, LauncherNext, ChildNext, WorkerNext

\* Whatever crashes, the attempt is a one-shot experiment: released once,
\* observed by the worker of that release only, over when it stops, with one
\* verdict that never changes.
THEOREM AttemptImplementsOneShot == AttemptSpec => AttemptIsOneShot
<1>1. AttemptInit => Shot!Init
  BY DEF AttemptInit, Shot!Init, Phase, NoCloseout
<1>. QED
  BY <1>1, ShotStep, AttemptInvariant, PTL DEF AttemptSpec, AttemptIsOneShot, Shot!Spec

----------------------------------------------------------------------------
(* Without orphans, a published failure covers the evidence *)

Covered ==
  /\ child # NoChild => ctl = "panels"
  /\ ctl = "publish" /\ cmd # "run" /\ boundary = "none" => entries = {}
  /\ public.kind = "failure" =>
       /\ public.crossed = (boundary # "none")
       /\ boundary = "none" => entries = {} /\ observer \notin {"idle", "check", "replace"}
       /\ Cardinality(entries) <= public.count

\* What is left of the evidence is not more than there was.
LEMMA FewerEntries ==
  ASSUME AttemptTypeOK
  PROVE  /\ Cardinality(entries) \in Nat
         /\ \A lost : /\ Cardinality(entries \ lost) \in Nat
                      /\ Cardinality(entries \ lost) <= Cardinality(entries)
<1>1. entries \in SUBSET Observations
  BY DEF AttemptTypeOK, EvidenceType
<1>2. IsFiniteSet(entries) /\ Cardinality(entries) \in Nat
  BY <1>1, Counts
<1>. QED BY <1>2, FS_Subset, FS_CardinalityType

\* No step takes the cover from a published failure.
LEMMA CoveredStep ==
  ASSUME ~Orphans, AttemptInv, Covered, [AttemptNext]_attemptVars
  PROVE  Covered'
<1> USE DEF Covered, Control, Children, Threads, Receipts, NoChild, NoCloseout, Goto, Exit,
      Raise
<1>inv. Control /\ Children /\ Threads /\ Receipts
  BY DEF AttemptInv
<1>1. CASE LauncherNext
  BY <1>inv, <1>1 DEF LauncherNext, Launch, SeeAdmission, GiveUp, WriteRelease, LauncherDies
<1>2. CASE StartReset \/ ResetSteps
  BY <1>inv, <1>2 DEF StartReset, ResetForbidden, ResetSteps, RemoveTree, RemoveAdmission,
         RemoveReceipts
<1>3. CASE WorkerNext
  <2>1. CASE StartRun \/ RefuseRun \/ WriteEnvelope \/ Admit \/ SeeRelease \/ ReleaseTimeout
    BY <1>inv, <2>1 DEF StartRun, RefuseRun, LaunchStateExists, WriteEnvelope, Admit, SeeRelease,
           ReleaseTimeout
  <2>2. CASE StartChild \/ ReapChild \/ PanelsDone \/ JoinObserver \/ JoinTimeout
    BY <1>inv, <2>2 DEF StartChild, ReapChild, ReturnCodeOK, PanelsDone, JoinObserver,
          JoinTimeout,
           ObserverBusy
  <2>3. CASE Reconcile \/ CheckReceipt \/ ReplaceReceipt
    BY <1>inv, <2>3 DEF Reconcile, SyncFirst, AfterReceipt, CheckReceipt, ReplaceReceipt
  <2>4. CASE Score \/ Handle \/ WriteTerminal
    BY <1>inv, <2>4 DEF Score, Handle, WriteTerminal
  <2>5. CASE Publish
    <3>1. Cardinality(entries) \in Nat /\ Cardinality({}) = 0
      BY FewerEntries, FS_EmptySet DEF AttemptInv
    <3>2. CASE PublicFree /\ cmd # "run"
      <4>1. public' = Failure /\ ctl' = "terminal" /\ ctl = "publish"
        BY <1>inv, <2>5, <3>2 DEF Publish
      <4>2. Failure.count >= Cardinality(entries)
        BY <3>1, <3>2, <4>1 DEF Failure, Crossed
      <4>. QED
        BY <1>inv, <2>5, <3>2, <4>1, <4>2 DEF Publish, Failure, Crossed
    <3>3. CASE PublicFree /\ cmd = "run"
      BY <1>inv, <2>5, <3>3 DEF Publish, Success
    <3>4. CASE ~PublicFree
      BY <1>inv, <2>5, <3>4 DEF Publish
    <3>. QED BY <3>2, <3>3, <3>4
  <2>. QED BY <1>3, <2>1, <2>2, <2>3, <2>4, <2>5 DEF WorkerNext
<1>4. CASE ChildNext
  BY <1>inv, <1>4 DEF ChildNext, ChildObserve, ChildReport, ChildFail
<1>5. CASE ObserverNext
  BY <1>inv, <1>5 DEF ObserverNext, ObserverLook, SyncFirst, ObserverCheck, ObserverReplace
<1>6. CASE StartCloseout
  BY <1>inv, <1>6 DEF StartCloseout
<1>7. CASE FaultNext
  <2>1. CASE IOError \/ SyncError \/ ObserverError \/ Crash
    BY <1>inv, <2>1 DEF IOError, SyncError, ObserverError, Crash
  <2>2. CASE PowerLoss
    <3>1. PICK lost \in SUBSET (entries \ synced) : entries' = entries \ lost
      BY <1>inv, <2>2 DEF PowerLoss
    <3>2. Cardinality(entries') \in Nat /\ Cardinality(entries') <= Cardinality(entries)
      BY <3>1, FewerEntries DEF AttemptInv
    <3>3. public.count \in Nat /\ Cardinality(entries) \in Nat
      BY FewerEntries DEF AttemptInv, AttemptTypeOK, RecordsType
    <3>4. public.kind = "failure" => Cardinality(entries') <= public'.count
      BY <1>inv, <2>2, <3>2, <3>3 DEF PowerLoss
    <3>. QED BY <2>2, <3>1, <3>4 DEF PowerLoss
  <2>. QED BY <1>7, <2>1, <2>2 DEF FaultNext
<1>8. CASE UNCHANGED attemptVars
  BY <1>inv, <1>8
<1>. QED
  BY <1>1, <1>2, <1>3, <1>4, <1>5, <1>6, <1>7, <1>8 DEF AttemptNext

\* When no panel child outlives a killed worker, a published failure counts
\* every observation on disk and names the boundary as the receipt has it.
THEOREM CloseoutsCoverEvidence ==
  ASSUME ~Orphans
  PROVE  AttemptSpec => []CloseoutCoversEvidence
<1>1. AttemptInit => Covered
  BY DEF AttemptInit, Covered, NoChild, NoCloseout
<1>2. AttemptInv /\ Covered /\ [AttemptNext]_attemptVars => Covered'
  BY CoveredStep
<1>3. Covered => CloseoutCoversEvidence
  BY DEF Covered, CloseoutCoversEvidence
<1>. QED BY <1>1, <1>2, <1>3, AttemptInvariant, PTL DEF AttemptSpec
=============================================================================
