----------------------------- MODULE B4Attempt -----------------------------
(***************************************************************************)
(* The one formal attempt of the B4 replication: the shell launcher, the   *)
(* worker (run_formal_replication) with its boundary observer thread and   *)
(* its panel children, and the two recovery commands of the operator       *)
(* (reset-preboundary and closeout-interrupted), over the files they       *)
(* leave on disk.  A command is a process: cmd says which one runs and ctl *)
(* where it is; at most one runs at a time, which is what the worker's PID *)
(* identity and the operator's stopped-worker confirmation are for.        *)
(***************************************************************************)
EXTENDS B4Protocol

CONSTANTS Cells,     \* the observations of a panel, in the order of their names
          Orphans    \* whether a panel child may outlive a killed worker

ASSUME CellsAssumption == IsFiniteSet(Cells) /\ Cells \subseteq Nat
ASSUME OrphansAssumption == Orphans \in BOOLEAN

VARIABLES
  started,    \* the launcher's receipts: PID identity, worker started, exit code
  admission,  \* b4_private_runner_admission.json exists
  release,    \* b4_private_launch_release.json exists
  runsMade,   \* the runs directory has its private subdirectories
  envelopes,  \* how many panel envelopes are written
  stray,      \* a temporary file is left among the envelopes
  entries,    \* observations in the cells and terminal_support directories
  synced,     \* those of them that survive a power loss
  outcomes,   \* panels with an outcome report
  boundary,   \* the attempt-boundary receipt: none, observed or recovered
  public,     \* the public closeout
  terminal,   \* b4_private_terminal_state.json
  launcher, cmd, ctl, done, observer, child,
  observed    \* history: some observation was written once

launchVars == <<started, admission, release, launcher>>
runsVars == <<runsMade, envelopes, stray>>
evidenceVars == <<entries, synced, outcomes, observed>>
closeVars == <<public, terminal>>
workVars == <<cmd, ctl, done, observer, child>>
attemptVars == <<faults, launchVars, runsVars, evidenceVars, boundary, closeVars, workVars>>

Observations == Panels \X Cells

NoChild == [panel |-> 0, state |-> "none"]
NoCloseout == [kind |-> "none", crossed |-> FALSE, count |-> 0]
NoTerminal == [state |-> "none", crossed |-> FALSE]

AttemptInit ==
  /\ faults = 0
  /\ started = FALSE /\ admission = FALSE /\ release = FALSE
  /\ runsMade = FALSE /\ envelopes = 0 /\ stray = FALSE
  /\ entries = {} /\ synced = {} /\ outcomes = {} /\ observed = FALSE
  /\ boundary = "none" /\ public = NoCloseout /\ terminal = NoTerminal
  /\ launcher = "none" /\ cmd = "none" /\ ctl = "off" /\ done = 0
  /\ observer = "gone" /\ child = NoChild

----------------------------------------------------------------------------
(* The process that runs moves on, or is left by an exception. *)

Goto(c, l) == cmd' = c /\ ctl' = l /\ UNCHANGED <<done, observer, child>>

\* The process ends; the observer is a daemon thread and ends with it.
Exit ==
  /\ cmd' = "none" /\ ctl' = "off" /\ done' = 0 /\ observer' = "gone"
  /\ UNCHANGED child

\* Killed while it writes an envelope, the worker may leave the temporary file.
LeaveStray == stray' \in {stray} \cup (IF ctl = "envelopes" THEN {TRUE} ELSE {})

\* Inside the try block of the worker an exception leads to its handler.
Raise == IF cmd = "run" THEN Goto("failing", "handler") ELSE Exit

----------------------------------------------------------------------------
(* The launcher: product_bakeoff_b4_linux_longrun.sh --launch *)

Launch ==
  /\ launcher = "none" /\ ctl = "off"
  /\ ~started /\ ~admission /\ ~release /\ boundary = "none" /\ public = NoCloseout
  /\ started' = TRUE /\ launcher' = "gate"
  /\ Goto("run", "start")
  /\ UNCHANGED <<faults, admission, release, runsVars, evidenceVars, boundary, closeVars>>

\* wait_for_gate saw the admission receipt.
SeeAdmission ==
  /\ launcher = "gate" /\ admission
  /\ launcher' = "release"
  /\ UNCHANGED <<faults, started, admission, release, runsVars, evidenceVars, boundary,
                 closeVars, workVars>>

\* The gate timed out, or found the worker dead: the worker's process group is
\* killed.
GiveUp ==
  /\ launcher = "gate"
  /\ launcher' = "reset"
  /\ IF cmd = "run"
     THEN Exit /\ LeaveStray
     ELSE UNCHANGED <<workVars, stray>>
  /\ UNCHANGED <<faults, started, admission, release, runsMade, envelopes, evidenceVars,
                 boundary, closeVars>>

\* write_json_exclusive of the release; the worker may have gone since.
WriteRelease ==
  /\ launcher = "release"
  /\ release' = TRUE /\ launcher' = "none"
  /\ UNCHANGED <<faults, started, admission, runsVars, evidenceVars, boundary, closeVars,
                 workVars>>

\* The launcher itself is interrupted; its worker is detached and goes on.
LauncherDies ==
  /\ launcher # "none"
  /\ launcher' = "none"
  /\ UNCHANGED <<faults, started, admission, release, runsVars, evidenceVars, boundary,
                 closeVars, workVars>>

LauncherNext == Launch \/ SeeAdmission \/ GiveUp \/ WriteRelease \/ LauncherDies

----------------------------------------------------------------------------
(* reset_preboundary_launch_state, then the shell's own receipts *)

\* Broken variant: the reset looks at the directory only, not at what exists.
ResetForbiddenByStray == stray

ResetForbidden ==
  \/ release \/ boundary # "none" \/ terminal # NoTerminal \/ public # NoCloseout
  \/ entries # {} \/ outcomes # {}
  \/ stray                       \* "envelope entry is unsafe"

StartReset ==
  /\ ctl = "off" /\ ~ResetForbidden
  /\ runsMade \/ admission \/ started
  /\ launcher' = IF launcher = "reset" THEN "none" ELSE launcher
  /\ Goto("reset", "tree")
  /\ UNCHANGED <<faults, started, admission, release, runsVars, evidenceVars, boundary,
                 closeVars>>

RemoveTree ==
  /\ ctl = "tree"
  /\ runsMade' = FALSE /\ envelopes' = 0
  /\ entries' = {} /\ synced' = {} /\ outcomes' = {} /\ boundary' = "none"
  /\ Goto(cmd, "admission")
  /\ UNCHANGED <<faults, launchVars, stray, observed, closeVars>>

RemoveAdmission ==
  /\ ctl = "admission"
  /\ admission' = FALSE
  /\ Goto(cmd, "receipts")
  /\ UNCHANGED <<faults, started, release, launcher, runsVars, evidenceVars, boundary,
                 closeVars>>

RemoveReceipts ==
  /\ ctl = "receipts"
  /\ started' = FALSE
  /\ Exit
  /\ UNCHANGED <<faults, admission, release, launcher, runsVars, evidenceVars, boundary,
                 closeVars>>

ResetSteps == RemoveTree \/ RemoveAdmission \/ RemoveReceipts

----------------------------------------------------------------------------
(* run_formal_replication up to the release *)

LaunchStateExists == runsMade \/ public # NoCloseout \/ release \/ admission \/ boundary # "none"

StartRun ==
  /\ ctl = "start" /\ ~LaunchStateExists
  /\ runsMade' = TRUE
  /\ Goto("run", "envelopes")
  /\ UNCHANGED <<faults, launchVars, envelopes, stray, evidenceVars, boundary, closeVars>>

\* One of the validations at the start fails: of the launch state, or of what
\* the attempt needs from outside (module B4Control).
RefuseRun ==
  /\ ctl = "start"
  /\ Exit
  /\ UNCHANGED <<faults, launchVars, runsVars, evidenceVars, boundary, closeVars>>

\* Broken variant: one envelope too many.
WriteEnvelopeTooMany ==
  /\ ctl = "envelopes"
  /\ envelopes' = envelopes + 1
  /\ UNCHANGED <<faults, launchVars, runsMade, stray, evidenceVars, boundary, closeVars,
                 workVars>>

WriteEnvelope ==
  /\ ctl = "envelopes" /\ envelopes < PanelCount
  /\ envelopes' = envelopes + 1
  /\ UNCHANGED <<faults, launchVars, runsMade, stray, evidenceVars, boundary, closeVars,
                 workVars>>

\* The admission receipt, and the check that nothing was observed before it.
Admit ==
  /\ ctl = "envelopes" /\ envelopes = PanelCount
  /\ admission' = TRUE
  /\ IF entries = {} THEN Goto("run", "waiting") ELSE Exit
  /\ UNCHANGED <<faults, started, release, launcher, runsVars, evidenceVars, boundary,
                 closeVars>>

\* _wait_for_launch_release returns and the observer thread is started.
SeeRelease ==
  /\ ctl = "waiting" /\ release
  /\ ctl' = "panels" /\ observer' = "idle"
  /\ UNCHANGED <<faults, launchVars, runsVars, evidenceVars, boundary, closeVars, cmd, done,
                 child>>

\* ... or raises after 600 seconds, outside the try block.
ReleaseTimeout ==
  /\ ctl = "waiting" /\ ~release
  /\ Exit
  /\ UNCHANGED <<faults, launchVars, runsVars, evidenceVars, boundary, closeVars>>

----------------------------------------------------------------------------
(* The panels, one child process after the other *)

StartChild ==
  /\ ctl = "panels" /\ child = NoChild /\ done < PanelCount
  /\ child' = [panel |-> done + 1, state |-> "running"]
  /\ UNCHANGED <<faults, launchVars, runsVars, evidenceVars, boundary, closeVars, cmd, ctl,
                 done, observer>>

\* _persist_cell or _persist_terminal: written, and not synced.
ChildObserve ==
  /\ child.state = "running"
  /\ \E c \in Cells :
       /\ <<child.panel, c>> \notin entries
       /\ entries' = entries \cup {<<child.panel, c>>}
  /\ observed' = TRUE
  /\ UNCHANGED <<faults, launchVars, runsVars, synced, outcomes, boundary, closeVars, workVars>>

\* The matrix is complete: the outcome report is written and the child exits.
ChildReport ==
  /\ child.state = "running"
  /\ \A c \in Cells : <<child.panel, c>> \in entries
  /\ outcomes' = outcomes \cup {child.panel}
  /\ child' = IF ctl = "panels" THEN [child EXCEPT !.state = "passed"] ELSE NoChild
  /\ UNCHANGED <<faults, launchVars, runsVars, entries, synced, observed, boundary, closeVars,
                 cmd, ctl, done, observer>>

\* A gate fails, or the child cannot write: it exits nonzero without a report.
ChildFail ==
  /\ child.state = "running"
  /\ child' = IF ctl = "panels" THEN [child EXCEPT !.state = "failed"] ELSE NoChild
  /\ UNCHANGED <<faults, launchVars, runsVars, evidenceVars, boundary, closeVars, cmd, ctl,
                 done, observer>>

ChildNext == ChildObserve \/ ChildReport \/ ChildFail

ReturnCodeOK == child.state = "passed"

\* subprocess.run returned: count the panel, or raise "exited nonzero".
ReapChild ==
  /\ ctl = "panels" /\ child.state \in {"passed", "failed"}
  /\ child' = NoChild
  /\ IF ReturnCodeOK
     THEN done' = done + 1 /\ UNCHANGED <<cmd, ctl>>
     ELSE cmd' = "failing" /\ ctl' = "joining" /\ UNCHANGED done
  /\ UNCHANGED <<faults, launchVars, runsVars, evidenceVars, boundary, closeVars, observer>>

PanelsDone ==
  /\ ctl = "panels" /\ child = NoChild /\ done = PanelCount
  /\ Goto(cmd, "joining")
  /\ UNCHANGED <<faults, launchVars, runsVars, evidenceVars, boundary, closeVars>>

----------------------------------------------------------------------------
(* attempt_boundary_observer: the thread, and the worker that joins it *)

\* The first observation in the order of the panels and of the file names.
IsFirst(e) ==
  \A f \in entries : e[1] < f[1] \/ (e[1] = f[1] /\ e[2] <= f[2])

\* Broken variant: the observation is read, not synced.
SyncNothing == entries # {} /\ UNCHANGED synced

SyncFirst == \E e \in entries : IsFirst(e) /\ synced' = synced \cup {e}

\* A round of the loop: the receipt exists, or there is an observation to sync.
ObserverLook ==
  /\ observer = "idle"
  /\ \/ boundary # "none" /\ observer' = "done" /\ UNCHANGED synced
     \/ boundary = "none" /\ SyncFirst /\ observer' = "check"
  /\ UNCHANGED <<faults, launchVars, runsVars, entries, outcomes, observed, boundary,
                 closeVars, cmd, ctl, done, child>>

\* _write_json_exclusive in two steps: the last look at the target ...
ObserverCheck ==
  /\ observer = "check"
  /\ observer' = IF boundary = "none" THEN "replace" ELSE "error"
  /\ UNCHANGED <<faults, launchVars, runsVars, evidenceVars, boundary, closeVars, cmd, ctl,
                 done, child>>

\* ... and os.replace, which overwrites whatever is there by then.
ObserverReplace ==
  /\ observer = "replace"
  /\ boundary' = "observed" /\ observer' = "done"
  /\ UNCHANGED <<faults, launchVars, runsVars, evidenceVars, closeVars, cmd, ctl, done, child>>

ObserverNext == ObserverLook \/ ObserverCheck \/ ObserverReplace

ObserverBusy == observer \in {"check", "replace"}

\* Broken variant: the thread is told to stop and not joined.
JoinObserverNot ==
  /\ ctl = "joining"
  /\ IF observer = "error" \/ cmd = "failing"
     THEN cmd' = "failing" /\ ctl' = "handler"
     ELSE ctl' = "reconcile" /\ UNCHANGED cmd
  /\ UNCHANGED <<faults, launchVars, runsVars, evidenceVars, boundary, closeVars, done,
                 observer, child>>

\* stop.set and a join that succeeds; an error of the thread is raised here.
JoinObserver ==
  /\ ctl = "joining" /\ ~ObserverBusy
  /\ observer' = "gone"
  /\ IF observer = "error" \/ cmd = "failing"
     THEN cmd' = "failing" /\ ctl' = "handler"
     ELSE ctl' = "reconcile" /\ UNCHANGED cmd
  /\ UNCHANGED <<faults, launchVars, runsVars, evidenceVars, boundary, closeVars, done, child>>

\* "observer did not stop": ten seconds pass and the thread goes on.
JoinTimeout ==
  /\ ctl = "joining" /\ ObserverBusy
  /\ Goto("failing", "handler")
  /\ UNCHANGED <<faults, launchVars, runsVars, evidenceVars, boundary, closeVars>>

----------------------------------------------------------------------------
(* reconcile_attempt_boundary, for the worker, its handler and the closeout *)

AfterReceipt == Goto(cmd, IF cmd = "run" THEN "score" ELSE "publish")

\* Broken variant: only the worker recovers a missing receipt.
ReconcileWorkerOnly ==
  /\ ctl = "reconcile"
  /\ \/ (boundary # "none" \/ cmd # "run") /\ AfterReceipt /\ UNCHANGED synced
     \/ boundary = "none" /\ cmd = "run" /\ SyncFirst /\ Goto(cmd, "check")
  /\ UNCHANGED <<faults, launchVars, runsVars, entries, outcomes, observed, boundary, closeVars>>

Reconcile ==
  /\ ctl = "reconcile"
  /\ \/ boundary # "none" /\ AfterReceipt /\ UNCHANGED synced
     \/ boundary = "none" /\ entries = {} /\ UNCHANGED synced
        /\ IF cmd = "run" THEN Raise ELSE AfterReceipt
     \/ boundary = "none" /\ SyncFirst /\ Goto(cmd, "check")
  /\ UNCHANGED <<faults, launchVars, runsVars, entries, outcomes, observed, boundary, closeVars>>

\* "appeared concurrently", or the way is free ...
CheckReceipt ==
  /\ ctl = "check"
  /\ IF boundary = "none" THEN Goto(cmd, "replace") ELSE Raise
  /\ UNCHANGED <<faults, launchVars, runsVars, evidenceVars, boundary, closeVars>>

\* ... for os.replace.
ReplaceReceipt ==
  /\ ctl = "replace"
  /\ boundary' = "recovered"
  /\ AfterReceipt
  /\ UNCHANGED <<faults, launchVars, runsVars, evidenceVars, closeVars>>

----------------------------------------------------------------------------
(* Score, publish, record the terminal state *)

\* assemble_run_result accepts the reports of all the panels only.
Score ==
  /\ ctl = "score"
  /\ IF outcomes = Panels THEN Goto(cmd, "publish") ELSE Raise
  /\ UNCHANGED <<faults, launchVars, runsVars, evidenceVars, boundary, closeVars>>

\* The handler keeps a success that is public already.
Handle ==
  /\ ctl = "handler"
  /\ IF public.kind = "success"
     THEN Goto("succeeded", "terminal")
     ELSE Goto("failing", "reconcile")
  /\ UNCHANGED <<faults, launchVars, runsVars, evidenceVars, boundary, closeVars>>

Crossed == boundary # "none"

\* Broken variant: progress is estimated from the completed panels.
FailureByPanels == [kind |-> "failure", crossed |-> Crossed,
                    count |-> IF Crossed THEN Cardinality(outcomes \X Cells) ELSE 0]

Failure == [kind |-> "failure", crossed |-> Crossed,
            count |-> IF Crossed THEN Cardinality(entries) ELSE 0]
Success == [kind |-> "success", crossed |-> TRUE, count |-> Cardinality(Observations)]

\* Broken variant: the public closeout may be replaced.
PublicAlwaysFree == TRUE

PublicFree == public = NoCloseout

\* _write_public_closeout: exclusive.
Publish ==
  /\ ctl = "publish"
  /\ IF PublicFree
     THEN public' = (IF cmd = "run" THEN Success ELSE Failure) /\ Goto(cmd, "terminal")
     ELSE Raise /\ UNCHANGED public
  /\ UNCHANGED <<faults, launchVars, runsVars, evidenceVars, boundary, terminal>>

\* Broken variant: a failure always counts as one after the boundary.
TerminalStateCrossed ==
  [state |-> IF cmd \in {"run", "succeeded"} THEN "complete" ELSE "failed_closed",
   crossed |-> TRUE]

TerminalState ==
  IF cmd \in {"run", "succeeded"} THEN [state |-> "complete", crossed |-> TRUE]
  ELSE [state |-> "failed_closed", crossed |-> Crossed]

\* _write_terminal_state: an equal file is kept, another one is an error.
WriteTerminal ==
  /\ ctl = "terminal"
  /\ IF terminal \in {NoTerminal, TerminalState}
     THEN terminal' = TerminalState /\ Exit
     ELSE Raise /\ UNCHANGED terminal
  /\ UNCHANGED <<faults, launchVars, runsVars, evidenceVars, boundary, public>>

\* Broken variant: only an attempt past its boundary is closed out.
StartCloseoutCrossed ==
  /\ ctl = "off" /\ boundary # "none"
  /\ Goto("closeout", "reconcile")
  /\ UNCHANGED <<faults, launchVars, runsVars, evidenceVars, boundary, closeVars>>

\* closeout_interrupted_failure, once the worker is confirmed to have stopped.
StartCloseout ==
  /\ ctl = "off"
  /\ Goto("closeout", "reconcile")
  /\ UNCHANGED <<faults, launchVars, runsVars, evidenceVars, boundary, closeVars>>

WorkerNext ==
  \/ StartRun \/ RefuseRun \/ WriteEnvelope \/ Admit \/ SeeRelease \/ ReleaseTimeout
  \/ StartChild \/ ReapChild \/ PanelsDone \/ JoinObserver \/ JoinTimeout
  \/ Reconcile \/ CheckReceipt \/ ReplaceReceipt \/ Score \/ Handle \/ Publish
  \/ WriteTerminal

----------------------------------------------------------------------------
(* Faults *)

\* An OSError in a step of the running command, before the step's own write; a
\* write that succeeds and then fails to sync its directory is the error of the
\* next step, or of a SyncError after the last.
IOError ==
  /\ Fault
  /\ ctl # "off" /\ child = NoChild
  /\ IF ctl = "panels" THEN Goto("failing", "joining")
     ELSE IF ctl \in {"start", "envelopes", "waiting"} THEN Exit
     ELSE IF ctl = "joining" THEN Goto("failing", ctl)
     ELSE Raise
  /\ UNCHANGED <<launchVars, runsVars, evidenceVars, boundary, closeVars>>

\* The terminal state is written and its directory cannot be synced.
SyncError ==
  /\ Fault
  /\ ctl = "terminal" /\ terminal = NoTerminal
  /\ terminal' = TerminalState
  /\ Raise
  /\ UNCHANGED <<launchVars, runsVars, evidenceVars, boundary, public>>

\* An exception in the thread is kept for the worker's join.
ObserverError ==
  /\ Fault
  /\ observer \in {"idle", "check", "replace"}
  /\ observer' = "error"
  /\ UNCHANGED <<launchVars, runsVars, evidenceVars, boundary, closeVars, cmd, ctl, done, child>>

\* The running command is killed; a child dies with it, or lives on.
Crash ==
  /\ Fault
  /\ ctl # "off"
  /\ cmd' = "none" /\ ctl' = "off" /\ done' = 0 /\ observer' = "gone"
  /\ child' \in {NoChild} \cup (IF Orphans /\ child.state = "running" THEN {child} ELSE {})
  /\ LeaveStray
  /\ UNCHANGED <<launchVars, runsMade, envelopes, evidenceVars, boundary, closeVars>>

\* The machine stops: observations that nobody synced may be gone.
PowerLoss ==
  /\ Fault
  /\ cmd' = "none" /\ ctl' = "off" /\ done' = 0 /\ observer' = "gone"
  /\ child' = NoChild /\ launcher' = "none"
  /\ \E lost \in SUBSET (entries \ synced) : entries' = entries \ lost
  /\ UNCHANGED <<started, admission, release, runsVars, synced, outcomes, observed, boundary,
                 closeVars>>

FaultNext == IOError \/ SyncError \/ ObserverError \/ Crash \/ PowerLoss

AttemptNext ==
  LauncherNext \/ StartReset \/ ResetSteps \/ WorkerNext \/ ChildNext \/ ObserverNext
    \/ StartCloseout \/ FaultNext

\* The processes that run go on, and the operator closes out a released
\* attempt whose worker has stopped.  Nothing says that a launch, a reset or a
\* release ever happens.
ClosesOut == release /\ public = NoCloseout /\ StartCloseout

AttemptFairness ==
  /\ WF_attemptVars(WorkerNext)
  /\ WF_attemptVars(ResetSteps)
  /\ WF_attemptVars(ChildNext)
  /\ WF_attemptVars(ObserverNext)
  /\ WF_attemptVars(ClosesOut)

AttemptSpec == AttemptInit /\ [][AttemptNext]_attemptVars /\ AttemptFairness
----------------------------------------------------------------------------
(* Properties *)

FlagsType ==
  /\ started \in BOOLEAN /\ admission \in BOOLEAN /\ release \in BOOLEAN
  /\ runsMade \in BOOLEAN /\ stray \in BOOLEAN /\ observed \in BOOLEAN
CountersType == FaultsType /\ envelopes \in 0..PanelCount /\ done \in 0..PanelCount
EvidenceType ==
  entries \subseteq Observations /\ synced \subseteq entries /\ outcomes \subseteq Panels
PlacesType ==
  /\ boundary \in {"none", "observed", "recovered"}
  /\ launcher \in {"none", "gate", "reset", "release"}
  /\ cmd \in {"none", "run", "failing", "succeeded", "closeout", "reset"}
  /\ ctl \in {"off", "start", "envelopes", "waiting", "panels", "joining", "reconcile",
              "check", "replace", "score", "handler", "publish", "terminal",
              "tree", "admission", "receipts"}
  /\ observer \in {"gone", "idle", "check", "replace", "done", "error"}
RecordsType ==
  /\ public \in [kind : {"none", "success", "failure"}, crossed : BOOLEAN, count : Nat]
  /\ terminal \in [state : {"none", "complete", "failed_closed"}, crossed : BOOLEAN]
  /\ child \in {NoChild} \cup [panel : Panels, state : {"running", "passed", "failed"}]

AttemptTypeOK == FlagsType /\ CountersType /\ EvidenceType /\ PlacesType /\ RecordsType

\* A boundary receipt always has its observation: the one it was written for is
\* on disk, whatever was lost in a power cut after it.
ReceiptHasEvidence == boundary # "none" => synced # {}

\* The receipt is written once, although two threads write it with a check and
\* a replace: only an observer that outlived its ten-second join can have its
\* receipt replaced, or replace one.
ReceiptWrittenOnce ==
  [][boundary # "none" /\ boundary' # boundary => cmd = "failing" /\ observer # "gone"]_attemptVars

\* A published success stands on a report of every panel and on a receipt.
SuccessIsComplete ==
  public.kind = "success" => outcomes = Panels /\ boundary # "none"

\* A published failure tells the whole treatment: it names the boundary as
\* crossed exactly when there is a receipt, and no observation is on disk that
\* it does not count.
CloseoutCoversEvidence ==
  public.kind = "failure" =>
    /\ public.crossed = (boundary # "none")
    /\ Cardinality(entries) <= public.count

\* The private terminal state never says anything else than the public closeout.
TerminalAgrees ==
  terminal # NoTerminal =>
    /\ public.kind = (IF terminal.state = "complete" THEN "success" ELSE "failure")
    /\ terminal.crossed = public.crossed

\* The attempt is a one-shot experiment (module OneShot): released once,
\* observed by one worker only, over when that worker stops, with one verdict.
WorkerLives == cmd \in {"run", "failing", "succeeded"}
Phase ==
  IF ~release THEN "idle"
  ELSE IF ~WorkerLives THEN "ended"
  ELSE IF observed THEN "observed"
  ELSE "released"
Shot == INSTANCE OneShot WITH phase <- Phase, verdict <- public.kind
AttemptIsOneShot == Shot!Spec

\* A released attempt is closed in public in the end, by its worker or by the
\* operator, whichever faults strike.
ReleasedCloses == release ~> public # NoCloseout

\* An observation gets its boundary receipt in the end, unless a power loss
\* takes the observation back.
EvidenceReceipted == entries # {} ~> (boundary # "none" \/ entries = {})
=============================================================================
