-------------------------- MODULE B4Holdout_proofs --------------------------
(***************************************************************************)
(* What holds of the authoring and the freeze of the holdout, for any      *)
(* number of panels and slots and for any catalog.                         *)
(***************************************************************************)
EXTENDS B4Holdout, SequenceTheorems, TLAPS

----------------------------------------------------------------------------
(* Types *)

\* A selection is never taken for a file that is not there.
LEMMA SelectionIsSomething == \A x \in Selections : x # Nothing
<1> SUFFICES ASSUME NEW x \in Selections, x = Nothing PROVE FALSE
  OBVIOUS
<1>1. DOMAIN x = Slots
  BY DEF Selections
<1>2. DOMAIN Nothing = {}
  BY DEF Nothing
<1>. QED BY <1>1, <1>2, SlotsAssumption

WorkSteps == {"plan", "author", "cleanup"} \cup Derived

\* A panel is in work in the steps of prepare_holdout, all are done in the freeze.
Phases ==
  /\ step \in WorkSteps => author.done < PanelCount /\ frozen = 0
  /\ step = "freeze" => author.done = PanelCount /\ frozen < FreezeOutputs
  /\ frozen > 0 => author.done = PanelCount
  /\ step \in {"author", "cleanup"} \cup Derived => plans[panel] = author.cursor
  /\ step \in {"cleanup"} \cup Derived => locks[panel] = checkpoints[panel]

\* While prepare_holdout works, the panel in work is one of the panels.
LEMMA PanelInWork ==
  ASSUME HoldoutTypeOK, author.done < PanelCount
  PROVE  panel \in Panels /\ panel > author.done /\ author.done \in Nat
BY PanelCountAssumption DEF HoldoutTypeOK, panel, Panels

\* Every step keeps the files and the cursors within their types.
LEMMA HoldoutTypeStep ==
  ASSUME HoldoutTypeOK, Phases, [HoldoutNext]_<<holdoutVars, faults>>
  PROVE  HoldoutTypeOK'
<1> USE PanelCountAssumption DEF Stop
<1>1. CASE StartPrepare
  BY <1>1 DEF StartPrepare, HoldoutTypeOK
<1>2. CASE WritePlan
  <2>1. panel \in Panels
    BY <1>2, PanelInWork DEF WritePlan, Phases, WorkSteps
  <2>. QED BY <1>2, <2>1 DEF WritePlan, HoldoutTypeOK
<1>3. CASE RejectCandidate
  <2>1. panel \in Panels
    BY <1>3, PanelInWork DEF RejectCandidate, Phases, WorkSteps
  <2>2. PICK s \in Slots : 
          clones' \in {clones, [clones EXCEPT ![panel] = @ \cup {<<s, Candidate(s)>>}]}
    BY <1>3 DEF RejectCandidate
  <2>3. Candidate(s) \in Nat
    BY <2>2 DEF Candidate, HoldoutTypeOK, Selections
  <2>. QED BY <1>3, <2>1, <2>2, <2>3 DEF RejectCandidate, HoldoutTypeOK
<1>4. CASE AcceptCandidate
  <2>1. panel \in Panels
    BY <1>4, PanelInWork DEF AcceptCandidate, Phases, WorkSteps
  <2>2. PICK s \in Slots : 
          /\ clones' = [clones EXCEPT ![panel] = @ \cup {<<s, Candidate(s)>>}]
          /\ checkpoints' = [checkpoints EXCEPT ![panel][s] = Candidate(s)]
    BY <1>4 DEF AcceptCandidate
  <2>3. Candidate(s) \in Nat
    BY <2>2 DEF Candidate, HoldoutTypeOK, Selections
  <2>4. checkpoints' \in [Panels -> Selections]
    BY <2>1, <2>2, <2>3 DEF HoldoutTypeOK, Selections
  <2>. QED BY <1>4, <2>1, <2>2, <2>3, <2>4 DEF AcceptCandidate, HoldoutTypeOK
<1>5. CASE NoneAdmitted
  BY <1>5 DEF NoneAdmitted, HoldoutTypeOK
<1>6. CASE WriteManifests
  <2>1. panel \in Panels
    BY <1>6, PanelInWork DEF WriteManifests, Phases, WorkSteps
  <2>. QED BY <1>6, <2>1 DEF WriteManifests, HoldoutTypeOK, Derived
<1>7. CASE WriteDerived
  <2>1. panel \in Panels /\ locks[panel] \in Selections
    BY <1>7, PanelInWork DEF WriteDerived, Phases, WorkSteps, HoldoutTypeOK
  <2>2. derived' \in [Panels -> [Derived -> {Nothing} \cup Selections]]
    BY <1>7, <2>1 DEF WriteDerived, HoldoutTypeOK
  <2>. QED BY <1>7, <2>2 DEF WriteDerived, HoldoutTypeOK, After, Derived
<1>8. CASE RemoveClone
  <2>1. panel \in Panels
    BY <1>8, PanelInWork DEF RemoveClone, Phases, WorkSteps
  <2>. QED BY <1>8, <2>1 DEF RemoveClone, HoldoutTypeOK
<1>9. CASE CommitPanel
  <2>1. panel \in Panels /\ locks[panel] \in Selections
    BY <1>9, PanelInWork DEF CommitPanel, Phases, WorkSteps, HoldoutTypeOK
  <2>2. author' \in [done : 0..PanelCount, cursor : Selections]
    BY <1>9, <2>1 DEF CommitPanel, Advance, Panels
  <2>. QED BY <1>9, <2>2 DEF CommitPanel, HoldoutTypeOK
<1>10. CASE StartFreeze
  BY <1>10 DEF StartFreeze, HoldoutTypeOK
<1>11. CASE WriteFreezeOutput
  BY <1>11 DEF WriteFreezeOutput, HoldoutTypeOK, Phases, FreezeOutputs
<1>12. CASE CommandFails
  BY <1>12 DEF CommandFails, HoldoutTypeOK
<1>13. CASE UNCHANGED <<holdoutVars, faults>>
  BY <1>13 DEF holdoutVars, HoldoutTypeOK
<1>. QED
  BY <1>1, <1>2, <1>3, <1>4, <1>5, <1>6, <1>7, <1>8, <1>9, <1>10, <1>11, <1>12, <1>13
  DEF HoldoutNext

----------------------------------------------------------------------------
(* What a repeated command finds on disk *)

Complete == \A s \in Slots : Authored(s)

\* The panels completed: they replay, each beyond all those before it.
Completed ==
  /\ Replays
  /\ \A p, q \in 1..author.done : p < q => \A s \in Slots : locks[p][s] < locks[q][s]

\* The panel in work: its files agree with its checkpoints, and those with the
\* cursors.
InWork ==
  author.done < PanelCount =>
    /\ plans[panel] \in {Nothing, author.cursor}
    /\ \A s \in Slots : Authored(s) => CheckpointValid(s)
    /\ locks[panel] \in {Nothing, checkpoints[panel]}
    /\ \A f \in Derived : derived[panel][f] \in {Nothing, checkpoints[panel]}
    /\ locks[panel] # Nothing \/ (\E f \in Derived : derived[panel][f] # Nothing) => Complete
    /\ step \in {"binding", "cleanup"} => derived[panel]["query"] = checkpoints[panel]
    /\ step = "cleanup" => derived[panel]["binding"] = checkpoints[panel]

\* The panels to come: nothing is written.
ToCome ==
  \A p \in Panels : p > author.done + 1 =>
    /\ plans[p] = Nothing /\ locks[p] = Nothing
    /\ checkpoints[p] = NoSelection
    /\ \A f \in Derived : derived[p][f] = Nothing

HoldoutInv == HoldoutTypeOK /\ Phases /\ Completed /\ InWork /\ ToCome

\* A step that writes for the panel in work only leaves the others as they are.
LEMMA OthersKept ==
  ASSUME HoldoutTypeOK, Completed, ToCome, UNCHANGED author,
         \A p \in Panels : p # panel =>
           /\ plans'[p] = plans[p] /\ locks'[p] = locks[p] /\ clones'[p] = clones[p]
           /\ checkpoints'[p] = checkpoints[p] /\ derived'[p] = derived[p]
  PROVE  Completed' /\ ToCome'
<1>1. author.done \in 0..PanelCount
  BY DEF HoldoutTypeOK
<1>2. \A p \in 1..author.done : p \in Panels /\ p # panel
  BY <1>1, PanelCountAssumption DEF Panels, panel
<1>3. \A p \in 1..author.done : 
         /\ plans'[p] = plans[p] /\ locks'[p] = locks[p] /\ clones'[p] = clones[p]
         /\ derived'[p] = derived[p]
  BY <1>2
<1>4. \A p \in 0..author.done : CursorAfter(p)' = CursorAfter(p)
  BY <1>1, <1>3 DEF CursorAfter
<1>5. \A p \in 1..author.done : p - 1 \in 0..author.done
  BY <1>1
<1>6. Replays'
  BY <1>1, <1>3, <1>4, <1>5 DEF Completed, Replays, SourcesPresent
<1>7. Completed'
  BY <1>3, <1>6 DEF Completed
<1>8. ToCome'
  BY <1>1 DEF ToCome, panel, Panels
<1>. QED BY <1>7, <1>8

\* The phases follow each other.
LEMMA PhasesStep ==
  ASSUME HoldoutInv, [HoldoutNext]_<<holdoutVars, faults>>
  PROVE  Phases'
<1> USE PanelCountAssumption DEF Stop, Phases, WorkSteps, Derived
<1>0. HoldoutTypeOK /\ Phases /\ frozen \in Nat /\ author.done \in 0..PanelCount
  BY DEF HoldoutInv, HoldoutTypeOK, FreezeOutputs
<1>w. step \in WorkSteps => panel \in Panels
  BY <1>0, PanelInWork
<1>1. CASE StartPrepare
  BY <1>0, <1>1 DEF StartPrepare
<1>2. CASE WritePlan
  BY <1>0, <1>w, <1>2 DEF WritePlan, HoldoutTypeOK, panel
<1>3. CASE RejectCandidate \/ NoneAdmitted
  BY <1>0, <1>3 DEF RejectCandidate, NoneAdmitted, panel
<1>4. CASE AcceptCandidate
  BY <1>0, <1>4 DEF AcceptCandidate, panel
<1>5. CASE WriteManifests
  BY <1>0, <1>w, <1>5 DEF WriteManifests, HoldoutTypeOK, panel
<1>6. CASE WriteDerived
  BY <1>0, <1>6 DEF WriteDerived, After, panel
<1>7. CASE RemoveClone
  BY <1>0, <1>7 DEF RemoveClone, panel
<1>8. CASE CommitPanel
  BY <1>0, <1>8 DEF CommitPanel, panel
<1>9. CASE StartFreeze
  BY <1>0, <1>9 DEF StartFreeze, FreezeAdmitted, FreezeOutputs
<1>10. CASE WriteFreezeOutput
  BY <1>0, <1>10 DEF WriteFreezeOutput, FreezeOutputs
<1>11. CASE CommandFails
  BY <1>0, <1>11 DEF CommandFails
<1>12. CASE UNCHANGED <<holdoutVars, faults>>
  BY <1>0, <1>12 DEF holdoutVars, panel
<1>. QED
  BY <1>1, <1>2, <1>3, <1>4, <1>5, <1>6, <1>7, <1>8, <1>9, <1>10, <1>11, <1>12
  DEF HoldoutNext

\* A panel whose plan is written, or found again.
LEMMA PlanWritten ==
  ASSUME HoldoutInv, WritePlan
  PROVE  Completed' /\ ToCome' /\ InWork'
<1>1. panel \in Panels /\ panel' = panel
  BY PanelInWork DEF HoldoutInv, WritePlan, Phases, WorkSteps, panel
<1>2. plans' \in {plans, [plans EXCEPT ![panel] = author.cursor]}
  BY DEF WritePlan
<1>3. Completed' /\ ToCome'
  BY <1>1, <1>2, OthersKept DEF HoldoutInv, HoldoutTypeOK, WritePlan
<1>4. plans'[panel] \in {Nothing, author.cursor}
  BY <1>1, <1>2 DEF HoldoutInv, HoldoutTypeOK, InWork, WritePlan, Phases, WorkSteps
<1>5. step' \notin {"binding", "cleanup"}
  BY DEF WritePlan, Stop
<1>6. InWork'
  BY <1>1, <1>4, <1>5 DEF HoldoutInv, InWork, WritePlan, Complete, Authored, CheckpointValid
<1>. QED BY <1>3, <1>6

\* A candidate rejected leaves at most its clone.
LEMMA CandidateRejected ==
  ASSUME HoldoutInv, RejectCandidate
  PROVE  Completed' /\ ToCome' /\ InWork'
<1>1. panel \in Panels /\ panel' = panel
  BY PanelInWork DEF HoldoutInv, RejectCandidate, Phases, WorkSteps, panel
<1>2. PICK s \in Slots : 
        clones' \in {clones, [clones EXCEPT ![panel] = @ \cup {<<s, Candidate(s)>>}]}
  BY DEF RejectCandidate
<1>3. Completed' /\ ToCome'
  BY <1>1, <1>2, OthersKept DEF HoldoutInv, HoldoutTypeOK, RejectCandidate
<1>4. clones[panel] \subseteq clones'[panel]
  BY <1>1, <1>2 DEF HoldoutInv, HoldoutTypeOK
<1>5. \A t \in Slots : CheckpointValid(t) => CheckpointValid(t)'
  BY <1>1, <1>4 DEF RejectCandidate, CheckpointValid
<1>6. InWork'
  BY <1>1, <1>5 DEF HoldoutInv, InWork, RejectCandidate, Complete, Authored
<1>. QED BY <1>3, <1>6

\* A candidate accepted is a valid checkpoint of a slot that had none.
LEMMA CandidateAccepted ==
  ASSUME HoldoutInv, AcceptCandidate
  PROVE  Completed' /\ ToCome' /\ InWork'
<1>1. panel \in Panels /\ panel' = panel
  BY PanelInWork DEF HoldoutInv, AcceptCandidate, Phases, WorkSteps, panel
<1>2. PICK s \in Slots : 
        /\ Current(s) /\ InCatalog(s)
        /\ clones' = [clones EXCEPT ![panel] = @ \cup {<<s, Candidate(s)>>}]
        /\ checkpoints' = [checkpoints EXCEPT ![panel][s] = Candidate(s)]
  BY DEF AcceptCandidate
<1>3. Completed' /\ ToCome'
  BY <1>1, <1>2, OthersKept DEF HoldoutInv, HoldoutTypeOK, AcceptCandidate
<1>4. /\ checkpoints'[panel] = [checkpoints[panel] EXCEPT ![s] = Candidate(s)]
      /\ clones'[panel] = clones[panel] \cup {<<s, Candidate(s)>>}
      /\ checkpoints[panel] \in Selections
  BY <1>1, <1>2 DEF HoldoutInv, HoldoutTypeOK
<1>5. author.cursor[s] < Candidate(s) /\ Candidate(s) <= CandidateCount[s]
  BY <1>2, CandidateCountAssumption DEF HoldoutInv, HoldoutTypeOK, Selections, Candidate,
         InCatalog
<1>6. CheckpointValid(s)'
  BY <1>1, <1>4, <1>5 DEF AcceptCandidate, CheckpointValid, Selections
<1>7. \A t \in Slots : t # s => Authored(t)' = Authored(t)
                                /\ (CheckpointValid(t) => CheckpointValid(t)')
  BY <1>1, <1>4 DEF AcceptCandidate, CheckpointValid, Authored, Selections
<1>8. \A t \in Slots : Authored(t)' => CheckpointValid(t)'
  <2> SUFFICES ASSUME NEW t \in Slots, Authored(t)' PROVE CheckpointValid(t)'
    OBVIOUS
  <2>1. CASE t = s
    BY <1>6, <2>1
  <2>2. CASE t # s
    <3>1. author.done < PanelCount
      BY DEF HoldoutInv, AcceptCandidate, Phases, WorkSteps
    <3>. QED BY <1>7, <2>2, <3>1 DEF HoldoutInv, InWork
  <2>. QED BY <2>1, <2>2
<1>9. ~Complete
  BY <1>2 DEF Current, Complete
<1>10. author.done < PanelCount /\ step = "author"
  BY DEF HoldoutInv, AcceptCandidate, Phases, WorkSteps
<1>11. locks[panel] = Nothing /\ \A f \in Derived : derived[panel][f] = Nothing
  BY <1>9, <1>10 DEF HoldoutInv, InWork
<1>12. InWork'
  BY <1>1, <1>8, <1>10, <1>11 DEF HoldoutInv, InWork, AcceptCandidate
<1>. QED BY <1>3, <1>12

\* The manifests are the checkpoints.
LEMMA ManifestsWritten ==
  ASSUME HoldoutInv, WriteManifests
  PROVE  Completed' /\ ToCome' /\ InWork'
<1>1. panel \in Panels /\ panel' = panel /\ author.done < PanelCount
  BY PanelInWork DEF HoldoutInv, WriteManifests, Phases, WorkSteps, panel
<1>2. locks' \in {locks, [locks EXCEPT ![panel] = checkpoints[panel]]}
  BY DEF WriteManifests
<1>3. Completed' /\ ToCome'
  BY <1>1, <1>2, OthersKept DEF HoldoutInv, HoldoutTypeOK, WriteManifests
<1>4. locks'[panel] \in {Nothing, checkpoints[panel]}
  BY <1>1, <1>2 DEF HoldoutInv, HoldoutTypeOK, InWork
<1>5. Complete /\ step' \notin {"binding", "cleanup"}
  BY DEF WriteManifests, Complete, Stop
<1>6. InWork'
  BY <1>1, <1>4, <1>5 DEF HoldoutInv, InWork, WriteManifests, Complete, Authored, CheckpointValid
<1>. QED BY <1>3, <1>6

\* So are the derived files.
LEMMA DerivedWritten ==
  ASSUME HoldoutInv, WriteDerived
  PROVE  Completed' /\ ToCome' /\ InWork'
<1>1. panel \in Panels /\ panel' = panel /\ author.done < PanelCount
  BY PanelInWork DEF HoldoutInv, WriteDerived, Phases, WorkSteps, panel
<1>2. locks[panel] = checkpoints[panel] /\ checkpoints[panel] \in Selections
  BY <1>1 DEF HoldoutInv, HoldoutTypeOK, WriteDerived, Phases
<1>3. Complete
  BY <1>1, <1>2, SelectionIsSomething DEF HoldoutInv, InWork
<1>4. derived' \in {derived, [derived EXCEPT ![panel][step] = locks[panel]]} /\ step \in Derived
  BY DEF WriteDerived
<1>5. Completed' /\ ToCome'
  BY <1>1, <1>4, OthersKept DEF HoldoutInv, HoldoutTypeOK, WriteDerived
<1>6. \A f \in Derived : derived'[panel][f] \in {Nothing, checkpoints[panel]}
  BY <1>1, <1>2, <1>4 DEF HoldoutInv, HoldoutTypeOK, InWork
<1>7. /\ step' \in {"binding", "cleanup"} => derived'[panel]["query"] = checkpoints[panel]
      /\ step' = "cleanup" => derived'[panel]["binding"] = checkpoints[panel]
  <2>1. CASE step' = "binding"
    <3>1. step = "query" /\ derived' = [derived EXCEPT ![panel][step] = locks[panel]]
      BY <2>1 DEF WriteDerived, After, Derived, Stop
    <3>. QED BY <1>1, <1>2, <2>1, <3>1 DEF HoldoutInv, HoldoutTypeOK, Derived
  <2>2. CASE step' = "cleanup"
    <3>1. step = "binding" /\ derived' = [derived EXCEPT ![panel][step] = locks[panel]]
      BY <2>2 DEF WriteDerived, After, Derived, Stop
    <3>2. derived[panel]["query"] = checkpoints[panel]
      BY <1>1, <3>1 DEF HoldoutInv, InWork
    <3>. QED BY <1>1, <1>2, <2>2, <3>1, <3>2 DEF HoldoutInv, HoldoutTypeOK, Derived
  <2>. QED BY <2>1, <2>2
<1>8. InWork'
  BY <1>1, <1>3, <1>6, <1>7 DEF HoldoutInv, InWork, WriteDerived, Complete, Authored,
         CheckpointValid
<1>. QED BY <1>5, <1>8

\* The clean-up keeps the clone of every checkpoint.
LEMMA CloneRemoved ==
  ASSUME HoldoutInv, RemoveClone
  PROVE  Completed' /\ ToCome' /\ InWork'
<1>1. panel \in Panels /\ panel' = panel /\ author.done < PanelCount
  BY PanelInWork DEF HoldoutInv, RemoveClone, Phases, WorkSteps, panel
<1>2. PICK c \in Unselected : clones' = [clones EXCEPT ![panel] = @ \ {c}]
  BY DEF RemoveClone
<1>3. Completed' /\ ToCome'
  BY <1>1, <1>2, OthersKept DEF HoldoutInv, HoldoutTypeOK, RemoveClone
<1>4. locks[panel] = checkpoints[panel]
  BY DEF HoldoutInv, RemoveClone, Phases
<1>5. \A t \in Slots : c # <<t, checkpoints[panel][t]>>
  BY <1>2, <1>4 DEF Unselected
<1>6. clones'[panel] = clones[panel] \ {c}
  BY <1>1, <1>2 DEF HoldoutInv, HoldoutTypeOK
<1>7. \A t \in Slots : CheckpointValid(t) => CheckpointValid(t)'
  BY <1>1, <1>5, <1>6 DEF RemoveClone, CheckpointValid
<1>8. InWork'
  BY <1>1, <1>7 DEF HoldoutInv, InWork, RemoveClone, Complete, Authored
<1>. QED BY <1>3, <1>8

\* The panel in work becomes the last of those completed.
LEMMA PanelCommitted ==
  ASSUME HoldoutInv, CommitPanel
  PROVE  Completed' /\ ToCome' /\ InWork'
<1> DEFINE n == author.done
<1>1. panel \in Panels /\ n < PanelCount /\ n \in Nat /\ panel = n + 1
  BY PanelInWork DEF HoldoutInv, CommitPanel, Phases, WorkSteps, panel
<1>2. /\ author' = [done |-> panel, cursor |-> locks[panel]]
      /\ UNCHANGED <<plans, checkpoints, locks, derived, clones>>
  BY DEF CommitPanel, Advance
<1>3. author'.done = n + 1 /\ author'.cursor = locks[panel] /\ panel' = n + 2
  BY <1>1, <1>2 DEF panel
<1>4. locks[panel] = checkpoints[panel] /\ plans[panel] = author.cursor
  BY DEF HoldoutInv, CommitPanel, Phases
<1>5. checkpoints[panel] \in Selections /\ checkpoints[panel] # Nothing
  BY <1>1, SelectionIsSomething DEF HoldoutInv, HoldoutTypeOK
<1>6. /\ \A s \in Slots : CheckpointValid(s)
      /\ derived[panel]["query"] = checkpoints[panel]
      /\ derived[panel]["binding"] = checkpoints[panel]
  BY <1>1, <1>4, <1>5 DEF HoldoutInv, InWork, CommitPanel, Complete
<1>7. \A s \in Slots : /\ author.cursor[s] < locks[panel][s]
                        /\ <<s, locks[panel][s]>> \in clones[panel]
  BY <1>4, <1>6 DEF CheckpointValid
<1>8. \A p \in 0..(n + 1) : CursorAfter(p)' = CursorAfter(p)
  BY <1>2 DEF CursorAfter
<1>9. author.cursor = CursorAfter(n) /\ CursorAfter(n + 1) = locks[panel]
  BY <1>1 DEF HoldoutInv, Completed, Replays, CursorAfter
<1>10. \A p \in 1..(n + 1) : p \in 1..n \/ p = panel
  BY <1>1
<1>11. \A p \in 1..(n + 1) :
         /\ plans[p] = CursorAfter(p - 1)
         /\ locks[p] # Nothing /\ SourcesPresent(p)
         /\ derived[p]["query"] = locks[p] /\ derived[p]["binding"] = locks[p]
         /\ \A s \in Slots : locks[p][s] > CursorAfter(p - 1)[s]
  <2> SUFFICES ASSUME NEW p \in 1..(n + 1)
               PROVE  /\ plans[p] = CursorAfter(p - 1)
                      /\ locks[p] # Nothing /\ SourcesPresent(p)
                      /\ derived[p]["query"] = locks[p] /\ derived[p]["binding"] = locks[p]
                      /\ \A s \in Slots : locks[p][s] > CursorAfter(p - 1)[s]
    OBVIOUS
  <2>1. CASE p \in 1..n
    BY <2>1 DEF HoldoutInv, Completed, Replays
  <2>2. CASE p = panel
    <3>1. p - 1 = n
      BY <1>1, <2>2
    <3>2. \A s \in Slots : author.cursor[s] \in Nat /\ locks[panel][s] \in Nat
      BY <1>4, <1>5 DEF HoldoutInv, HoldoutTypeOK, Selections
    <3>. QED BY <1>4, <1>5, <1>6, <1>7, <1>9, <2>2, <3>1, <3>2 DEF SourcesPresent
  <2>. QED BY <1>10, <2>1, <2>2
<1>12. Replays'
  <2>1. \A p \in 1..(n + 1) : p - 1 \in 0..(n + 1) /\ SourcesPresent(p)' = SourcesPresent(p)
    BY <1>1, <1>2 DEF SourcesPresent
  <2>2. author'.cursor = CursorAfter(author.done)'
    BY <1>1, <1>2, <1>3 DEF CursorAfter
  <2>. QED BY <1>2, <1>3, <1>8, <1>11, <2>1, <2>2 DEF Replays
<1>13. \A p, q \in 1..(n + 1) : p < q => \A s \in Slots : locks[p][s] < locks[q][s]
  <2> SUFFICES ASSUME NEW p \in 1..(n + 1), NEW q \in 1..(n + 1), p < q, NEW s \in Slots
               PROVE  locks[p][s] < locks[q][s]
    OBVIOUS
  <2>1. CASE q \in 1..n
    BY <1>1, <2>1 DEF HoldoutInv, Completed
  <2>2. CASE q = panel
    <3>1. p \in 1..n /\ n \in 1..n /\ n > 0 /\ CursorAfter(n) = locks[n]
      BY <1>1, <2>2 DEF CursorAfter
    <3>2. p = n \/ locks[p][s] < locks[n][s]
      BY <1>1, <3>1 DEF HoldoutInv, Completed
    <3>3. locks[n][s] < locks[panel][s]
      BY <1>7, <1>9, <3>1
    <3>4. locks[p] \in Selections /\ locks[n] \in Selections /\ locks[panel] \in Selections
      <4>1. p \in Panels /\ n \in Panels
        BY <1>1, <3>1, PanelCountAssumption DEF Panels
      <4>2. locks[p] # Nothing /\ locks[n] # Nothing
        BY <3>1 DEF HoldoutInv, Completed, Replays
      <4>. QED BY <1>4, <1>5, <4>1, <4>2 DEF HoldoutInv, HoldoutTypeOK
    <3>5. locks[p][s] \in Nat /\ locks[n][s] \in Nat /\ locks[panel][s] \in Nat
      BY <3>4 DEF Selections
    <3>. QED BY <2>2, <3>2, <3>3, <3>5
  <2>. QED BY <1>10, <2>1, <2>2
<1>14. Completed'
  BY <1>2, <1>3, <1>12, <1>13 DEF Completed
<1>15. ToCome'
  BY <1>1, <1>2, <1>3 DEF HoldoutInv, ToCome, Panels
<1>16. ASSUME n + 1 < PanelCount PROVE
         /\ plans[n + 2] = Nothing /\ locks[n + 2] = Nothing /\ checkpoints[n + 2] = NoSelection
         /\ \A f \in Derived : derived[n + 2][f] = Nothing
  BY <1>1, <1>16, PanelCountAssumption DEF HoldoutInv, ToCome, Panels
<1>17. InWork'
  <2> SUFFICES ASSUME n + 1 < PanelCount PROVE InWork'
    BY <1>3 DEF InWork
  <2>1. step' \notin {"binding", "cleanup"}
    BY DEF CommitPanel
  <2>2. \A s \in Slots : ~Authored(s)'
    BY <1>2, <1>3, <1>16 DEF Authored, NoSelection
  <2>. QED BY <1>2, <1>3, <1>16, <2>1, <2>2 DEF InWork
<1>. QED BY <1>14, <1>15, <1>17

\* Nothing is written when a command starts, stops or seals.
LEMMA FilesKept ==
  ASSUME HoldoutInv, UNCHANGED <<author, plans, checkpoints, locks, derived, clones>>,
         step' \notin {"binding", "cleanup"} \/ step' = step
  PROVE  Completed' /\ ToCome' /\ InWork'
<1>1. Completed' /\ ToCome'
  BY OthersKept DEF HoldoutInv
<1>2. InWork'
  BY DEF HoldoutInv, InWork, panel, Complete, Authored, CheckpointValid
<1>. QED BY <1>1, <1>2

\* Every step of the authoring leaves what the next command can go on with.
LEMMA HoldoutInvStep ==
  HoldoutInv /\ [HoldoutNext]_<<holdoutVars, faults>> => HoldoutInv'
<1> SUFFICES ASSUME HoldoutInv, [HoldoutNext]_<<holdoutVars, faults>> PROVE HoldoutInv'
  OBVIOUS
<1>1. HoldoutTypeOK' /\ Phases'
  BY HoldoutTypeStep, PhasesStep DEF HoldoutInv
<1>2. CASE StartPrepare \/ NoneAdmitted \/ StartFreeze \/ WriteFreezeOutput \/ CommandFails
             \/ UNCHANGED <<holdoutVars, faults>>
  <2>1. UNCHANGED <<author, plans, checkpoints, locks, derived, clones>>
          /\ (step' \notin {"binding", "cleanup"} \/ step' = step)
    BY <1>2 DEF StartPrepare, NoneAdmitted, StartFreeze, WriteFreezeOutput, CommandFails, Stop,
           holdoutVars
  <2>. QED BY <1>1, <2>1, FilesKept DEF HoldoutInv
<1>3. CASE WritePlan \/ RejectCandidate \/ AcceptCandidate \/ WriteManifests \/ WriteDerived
             \/ RemoveClone \/ CommitPanel
  BY <1>1, <1>3, PlanWritten, CandidateRejected, CandidateAccepted, ManifestsWritten,
     DerivedWritten, CloneRemoved, PanelCommitted DEF HoldoutInv
<1>. QED BY <1>2, <1>3 DEF HoldoutNext

\* The empty directory is one to go on with.
LEMMA HoldoutInvInit == HoldoutInit => HoldoutInv
<1> SUFFICES ASSUME HoldoutInit PROVE HoldoutInv
  OBVIOUS
<1> USE PanelCountAssumption DEF HoldoutInit
<1>1. NoSelection \in Selections /\ author.done = 0 /\ panel = 1
  BY DEF NoSelection, Selections, panel
<1>2. HoldoutTypeOK
  BY <1>1 DEF HoldoutTypeOK, FreezeOutputs, Panels
<1>3. Phases
  BY <1>1 DEF Phases, WorkSteps, Derived
<1>4. Completed
  BY <1>1 DEF Completed, Replays, CursorAfter
<1>5. InWork
  BY <1>1 DEF InWork, Authored, NoSelection, Panels
<1>6. ToCome
  BY DEF ToCome
<1>. QED BY <1>2, <1>3, <1>4, <1>5, <1>6 DEF HoldoutInv

\* The authoring keeps its invariant.
THEOREM HoldoutInvariant == HoldoutSpec => []HoldoutInv
BY HoldoutInvInit, HoldoutInvStep, PTL DEF HoldoutSpec

\* Files and cursors stay within their types.
THEOREM HoldoutTypeCorrect == HoldoutSpec => []HoldoutTypeOK
<1>1. HoldoutInv => HoldoutTypeOK
  BY DEF HoldoutInv
<1>. QED BY <1>1, HoldoutInvariant, PTL

\* What an authoring command finds is what it would write itself.
LEMMA InvResumable == HoldoutInv => AuthoringResumable
BY DEF HoldoutInv, Completed, InWork, AuthoringResumable

\* Wherever prepare_holdout is killed, and however often, a later run finds on
\* disk what it would write itself, for any number of panels and any catalog.
THEOREM AuthoringIsResumable == HoldoutSpec => []AuthoringResumable
BY InvResumable, HoldoutInvariant, PTL

----------------------------------------------------------------------------
(* The completed panels are an append-only ledger *)

\* The ledger is as long as there are completed panels.
LEMMA LedgerLength ==
  ASSUME HoldoutTypeOK, NEW n \in Nat
  PROVE  Len([p \in 1..n |-> locks[p]]) = n
<1> DEFINE l == [p \in 1..n |-> locks[p]]
<1>1. l \in [1..n -> {locks[p] : p \in 1..n}]
  OBVIOUS
<1>2. l \in Seq({locks[p] : p \in 1..n})
  BY <1>1, SeqDef
<1>3. DOMAIN l = 1..n /\ DOMAIN l = 1..Len(l) /\ Len(l) \in Nat
  BY <1>2, LenProperties
<1>. QED BY <1>3

\* A committed panel is a selection of the ledger.
LEMMA CommitSelects ==
  ASSUME HoldoutInv, HoldoutInv', CommitPanel
  PROVE  Ledger!Select
<1> DEFINE n == author.done
<1>1. n \in Nat /\ n < PanelCount /\ author'.done = n + 1 /\ panel = n + 1 /\ frozen = 0
  BY PanelInWork DEF HoldoutInv, CommitPanel, Phases, WorkSteps, panel
<1>2. UNCHANGED <<locks, frozen>>
  BY DEF CommitPanel
<1>3. Len(Completions) = n /\ Len(Completions') = n + 1
  BY <1>1, <1>2, LedgerLength DEF Completions, HoldoutInv
<1>4. /\ DOMAIN Completions = 1..n
      /\ \A p \in 1..n : Completions'[p] = Completions[p] /\ Completions[p] = locks[p]
      /\ Completions'[n + 1] = locks[n + 1]
  BY <1>1, <1>2 DEF Completions
<1>5. \A s \in Slots : locks[n + 1][s] > 0
  <2>1. locks[panel] = checkpoints[panel] /\ author.done < PanelCount /\ panel \in Panels
    BY PanelInWork DEF HoldoutInv, CommitPanel, Phases, WorkSteps
  <2>2. checkpoints[panel] \in Selections /\ author.cursor \in Selections
    BY <2>1 DEF HoldoutInv, HoldoutTypeOK
  <2>3. Complete
    BY <2>1, <2>2, SelectionIsSomething DEF HoldoutInv, InWork
  <2>. QED BY <1>1, <2>1, <2>2, <2>3 DEF Complete, Authored, Selections
<1>6. \A s \in Slots : \A i \in 1..n : locks[n + 1][s] > locks[i][s]
  <2>1. \A p, q \in 1..(n + 1) : p < q => \A s \in Slots : locks[p][s] < locks[q][s]
    BY <1>1, <1>2 DEF HoldoutInv, Completed
  <2>2. \A i \in 1..n : i \in 1..(n + 1) /\ n + 1 \in 1..(n + 1) /\ i < n + 1
    BY <1>1
  <2>. QED BY <2>1, <2>2
<1>7. HoldoutFrozen = FALSE /\ HoldoutFrozen' = HoldoutFrozen
  BY <1>1, <1>2, PanelCountAssumption DEF HoldoutFrozen, FreezeOutputs
<1>8. Ledger!Beyond(Completions'[Len(Completions')])
  BY <1>1, <1>3, <1>4, <1>5, <1>6 DEF Ledger!Beyond
<1>. QED BY <1>1, <1>3, <1>4, <1>7, <1>8 DEF Ledger!Select

\* Every other step leaves the ledger as it is, or seals it when it is full.
LEMMA LedgerStep ==
  ASSUME HoldoutInv, HoldoutInv', [HoldoutNext]_<<holdoutVars, faults>>
  PROVE  [Ledger!Next]_<<Completions, HoldoutFrozen>>
<1>0. /\ author.done \in 0..PanelCount /\ frozen \in Nat
      /\ step \in WorkSteps => author.done < PanelCount
  BY DEF HoldoutInv, HoldoutTypeOK, FreezeOutputs, Phases
<1>1. CASE CommitPanel
  BY <1>1, CommitSelects DEF Ledger!Next
<1>2. CASE WriteFreezeOutput
  <2>1. UNCHANGED Completions
    BY <1>2 DEF WriteFreezeOutput, Completions
  <2>2. author.done = PanelCount /\ ~HoldoutFrozen
    BY <1>2, <1>0, PanelCountAssumption DEF WriteFreezeOutput, HoldoutInv, Phases,
           HoldoutFrozen, FreezeOutputs
  <2>3. Len(Completions) = PanelCount
    BY <2>2, PanelCountAssumption, LedgerLength DEF HoldoutInv, Completions
  <2>4. CASE HoldoutFrozen'
    <3>1. HoldoutFrozen' = TRUE
      BY <2>4 DEF HoldoutFrozen
    <3>. QED BY <2>1, <2>2, <2>3, <3>1 DEF Ledger!Next, Ledger!Seal
  <2>5. CASE ~HoldoutFrozen'
    <3>1. HoldoutFrozen' = HoldoutFrozen
      BY <2>2, <2>5 DEF HoldoutFrozen
    <3>. QED BY <2>1, <3>1
  <2>. QED BY <2>4, <2>5
<1>3. CASE WriteManifests
  <2>1. panel \in Panels /\ panel = author.done + 1
    BY <1>3, PanelInWork DEF HoldoutInv, WriteManifests, Phases, WorkSteps, panel
  <2>2. \A p \in 1..author.done : locks'[p] = locks[p]
    <3>1. locks' \in {locks, [locks EXCEPT ![panel] = checkpoints[panel]]}
      BY <1>3 DEF WriteManifests
    <3>2. \A p \in 1..author.done : p \in Panels /\ p # panel
      BY <1>0, <2>1, PanelCountAssumption DEF Panels
    <3>. QED BY <3>1, <3>2 DEF HoldoutInv, HoldoutTypeOK
  <2>3. UNCHANGED <<author, frozen>>
    BY <1>3 DEF WriteManifests
  <2>. QED BY <2>2, <2>3 DEF Completions, HoldoutFrozen, FreezeOutputs
<1>4. CASE StartPrepare \/ WritePlan \/ RejectCandidate \/ AcceptCandidate \/ NoneAdmitted
             \/ WriteDerived \/ RemoveClone \/ StartFreeze \/ CommandFails
             \/ UNCHANGED <<holdoutVars, faults>>
  <2>1. UNCHANGED <<author, locks, frozen>>
    BY <1>4 DEF StartPrepare, WritePlan, RejectCandidate, AcceptCandidate, NoneAdmitted,
           WriteDerived, RemoveClone, StartFreeze, CommandFails, holdoutVars
  <2>. QED BY <2>1 DEF Completions, HoldoutFrozen, FreezeOutputs
<1>. QED BY <1>1, <1>2, <1>3, <1>4 DEF HoldoutNext

\* Authoring implements the append-only ledger: panels are selected in order,
\* each beyond those before it, never changed after their commit, and sealed
\* only together.
THEOREM AuthoringImplementsLedger == HoldoutSpec => PanelsAreLedger
<1>1. HoldoutInit => Ledger!Init
  BY PanelCountAssumption DEF HoldoutInit, Ledger!Init, Completions, HoldoutFrozen, FreezeOutputs
<1>2. HoldoutInv /\ HoldoutInv' /\ [HoldoutNext]_<<holdoutVars, faults>>
        => [Ledger!Next]_<<Completions, HoldoutFrozen>>
  BY LedgerStep
<1>. QED BY <1>1, <1>2, HoldoutInvariant, PTL DEF HoldoutSpec, PanelsAreLedger, Ledger!Spec
=============================================================================
