----------------------------- MODULE B4Holdout -----------------------------
(***************************************************************************)
(* The authoring of the B4 holdout: prepare_holdout selects a repository   *)
(* for every slot of every panel, freeze_holdout seals the result.  Both   *)
(* are resumable commands over a private directory: each file is written   *)
(* once, and a later run has to find in it what it would write itself.     *)
(* The catalog is fixed, so that the cursors determine a candidate plan;   *)
(* every derived file is kept as the selection it was derived from.        *)
(***************************************************************************)
EXTENDS B4Protocol, Sequences

CONSTANTS Slots,            \* the repository slots, twelve in the code
          CandidateCount    \* the length of each slot's list in the catalog

ASSUME SlotsAssumption == IsFiniteSet(Slots) /\ Slots \subseteq Nat /\ Slots # {}
ASSUME CandidateCountAssumption == CandidateCount \in [Slots -> Nat]

VARIABLES
  author,       \* the author state: how many panels are done, and the cursors
  plans,        \* the candidate plan of each panel: the cursors it starts from
  checkpoints,  \* the candidate selected for each slot of each panel, 0 without one
  locks,        \* the repository, task and oracle manifests of each panel
  derived,      \* completion receipt, query report and binding of each panel
  clones,       \* the candidates cloned under each panel
  frozen,       \* how many outputs of the freeze are written
  step,         \* where the running command is
  rejected      \* how many candidates of the current slot it has rejected

holdoutVars == <<author, plans, checkpoints, locks, derived, clones, frozen, step, rejected>>

Nothing == <<>>
Derived == {"complete", "query", "binding"}
Selections == [Slots -> Nat]
NoSelection == [s \in Slots |-> 0]

\* The outputs of the freeze in the order they are written: the global binding,
\* the history binding, a receipt per panel, the global freeze.
FreezeOutputs == PanelCount + 3

HoldoutFrozen == frozen = FreezeOutputs

HoldoutInit ==
  /\ author = [done |-> 0, cursor |-> NoSelection]
  /\ plans = [p \in Panels |-> Nothing]
  /\ checkpoints = [p \in Panels |-> NoSelection]
  /\ locks = [p \in Panels |-> Nothing]
  /\ derived = [p \in Panels |-> [f \in Derived |-> Nothing]]
  /\ clones = [p \in Panels |-> {}]
  /\ frozen = 0 /\ step = "off" /\ rejected = 0

panel == author.done + 1

\* Broken variant: rejected candidates are not skipped.
AdvanceByOne(cursor, selection) == [s \in Slots |-> cursor[s] + 1]

Advance(cursor, selection) == selection

\* The command ends, with a result or an exception.
Stop == step' = "off" /\ rejected' = 0

----------------------------------------------------------------------------
(* The replay of the completed panels, at the start of both commands *)

CursorAfter(p) ==
  IF p = 0 THEN NoSelection ELSE locks[p]

SourcesPresent(p) == \A s \in Slots : <<s, locks[p][s]>> \in clones[p]

\* Each manifest is read again, and the query report and the binding compared
\* with what it gives.  That no panel overlaps another follows from the cursors.
Replays ==
  /\ \A p \in 1..author.done :
       /\ plans[p] = CursorAfter(p - 1)
       /\ locks[p] # Nothing /\ SourcesPresent(p)
       /\ derived[p]["query"] = locks[p] /\ derived[p]["binding"] = locks[p]
       /\ \A s \in Slots : locks[p][s] > CursorAfter(p - 1)[s]
  /\ author.cursor = CursorAfter(author.done)

StartPrepare ==
  /\ step = "off" /\ author.done < PanelCount
  /\ Replays
  /\ step' = "plan"
  /\ UNCHANGED <<author, plans, checkpoints, locks, derived, clones, frozen, rejected>>

\* build_panel_candidate_plan raises when a slot has no candidate left.
Depleted == \E s \in Slots : author.cursor[s] >= CandidateCount[s]

WritePlan ==
  /\ step = "plan"
  /\ IF ~Depleted /\ plans[panel] \in {Nothing, author.cursor}
     THEN /\ plans' = [plans EXCEPT ![panel] = author.cursor]
          /\ step' = "author" /\ UNCHANGED rejected
     ELSE Stop /\ UNCHANGED plans
  /\ UNCHANGED <<author, checkpoints, locks, derived, clones, frozen>>

----------------------------------------------------------------------------
(* _prepare_checkpointed_manifests *)

Authored(s) == checkpoints[panel][s] # 0
Current(s) == ~Authored(s) /\ \A t \in Slots : t < s => Authored(t)
Candidate(s) == author.cursor[s] + rejected + 1
InCatalog(s) == Candidate(s) <= CandidateCount[s]

\* _prepare_one_repo: the candidate cannot be cloned, or fails the author's gates.
RejectCandidate ==
  /\ step = "author"
  /\ \E s \in Slots :
       /\ Current(s) /\ InCatalog(s)
       /\ clones' \in {clones, [clones EXCEPT ![panel] = @ \cup {<<s, Candidate(s)>>}]}
  /\ rejected' = rejected + 1
  /\ UNCHANGED <<author, plans, checkpoints, locks, derived, frozen, step>>

\* ... or it is authored, and its checkpoint written.
AcceptCandidate ==
  /\ step = "author"
  /\ \E s \in Slots :
       /\ Current(s) /\ InCatalog(s)
       /\ clones' = [clones EXCEPT ![panel] = @ \cup {<<s, Candidate(s)>>}]
       /\ checkpoints' = [checkpoints EXCEPT ![panel][s] = Candidate(s)]
  /\ rejected' = 0
  /\ UNCHANGED <<author, plans, locks, derived, frozen, step>>

\* "no candidate admitted"
NoneAdmitted ==
  /\ step = "author"
  /\ \E s \in Slots : Current(s) /\ ~InCatalog(s)
  /\ Stop
  /\ UNCHANGED <<author, plans, checkpoints, locks, derived, clones, frozen>>

\* _validate_author_checkpoint: a candidate of the plan, its clone in place.
CheckpointValid(s) ==
  /\ author.cursor[s] < checkpoints[panel][s]
  /\ checkpoints[panel][s] <= CandidateCount[s]
  /\ <<s, checkpoints[panel][s]>> \in clones[panel]

WriteManifests ==
  /\ step = "author" /\ \A s \in Slots : Authored(s)
  /\ IF \A s \in Slots : CheckpointValid(s)
     THEN /\ locks' = [locks EXCEPT ![panel] = checkpoints[panel]]
          /\ step' = "complete" /\ UNCHANGED rejected
     ELSE Stop /\ UNCHANGED locks
  /\ UNCHANGED <<author, plans, checkpoints, derived, clones, frozen>>

----------------------------------------------------------------------------
(* The rest of a panel: derived files, clean-up, commit *)

Overlaps == \E q \in 1..author.done : \E s \in Slots : locks[q][s] = locks[panel][s]

After(f) ==
  CASE f = "complete" -> "query" [] f = "query" -> "binding" [] f = "binding" -> "cleanup"

\* An existing file has to be equal; a missing one is written.
WriteDerived ==
  /\ step \in Derived
  /\ IF /\ derived[panel][step] \in {Nothing, locks[panel]}
        /\ step = "binding" => ~Overlaps
     THEN /\ derived' = [derived EXCEPT ![panel][step] = locks[panel]]
          /\ step' = After(step) /\ UNCHANGED rejected
     ELSE Stop /\ UNCHANGED derived
  /\ UNCHANGED <<author, plans, checkpoints, locks, clones, frozen>>

\* _cleanup_unselected_clones
\* Broken variant: no clone is recognised as a selected one.
UnselectedAll == clones[panel]

Unselected == {c \in clones[panel] : c[2] # locks[panel][c[1]]}

RemoveClone ==
  /\ step = "cleanup"
  /\ \E c \in Unselected : clones' = [clones EXCEPT ![panel] = @ \ {c}]
  /\ UNCHANGED <<author, plans, checkpoints, locks, derived, frozen, step, rejected>>

\* The author state is replaced; the loop goes on with the next panel.
CommitPanel ==
  /\ step = "cleanup" /\ Unselected = {}
  /\ author' = [done |-> panel, cursor |-> Advance(author.cursor, locks[panel])]
  /\ step' = IF panel = PanelCount THEN "off" ELSE "plan"
  /\ UNCHANGED <<plans, checkpoints, locks, derived, clones, frozen, rejected>>

----------------------------------------------------------------------------
(* freeze_holdout *)

\* "B4 freeze output already exists": the global binding comes first.
\* Broken variant: nothing is looked at.
FreezeAlwaysAdmitted == TRUE

FreezeAdmitted == frozen = 0

StartFreeze ==
  /\ step = "off" /\ FreezeAdmitted
  /\ author.done = PanelCount /\ Replays
  /\ step' = "freeze"
  /\ UNCHANGED <<author, plans, checkpoints, locks, derived, clones, frozen, rejected>>

WriteFreezeOutput ==
  /\ step = "freeze"
  /\ frozen' = frozen + 1
  /\ step' = IF frozen' = FreezeOutputs THEN "off" ELSE "freeze"
  /\ UNCHANGED <<author, plans, checkpoints, locks, derived, clones, rejected>>

\* The command is killed or fails between two of its writes.
CommandFails ==
  /\ Fault
  /\ step # "off"
  /\ Stop
  /\ UNCHANGED <<author, plans, checkpoints, locks, derived, clones, frozen>>

HoldoutNext ==
  \/ /\ \/ StartPrepare \/ WritePlan \/ RejectCandidate \/ AcceptCandidate \/ NoneAdmitted
        \/ WriteManifests \/ WriteDerived \/ RemoveClone \/ CommitPanel
        \/ StartFreeze \/ WriteFreezeOutput
     /\ UNCHANGED faults
  \/ CommandFails

HoldoutSpec == faults = 0 /\ HoldoutInit /\ [][HoldoutNext]_<<holdoutVars, faults>>
----------------------------------------------------------------------------
(* Properties *)

HoldoutTypeOK ==
  /\ author \in [done : 0..PanelCount, cursor : Selections]
  /\ plans \in [Panels -> {Nothing} \cup Selections]
  /\ checkpoints \in [Panels -> Selections]
  /\ locks \in [Panels -> {Nothing} \cup Selections]
  /\ derived \in [Panels -> [Derived -> {Nothing} \cup Selections]]
  /\ clones \in [Panels -> SUBSET (Slots \X Nat)]
  /\ frozen \in 0..FreezeOutputs
  /\ step \in {"off", "plan", "author", "cleanup", "freeze"} \cup Derived
  /\ rejected \in Nat

\* Wherever a run of prepare_holdout stopped, the next one gets past every
\* comparison with what is on disk: the completed panels replay, the plan of the
\* current panel is the one it computes, each checkpoint is valid, and every
\* derived file is the one it derives from the checkpoints.
AuthoringResumable ==
  /\ Replays
  /\ author.done < PanelCount =>
       /\ plans[panel] \in {Nothing, author.cursor}
       /\ \A s \in Slots : Authored(s) => CheckpointValid(s)
       /\ \A f \in Derived : derived[panel][f] \in {Nothing, checkpoints[panel]}

\* The completed panels are a ledger (module PanelLedger): append-only, every
\* selection beyond the earlier ones of its slot, sealed when it is full.
Completions == [p \in 1..author.done |-> locks[p]]
Ledger == INSTANCE PanelLedger WITH ledger <- Completions, sealed <- HoldoutFrozen
PanelsAreLedger == Ledger!Spec

\* Once authoring is complete a freeze that was interrupted can be run again.
FreezeResumes ==
  step = "off" /\ author.done = PanelCount /\ ~HoldoutFrozen => FreezeAdmitted
=============================================================================
