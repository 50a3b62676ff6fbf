---------------------------- MODULE PanelLedger ----------------------------
(***************************************************************************)
(* What authoring promises about the B4 holdout: the panels are selected   *)
(* one after the other, each takes for every slot a candidate beyond those *)
(* of the panels before it, a selected panel never changes, and the ledger *)
(* is sealed only when it is full.                                         *)
(***************************************************************************)
EXTENDS Naturals, Sequences

CONSTANTS PanelCount, Slots

VARIABLES ledger,   \* the selections of the completed panels, in order
          sealed

Init == ledger = <<>> /\ sealed = FALSE

Beyond(selection) ==
  \A s \in Slots : selection[s] > 0 /\ \A i \in DOMAIN ledger : selection[s] > ledger[i][s]

\* One selection is appended.
Select ==
  /\ ~sealed /\ Len(ledger) < PanelCount
  /\ Len(ledger') = Len(ledger) + 1
  /\ \A i \in DOMAIN ledger : ledger'[i] = ledger[i]
  /\ Beyond(ledger'[Len(ledger')])
  /\ UNCHANGED sealed

Seal ==
  /\ ~sealed /\ Len(ledger) = PanelCount
  /\ sealed' = TRUE
  /\ UNCHANGED ledger

Next == Select \/ Seal

Spec == Init /\ [][Next]_<<ledger, sealed>>
=============================================================================
