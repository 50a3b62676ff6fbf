----------------------------- MODULE B4Protocol -----------------------------
(***************************************************************************)
(* What the programs of the B4 replication share: the panels they work     *)
(* through, one after the other, and the faults that may strike them.      *)
(***************************************************************************)
EXTENDS Naturals, FiniteSets

CONSTANTS PanelCount,   \* B4_PANEL_COUNT, twelve in the code
          MaxFaults     \* bound: crashes, power losses and I/O errors together

ASSUME PanelCountAssumption == PanelCount \in Nat \ {0}
ASSUME MaxFaultsAssumption == MaxFaults \in Nat

Panels == 1..PanelCount

VARIABLE faults          \* how many faults have struck so far

FaultsType == faults \in 0..MaxFaults

\* One more fault strikes.
Fault == faults < MaxFaults /\ faults' = faults + 1
=============================================================================
