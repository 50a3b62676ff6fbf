---------------------------- MODULE MCB4Control ----------------------------
(***************************************************************************)
(* The B4 control for TLC: two slots, whose lists of candidates leave room *)
(* for one rejection in the first slot and for none in the second.         *)
(***************************************************************************)
EXTENDS B4Control

MCSlots == {1, 2}
MCCandidateCount == <<3, 2>>
=============================================================================
