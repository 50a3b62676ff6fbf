-------------------------- MODULE MCPersistentIndex --------------------------
(* Small instances of PersistentIndex for TLC.                               *)
EXTENDS PersistentIndex, TLC

(* Paths, text contents, policies and strategies are each interchangeable:   *)
(* the specification names none of them.                                     *)
Symmetry == Permutations(Paths) \cup Permutations(Texts)
              \cup Permutations(Policies) \cup Permutations(Strategies)
=============================================================================
