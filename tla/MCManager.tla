----------------------------- MODULE MCManager -----------------------------
(* Instances of Manager for TLC.  Sandboxes and commands are               *)
(* interchangeable, so the safety runs look at one state per renaming.     *)
EXTENDS Manager, TLC

NameSymmetry == Permutations(Ids) \cup Permutations(Cmds)
============================================================================
