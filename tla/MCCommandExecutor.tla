------------------------- MODULE MCCommandExecutor -------------------------
(* CommandExecutor on the few commands of the .cfg files.                   *)
EXTENDS CommandExecutor, TLC

(* Ids are interchangeable: used by the run that checks safety only.        *)
IdSymmetry == Permutations(Ids)
=============================================================================
