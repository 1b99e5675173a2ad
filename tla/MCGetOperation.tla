---------------------------- MODULE MCGetOperation ----------------------------
(* GetOperation on the small shards of the .cfg files.                      *)
EXTENDS GetOperation
=============================================================================
