-------------------------- MODULE MCPublishOperation --------------------------
(* PublishOperation on the small shards of the .cfg files.                  *)
EXTENDS PublishOperation
=============================================================================
