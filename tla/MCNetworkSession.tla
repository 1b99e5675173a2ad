--------------------------- MODULE MCNetworkSession ---------------------------
(* One publisher that is told of the finality of its publish: see            *)
(* MCNodeRequests for the other operations.                                  *)
EXTENDS NetworkSession
=============================================================================
