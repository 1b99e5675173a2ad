---------------------- MODULE MCBlockchainEventListener ----------------------
(* BlockchainEventListener on the short chains of the .cfg files.           *)
EXTENDS BlockchainEventListener
=============================================================================
