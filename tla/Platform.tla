------------------------------ MODULE Platform ------------------------------
(***************************************************************************)
(* The two programs that keep state beside the node: the chat of the web   *)
(* portal and the scraping of the companion app.  They share nothing.      *)
(***************************************************************************)
EXTENDS ChatRelay, CompanionScrape

(* The programs beside the node keep what they were told and no other page. *)
PlatformInv == RelayInv /\ CompanionInv
=============================================================================
