----------------------------- MODULE MCPeerLink -----------------------------
(***************************************************************************)
(* PeerLink for TLC.                                                       *)
(***************************************************************************)
EXTENDS PeerLink
=============================================================================
