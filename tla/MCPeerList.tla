----------------------------- MODULE MCPeerList -----------------------------
(***************************************************************************)
(* Peer lists of two entries, so that they fill up.                        *)
(***************************************************************************)
EXTENDS PeerList

=============================================================================
