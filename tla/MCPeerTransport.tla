--------------------------- MODULE MCPeerTransport ---------------------------
(* Small instances of PeerTransport for TLC.                                *)
EXTENDS PeerTransport

Two == {1, 2}
============================================================================
