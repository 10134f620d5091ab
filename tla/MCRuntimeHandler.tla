--------------------------- MODULE MCRuntimeHandler ---------------------------
(* The instance of RuntimeHandler that TLC checks. *)
EXTENDS RuntimeHandler

CONSTANTS t1, p1

MCTags == {t1}
MCPeers == {p1}
=============================================================================
