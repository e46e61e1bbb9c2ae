--------------------------- MODULE MCIoringServer ---------------------------
(* Two clients, one of which may reset its connection.                     *)
EXTENDS IoringServer

CONSTANTS g1, b1
=============================================================================
