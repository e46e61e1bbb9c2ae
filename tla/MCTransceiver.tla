--------------------------- MODULE MCTransceiver ---------------------------
(* The ring of Transceiver on a few slots: a file longer than two rings    *)
(* makes both indexes wrap with every combination of partial calls.        *)
EXTENDS Transceiver
=============================================================================
