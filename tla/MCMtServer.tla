----------------------------- MODULE MCMtServer -----------------------------
(* Small instances of MtServer: two clients that behave and one that does  *)
(* what it likes.                                                          *)
EXTENDS MtServer, TLC

CONSTANTS g1, g2, b1

FilesOfEach == (g1 :> {2}) @@ (g2 :> {1}) @@ (b1 :> {0})
=============================================================================
