--------------------------- MODULE MCSelectServer ---------------------------
(* Small instances of SelectServer.                                        *)
EXTENDS SelectServer, TLC

\* Peers that are not faulty are interchangeable.
PeerSymmetry == Permutations(Peers \ Faulty)
=============================================================================
