----------------------------- MODULE FileStream -----------------------------
(***************************************************************************)
(* What one file transfer of the select() server promises, with no buffer  *)
(* in sight: bytes leave the file in order, at most Capacity of them wait  *)
(* between the file and the socket, and the socket is given a prefix of    *)
(* the file that only grows.                                               *)
(*                                                                         *)
(* A byte is named by its offset in the file (1 .. FileLength), the finest *)
(* distinction there is between two bytes of one file.                     *)
(***************************************************************************)
EXTENDS Naturals, Sequences

CONSTANTS
    FileLength,  \* number of bytes in the file
    Capacity     \* most bytes that may wait to be sent

VARIABLES
    fetched,     \* number of bytes taken from the file
    sent,        \* bytes given to the socket, in order
    ended        \* the end of the file was seen

vars == <<fetched, sent, ended>>

\* The first n bytes of the file.
Prefix(n) == [i \in 1..n |-> i]

Init ==
    /\ fetched = 0
    /\ sent = Prefix(0)
    /\ ended = FALSE

Fetch ==
    /\ ~ended
    /\ \E n \in 1..(FileLength - fetched) :
        /\ fetched + n <= Len(sent) + Capacity
        /\ fetched' = fetched + n
    /\ UNCHANGED <<sent, ended>>

End ==
    /\ ~ended
    /\ fetched = FileLength
    /\ ended' = TRUE
    /\ UNCHANGED <<fetched, sent>>

Deliver ==
    /\ \E n \in 1..(fetched - Len(sent)) : sent' = Prefix(Len(sent) + n)
    /\ UNCHANGED <<fetched, ended>>

Next == Fetch \/ End \/ Deliver

Spec == Init /\ [][Next]_vars
=============================================================================
