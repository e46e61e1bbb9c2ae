--------------------------- MODULE MCBlockChain ---------------------------
(* One network: node 1 is the initial one, 2 joins it, 3 joins both.       *)
EXTENDS BlockChain

Joins == <<<<>>, <<1>>, <<2, 1>>>>
BlocksOfEach == <<2, 1, 0>>
===========================================================================
