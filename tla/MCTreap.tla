------------------------------ MODULE MCTreap -------------------------------
(* A small instance of Treap: the hashes of keys 1 and 3 are equal. *)
EXTENDS Treap

MCPrio == <<2, 1, 2>>
MCRanges == {<<0, 0>>, <<2, 3>>, <<0, 3>>}
MCStored == {<<>>, <<<<1, 1>>, <<2, 0>>, <<3, 1>>>>}
=============================================================================
