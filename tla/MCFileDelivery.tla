--------------------------- MODULE MCFileDelivery ---------------------------
(* Values of FileDelivery's constants for TLC, which also evaluates the     *)
(* assumption of Crc64.                                                     *)
EXTENDS FileDelivery, Crc64

MCNameOf == [n \in Nodes |-> <<"alpha", "beta", "gamma">>[n]]

\* A file of two chunks.
MCFiles == {[total |-> 3, chunk |-> 2]}

\* And one of a single chunk.
MCTwoFiles == MCFiles \cup {[total |-> 1, chunk |-> 2]}

\* And one whose chunks are longer than the byte for their length can tell.
MCCutFiles == MCFiles \cup {[total |-> 5, chunk |-> 5]}

=============================================================================
