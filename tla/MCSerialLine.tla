---------------------------- MODULE MCSerialLine ----------------------------
(* Values of SerialLine's constants for TLC: the checksum is the real one.  *)
EXTENDS SerialLine, Crc8

\* A message: to, from, type, number and payload.
Command1 == <<1, 0, 2, 7, 82, 1, 0>>   \* for node 1, with a preamble in it
ProbeAll == <<255, 0, 0, 8, 255>>
Foreign  == <<9, 0, 0, 9, 255>>
Chunk2   == <<2, 0, 8, 10, 0, 3, 4, 5, 6>>
Answer2  == <<2, 0, 4, 11, 0, 0, 2, 1, 2>>       \* the longest that sendAnswer sends
TooLong2 == <<2, 0, 4, 12, 0, 0, 3, 1, 2, 3>>

MCMessages == {Command1, ProbeAll, Foreign, Chunk2, Answer2, TooLong2}

=============================================================================
