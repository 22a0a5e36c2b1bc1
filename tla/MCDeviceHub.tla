---------------------------- MODULE MCDeviceHub ----------------------------
(* Values of DeviceHub's constants for TLC.                                 *)
EXTENDS DeviceHub

MCNameOf == [n \in Nodes |-> <<"alpha", "beta", "gamma">>[n]]

\* A file of two chunks.
MCFiles == {[total |-> 3, chunk |-> 2]}

=============================================================================
