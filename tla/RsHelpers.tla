----------------------------- MODULE RsHelpers -----------------------------
(***************************************************************************)
(* How long a message is: the size tables of RsHelpers.hpp, the sizes of   *)
(* the packed structures of RsTypes.hpp and the numbers of the message     *)
(* types on the wire.                                                      *)
(***************************************************************************)
EXTENDS RsTypes, Integers, Sequences

CONSTANT MaxPayload  \* 0xFF, the longest payload of a message of variable size

ASSUME PayloadAssumption == MaxPayload \in Nat \ {0}

Byte == 0 .. 255

\* The enumerators of MessageType in their order; the first is 0.
Types == <<"Probe", "Ack", "Command", "BlobRequest", "BlobAnswer",
           "DeviceInfoReq", "DeviceInfoAnw",
           "FileWriteRequest", "FileWriteChunk", "FileWriteFinalize",
           "HealthReq", "HealthAnw", "Reboot">>

TypeEnd == 13

TypeOf(b) == Types[b + 1]

\* sizeof(Header), and how much of it there is when the type is known.
HeaderSize == 4
TypeAt == 3

\* The size of a message without preamble and CRC; 0 when the size depends
\* on a length in the message.
getMessageSizeByType(type) ==
  CASE type \in {"Probe", "Ack", "DeviceInfoReq", "HealthReq"} -> HeaderSize + 1
    [] type = "BlobRequest"       -> HeaderSize + 2
    [] type = "Command"           -> HeaderSize + 3
    [] type = "HealthAnw"         -> HeaderSize + 4
    [] type = "FileWriteRequest"  -> HeaderSize + 5
    [] type = "Reboot"            -> HeaderSize + 8
    [] type = "FileWriteFinalize" -> HeaderSize + 11
    [] OTHER                      -> 0

\* The part of a message of variable size up to its last fixed byte, which
\* is the length of the rest.
getVolatileMessageBaseSize(type) ==
  CASE type = "FileWriteChunk" -> HeaderSize + 2
    [] type = "BlobAnswer"     -> HeaderSize + 3
    [] type = "DeviceInfoAnw"  -> HeaderSize + 17
    [] OTHER                   -> 0

getVolatileMessageMaxPayloadSize(type) ==
  IF getVolatileMessageBaseSize(type) = 0 THEN 0 ELSE MaxPayload

IsConst(type) == getMessageSizeByType(type) # 0

=============================================================================
