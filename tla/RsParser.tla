------------------------------ MODULE RsParser ------------------------------
(***************************************************************************)
(* RsParser (include/UtilitaryRS/RsParser.hpp): the machine that finds     *)
(* messages in a stream of bytes.  update(aBuffer, aLength) is a loop over *)
(* its bytes; an action here is one turn of it.  A turn either consumes    *)
(* its byte, or resets the parser and ends the call before this byte       *)
(* (Refuse).                                                               *)
(***************************************************************************)
EXTENDS RsHelpers

CONSTANTS
  BufferSize,  \* template parameter
  CRC(_)       \* template parameter: the checksum of a sequence of bytes

ASSUME BufferAssumption == BufferSize \in Nat \ {0}

VARIABLES
  parserState,
  buffer,      \* the first position bytes of buffer
  message      \* type and chunkSize

parserVars == <<parserState, buffer, message>>

State == {"Idle", "Header", "ConstPayload", "VolatilePayload", "Crc", "Done"}

kPreambl == 82

position == Len(buffer)

NoMessage == [type |-> 0, chunkSize |-> 0]

InitParser == parserState = "Idle" /\ buffer = <<>> /\ message = NoMessage

Reset == parserState' = "Idle" /\ buffer' = <<>> /\ message' = NoMessage

Type == TypeOf(message.type)

Base == getVolatileMessageBaseSize(Type)

\* (mutant) The end of the buffer is not looked at.
NeverFull == FALSE

\* The check after the switch, for a turn that stores a byte.
Full == position + 1 >= BufferSize

\* The byte is stored and the state becomes next.
Store(v, next) ==
  /\ ~ Full
  /\ buffer' = Append(buffer, v) /\ parserState' = next

-----------------------------------------------------------------------------

\* The byte is the length of the payload and is more than is allowed.
TooLong(v) ==
  /\ parserState = "VolatilePayload" /\ position + 1 = Base
  /\ v > getVolatileMessageMaxPayloadSize(Type)

Scan(v) ==
  /\ parserState = "Idle"
  /\ parserState' = IF v = kPreambl THEN "Header" ELSE "Idle"
  /\ UNCHANGED <<buffer, message>>

HeaderByte(v) ==
  /\ parserState = "Header" /\ position + 1 < HeaderSize
  /\ Store(v, "Header")
  /\ message' = IF position + 1 = TypeAt THEN [message EXCEPT !.type = v] ELSE message

\* The last byte of the header, of a type that exists.
HeaderEnd(v) ==
  /\ parserState = "Header" /\ position + 1 = HeaderSize /\ message.type < TypeEnd
  /\ Store(v, IF IsConst(Type) THEN "ConstPayload" ELSE "VolatilePayload")
  /\ UNCHANGED message

\* (mutant) The payload is taken for complete one byte late.
ConstByteLate(v) ==
  /\ parserState = "ConstPayload"
  /\ Store(v, IF position = getMessageSizeByType(Type) THEN "Crc" ELSE "ConstPayload")
  /\ UNCHANGED message

ConstByte(v) ==
  /\ parserState = "ConstPayload"
  /\ Store(v, IF position + 1 = getMessageSizeByType(Type) THEN "Crc" ELSE "ConstPayload")
  /\ UNCHANGED message

\* The fixed part of a message of variable size; its last byte is the length.
BaseByte(v) ==
  /\ parserState = "VolatilePayload" /\ position < Base /\ ~ TooLong(v)
  /\ Store(v, "VolatilePayload")
  /\ message' = IF position + 1 = Base THEN [message EXCEPT !.chunkSize = v] ELSE message

\* Its payload.  A length of 0 is never reached.
PayloadByte(v) ==
  /\ parserState = "VolatilePayload" /\ position >= Base
  /\ position < Base + getVolatileMessageMaxPayloadSize(Type)
  /\ Store(v, IF position + 1 = Base + message.chunkSize THEN "Crc" ELSE "VolatilePayload")
  /\ UNCHANGED message

\* Beyond the longest payload no branch is left: the byte is consumed and
\* nothing happens.
Swallow ==
  /\ parserState = "VolatilePayload"
  /\ position >= Base + getVolatileMessageMaxPayloadSize(Type)
  /\ UNCHANGED parserVars

\* (mutant) Whatever comes in place of the checksum is taken for it.
CrcByteUnchecked(v) ==
  parserState = "Crc" /\ parserState' = "Done" /\ UNCHANGED <<buffer, message>>

\* (mutant) After a wrong checksum the parser is not reset.
CrcByteStaying(v) ==
  /\ parserState = "Crc"
  /\ parserState' = IF CRC(buffer) = v THEN "Done" ELSE "Crc"
  /\ UNCHANGED <<buffer, message>>

CrcByte(v) ==
  /\ parserState = "Crc"
  /\ \/ CRC(buffer) = v /\ parserState' = "Done" /\ UNCHANGED <<buffer, message>>
     \/ CRC(buffer) # v /\ Reset

Consume(v) == Scan(v) \/ HeaderByte(v) \/ HeaderEnd(v) \/ ConstByte(v)
                \/ BaseByte(v) \/ PayloadByte(v) \/ Swallow \/ CrcByte(v)

\* The turn stores its byte, if there is a branch for it.
Storing ==
  \/ parserState \in {"Header", "ConstPayload"}
  \/ parserState = "VolatilePayload" /\ position < Base + getVolatileMessageMaxPayloadSize(Type)

UnknownType ==
  parserState = "Header" /\ position + 1 = HeaderSize /\ message.type >= TypeEnd

Refuse(v) == (UnknownType \/ TooLong(v) \/ (Storing /\ Full)) /\ Reset

\* create: a message as it goes over the line.
Create(data) == <<kPreambl>> \o data \o <<CRC(data)>>

-----------------------------------------------------------------------------
(* What a message is, by the bytes in it.                                  *)

\* getReceiverFromPayload
ReceiverOf(m) == m[1]

\* m is as long as its type, or the length in it, says.
Whole(m) ==
  /\ Len(m) > HeaderSize /\ m[TypeAt] < TypeEnd
  /\ LET type == TypeOf(m[TypeAt])
         base == getVolatileMessageBaseSize(type)
     IN  IF IsConst(type) THEN Len(m) = getMessageSizeByType(type)
         ELSE Len(m) > base /\ Len(m) = base + m[base]

ParserTypeOK ==
  /\ parserState \in State
  /\ buffer \in Seq(Byte) /\ position < BufferSize
  /\ message \in [type : Byte, chunkSize : Byte]

=============================================================================
