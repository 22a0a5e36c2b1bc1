-------------------------- MODULE MultiNode_proofs --------------------------
(***************************************************************************)
(* Theorems about the parser and its nodes, for every buffer size, longest *)
(* payload, checksum, set of nodes and every sequence of bytes.            *)
(***************************************************************************)
EXTENDS MultiNode, TLAPS

\* What is in the buffer is the beginning of a message of the type that was
\* read, and a whole one when the checksum is awaited.
Begins ==
  /\ parserState = "Idle" => buffer = <<>>
  /\ parserState = "Header" =>
       Len(buffer) < HeaderSize /\ (Len(buffer) >= TypeAt => message.type = buffer[TypeAt])
  /\ parserState \in {"ConstPayload", "VolatilePayload"} =>
       Len(buffer) >= HeaderSize /\ message.type < TypeEnd /\ message.type = buffer[TypeAt]
  /\ parserState = "ConstPayload" =>
       IsConst(Type) /\ Len(buffer) < getMessageSizeByType(Type)
  /\ parserState = "VolatilePayload" =>
       ~ IsConst(Type) /\ (Len(buffer) >= Base => message.chunkSize = buffer[Base])
  /\ parserState \in {"Crc", "Done"} => Whole(buffer)

InputOK ==
  /\ slice \in Seq(Byte)
  /\ got \in [Uids -> Seq(Seq(Byte))]

IInv == ParserTypeOK /\ Begins /\ InputOK /\ ProcessesWhole

-----------------------------------------------------------------------------

\* Every type has a fixed size above that of the header, or a base size.
LEMMA Sizes ==
  ASSUME NEW b \in Byte, b < TypeEnd
  PROVE  /\ getMessageSizeByType(TypeOf(b)) \in Nat
         /\ getVolatileMessageBaseSize(TypeOf(b)) \in Nat
         /\ IsConst(TypeOf(b)) => getMessageSizeByType(TypeOf(b)) > HeaderSize
         /\ ~ IsConst(TypeOf(b)) => getVolatileMessageBaseSize(TypeOf(b)) > HeaderSize
<1>1. b \in 0 .. 12
  BY DEF Byte, TypeEnd
<1>2. /\ TypeOf(0) = "Probe" /\ TypeOf(1) = "Ack" /\ TypeOf(2) = "Command"
      /\ TypeOf(3) = "BlobRequest" /\ TypeOf(4) = "BlobAnswer"
      /\ TypeOf(5) = "DeviceInfoReq" /\ TypeOf(6) = "DeviceInfoAnw"
      /\ TypeOf(7) = "FileWriteRequest" /\ TypeOf(8) = "FileWriteChunk"
      /\ TypeOf(9) = "FileWriteFinalize" /\ TypeOf(10) = "HealthReq"
      /\ TypeOf(11) = "HealthAnw" /\ TypeOf(12) = "Reboot"
  BY DEF TypeOf, Types
<1>3. TypeOf(b) \in {"Probe", "Ack", "Command", "BlobRequest", "BlobAnswer",
                     "DeviceInfoReq", "DeviceInfoAnw", "FileWriteRequest",
                     "FileWriteChunk", "FileWriteFinalize", "HealthReq",
                     "HealthAnw", "Reboot"}
  BY <1>1, <1>2
<1>. QED
  BY <1>3 DEF getMessageSizeByType, getVolatileMessageBaseSize, IsConst, HeaderSize

\* The empty buffer of a parser that was reset.
LEMMA ResetOK ==
  ASSUME Reset PROVE ParserTypeOK' /\ Begins'
<1>1. NoMessage \in [type : Byte, chunkSize : Byte]
  BY DEF NoMessage, Byte
<1>2. ParserTypeOK'
  BY <1>1, BufferAssumption DEF Reset, ParserTypeOK, State, position
<1>3. Begins'
  BY DEF Reset, Begins
<1>. QED
  BY <1>2, <1>3

\* What Store does to the buffer.
LEMMA StoreOK ==
  ASSUME ParserTypeOK, NEW v \in Byte, NEW next \in State, Store(v, next)
  PROVE  /\ buffer' \in Seq(Byte) /\ Len(buffer') = Len(buffer) + 1
         /\ Len(buffer') < BufferSize
         /\ \A i \in 1 .. Len(buffer) : buffer'[i] = buffer[i]
         /\ buffer'[Len(buffer) + 1] = v
         /\ parserState' = next
  BY BufferAssumption DEF ParserTypeOK, Store, Full, position

-----------------------------------------------------------------------------
(* Each turn of the loop keeps Begins.                                     *)

Parsing == ParserTypeOK /\ Begins

LEMMA ScanOK ==
  ASSUME Parsing, NEW v \in Byte, Scan(v) PROVE Parsing'
  BY DEF Parsing, ParserTypeOK, Begins, Scan, State, position, HeaderSize, TypeAt

LEMMA HeaderByteOK ==
  ASSUME Parsing, NEW v \in Byte, HeaderByte(v) PROVE Parsing'
<1>1. /\ parserState = "Header" /\ Len(buffer) + 1 < 4 /\ Store(v, "Header")
      /\ message' = IF Len(buffer) + 1 = 3 THEN [message EXCEPT !.type = v] ELSE message
  BY DEF HeaderByte, position, HeaderSize, TypeAt
<1>2. /\ buffer' \in Seq(Byte) /\ Len(buffer') = Len(buffer) + 1
      /\ Len(buffer') < BufferSize
      /\ \A i \in 1 .. Len(buffer) : buffer'[i] = buffer[i]
      /\ buffer'[Len(buffer) + 1] = v
      /\ parserState' = "Header"
  BY <1>1, StoreOK DEF Parsing, State
<1>3. ParserTypeOK'
  BY <1>1, <1>2 DEF Parsing, ParserTypeOK, State, position
<1>4. Len(buffer) \in Nat /\ (Len(buffer) >= 3 => message.type = buffer[3])
  BY <1>1 DEF Parsing, ParserTypeOK, Begins, TypeAt
<1>5. Len(buffer') >= 3 => message'.type = buffer'[3]
  BY <1>1, <1>2, <1>4 DEF Parsing, ParserTypeOK
<1>6. Begins'
  BY <1>1, <1>2, <1>4, <1>5 DEF Begins, HeaderSize, TypeAt
<1>. QED
  BY <1>3, <1>6 DEF Parsing

LEMMA HeaderEndOK ==
  ASSUME Parsing, NEW v \in Byte, HeaderEnd(v) PROVE Parsing'
<1>. DEFINE next == IF IsConst(Type) THEN "ConstPayload" ELSE "VolatilePayload"
<1>1. /\ parserState = "Header" /\ Len(buffer) + 1 = 4 /\ message.type < TypeEnd
      /\ Store(v, next) /\ message' = message
  BY DEF HeaderEnd, position, HeaderSize
<1>2. next \in State
  BY DEF State
<1>3. /\ buffer' \in Seq(Byte) /\ Len(buffer') = Len(buffer) + 1
      /\ Len(buffer') < BufferSize
      /\ \A i \in 1 .. Len(buffer) : buffer'[i] = buffer[i]
      /\ buffer'[Len(buffer) + 1] = v
      /\ parserState' = next
  BY <1>1, <1>2, StoreOK DEF Parsing
<1>4. ParserTypeOK'
  BY <1>1, <1>2, <1>3 DEF Parsing, ParserTypeOK, position
<1>5. Len(buffer) \in Nat /\ message.type = buffer[3] /\ message.type \in Byte
  BY <1>1 DEF Parsing, ParserTypeOK, Begins, TypeAt
<1>6. message'.type = buffer'[3] /\ Len(buffer') = 4
  BY <1>1, <1>3, <1>5
<1>7. Type' = Type /\ Base' = Base
  BY <1>1 DEF Type, Base
<1>8. /\ IsConst(Type) => getMessageSizeByType(Type) > 4 /\ getMessageSizeByType(Type) \in Nat
      /\ ~ IsConst(Type) => Base > 4 /\ Base \in Nat
  BY <1>1, <1>5, Sizes DEF Type, Base, HeaderSize
<1>9. Begins'
  BY <1>1, <1>3, <1>5, <1>6, <1>7, <1>8 DEF Begins, HeaderSize, TypeAt
<1>. QED
  BY <1>4, <1>9 DEF Parsing

LEMMA ConstByteOK ==
  ASSUME Parsing, NEW v \in Byte, ConstByte(v) PROVE Parsing'
<1>. DEFINE size == getMessageSizeByType(Type)
            next == IF Len(buffer) + 1 = size THEN "Crc" ELSE "ConstPayload"
<1>1. parserState = "ConstPayload" /\ Store(v, next) /\ message' = message
  BY DEF ConstByte, position
<1>2. next \in State
  BY DEF State
<1>3. /\ buffer' \in Seq(Byte) /\ Len(buffer') = Len(buffer) + 1
      /\ Len(buffer') < BufferSize
      /\ \A i \in 1 .. Len(buffer) : buffer'[i] = buffer[i]
      /\ parserState' = next
  BY <1>1, <1>2, StoreOK DEF Parsing
<1>4. ParserTypeOK'
  BY <1>1, <1>2, <1>3 DEF Parsing, ParserTypeOK, position
<1>5. /\ Len(buffer) \in Nat /\ Len(buffer) >= 4 /\ IsConst(Type) /\ Len(buffer) < size
      /\ message.type < TypeEnd /\ message.type = buffer[3] /\ message.type \in Byte
  BY <1>1 DEF Parsing, ParserTypeOK, Begins, HeaderSize, TypeAt
<1>6. size \in Nat
  BY <1>5, Sizes DEF Type
<1>7. message'.type = buffer'[3] /\ Type' = Type /\ size' = size
  BY <1>1, <1>3, <1>5 DEF Type
<1>8. CASE Len(buffer) + 1 = size
  <2>1. Whole(buffer')
    BY <1>1, <1>3, <1>5, <1>6, <1>7, <1>8 DEF Whole, Type, HeaderSize, TypeAt
  <2>2. parserState' = "Crc"
    BY <1>3, <1>8
  <2>. QED
    BY <1>4, <2>1, <2>2 DEF Parsing, Begins, Whole
<1>9. CASE Len(buffer) + 1 # size
  BY <1>1, <1>3, <1>4, <1>5, <1>6, <1>7, <1>9 DEF Parsing, Begins, HeaderSize, TypeAt
<1>. QED
  BY <1>8, <1>9

LEMMA BaseByteOK ==
  ASSUME Parsing, NEW v \in Byte, BaseByte(v) PROVE Parsing'
<1>1. /\ parserState = "VolatilePayload" /\ Len(buffer) < Base
      /\ Store(v, "VolatilePayload")
      /\ message' = IF Len(buffer) + 1 = Base THEN [message EXCEPT !.chunkSize = v]
                                              ELSE message
  BY DEF BaseByte, position
<1>2. /\ buffer' \in Seq(Byte) /\ Len(buffer') = Len(buffer) + 1
      /\ Len(buffer') < BufferSize
      /\ \A i \in 1 .. Len(buffer) : buffer'[i] = buffer[i]
      /\ buffer'[Len(buffer) + 1] = v
      /\ parserState' = "VolatilePayload"
  BY <1>1, StoreOK DEF Parsing, State
<1>3. ParserTypeOK'
  BY <1>1, <1>2 DEF Parsing, ParserTypeOK, State, position
<1>4. /\ Len(buffer) \in Nat /\ Len(buffer) >= 4 /\ ~ IsConst(Type)
      /\ message.type < TypeEnd /\ message.type = buffer[3] /\ message.type \in Byte
  BY <1>1 DEF Parsing, ParserTypeOK, Begins, HeaderSize, TypeAt
<1>5. Base \in Nat
  BY <1>4, Sizes DEF Type, Base
<1>6. message'.type = message.type
  BY <1>1 DEF Parsing, ParserTypeOK
<1>7. message'.type = buffer'[3] /\ Type' = Type /\ Base' = Base
  BY <1>2, <1>4, <1>6 DEF Type, Base
<1>8. Len(buffer') >= Base' => message'.chunkSize = buffer'[Base']
  <2>1. CASE Len(buffer) + 1 = Base
    BY <1>1, <1>2, <1>7, <2>1 DEF Parsing, ParserTypeOK
  <2>2. CASE Len(buffer) + 1 # Base
    BY <1>1, <1>2, <1>4, <1>5, <1>7, <2>2
  <2>. QED
    BY <2>1, <2>2
<1>9. Begins'
  BY <1>2, <1>4, <1>6, <1>7, <1>8 DEF Begins, HeaderSize, TypeAt
<1>. QED
  BY <1>3, <1>9 DEF Parsing

LEMMA PayloadByteOK ==
  ASSUME Parsing, NEW v \in Byte, PayloadByte(v) PROVE Parsing'
<1>. DEFINE next == IF Len(buffer) + 1 = Base + message.chunkSize
                    THEN "Crc" ELSE "VolatilePayload"
<1>1. /\ parserState = "VolatilePayload" /\ Len(buffer) >= Base
      /\ Store(v, next) /\ message' = message
  BY DEF PayloadByte, position
<1>2. next \in State
  BY DEF State
<1>3. /\ buffer' \in Seq(Byte) /\ Len(buffer') = Len(buffer) + 1
      /\ Len(buffer') < BufferSize
      /\ \A i \in 1 .. Len(buffer) : buffer'[i] = buffer[i]
      /\ parserState' = next
  BY <1>1, <1>2, StoreOK DEF Parsing
<1>4. ParserTypeOK'
  BY <1>1, <1>2, <1>3 DEF Parsing, ParserTypeOK, position
<1>5. /\ Len(buffer) \in Nat /\ Len(buffer) >= 4 /\ ~ IsConst(Type)
      /\ message.type < TypeEnd /\ message.type = buffer[3] /\ message.type \in Byte
      /\ message.chunkSize = buffer[Base]
  BY <1>1 DEF Parsing, ParserTypeOK, Begins, HeaderSize, TypeAt
<1>6. Base \in Nat /\ Base > 4
  BY <1>5, Sizes DEF Type, Base, HeaderSize
<1>7. /\ message'.type = buffer'[3] /\ message'.chunkSize = buffer'[Base]
      /\ Type' = Type /\ Base' = Base
  BY <1>1, <1>3, <1>5, <1>6 DEF Type, Base
<1>8. CASE Len(buffer) + 1 = Base + message.chunkSize
  <2>1. Whole(buffer')
    BY <1>1, <1>3, <1>5, <1>6, <1>7, <1>8 DEF Whole, Type, Base, HeaderSize, TypeAt
  <2>2. parserState' = "Crc"
    BY <1>3, <1>8
  <2>. QED
    BY <1>4, <2>1, <2>2 DEF Parsing, Begins, Whole
<1>9. CASE Len(buffer) + 1 # Base + message.chunkSize
  BY <1>1, <1>3, <1>4, <1>5, <1>6, <1>7, <1>9 DEF Parsing, Begins, HeaderSize, TypeAt
<1>. QED
  BY <1>8, <1>9

LEMMA CrcByteOK ==
  ASSUME Parsing, NEW v \in Byte, CrcByte(v) PROVE Parsing'
<1>1. CASE Reset
  BY <1>1, ResetOK DEF Parsing
<1>2. CASE parserState' = "Done" /\ UNCHANGED <<buffer, message>>
  <2>1. Whole(buffer)
    BY DEF CrcByte, Parsing, Begins
  <2>. QED
    BY <1>2, <2>1 DEF Parsing, ParserTypeOK, Begins, State, position, Whole
<1>. QED
  BY <1>1, <1>2 DEF CrcByte

LEMMA ConsumeOK ==
  ASSUME Parsing, NEW v \in Byte, Consume(v) PROVE Parsing'
<1>1. CASE Swallow
  BY <1>1 DEF Swallow, parserVars, Parsing, ParserTypeOK, Begins, Type, Base, position, Whole
<1>. QED
  BY <1>1, ScanOK, HeaderByteOK, HeaderEndOK, ConstByteOK, BaseByteOK, PayloadByteOK,
     CrcByteOK DEF Consume

-----------------------------------------------------------------------------
(* Each step of the device keeps the invariant.                            *)

LEMMA InputInit == InitInput => IInv
<1>. SUFFICES ASSUME InitInput PROVE IInv
  OBVIOUS
<1>1. ParserTypeOK /\ Begins
  BY BufferAssumption
  DEF InitInput, InitParser, NoMessage, ParserTypeOK, Begins, State, Byte, position
<1>2. InputOK /\ ProcessesWhole
  BY DEF InitInput, InputOK, ProcessesWhole
<1>. QED
  BY <1>1, <1>2 DEF IInv

\* A parser that is left alone.
LEMMA SameParser ==
  ASSUME Parsing, UNCHANGED parserVars PROVE Parsing'
  BY DEF parserVars, Parsing, ParserTypeOK, Begins, Type, Base, position, Whole

LEMMA RouteMessageOK ==
  ASSUME IInv, RouteMessage PROVE IInv'
<1>1. Whole(buffer) /\ buffer \in Seq(Byte)
  BY DEF IInv, Begins, RouteMessage, ParserTypeOK
<1>2. got \in [Uids -> Seq(Seq(Byte))] /\ slice' = slice /\ slice \in Seq(Byte)
  BY DEF IInv, InputOK, RouteMessage
<1>3. got' = [u \in Uids |-> IF Routes(u, buffer) THEN Append(got[u], buffer) ELSE got[u]]
  BY DEF RouteMessage
<1>4. InputOK'
  BY <1>1, <1>2, <1>3 DEF InputOK
<1>5. ASSUME NEW u \in Uids, NEW i \in DOMAIN got'[u]
      PROVE  Whole(got'[u][i]) /\ Addressed(u, got'[u][i])
  <2>1. /\ got[u] \in Seq(Seq(Byte))
        /\ \A j \in DOMAIN got[u] : Whole(got[u][j]) /\ Addressed(u, got[u][j])
    BY <1>2 DEF IInv, ProcessesWhole
  <2>2. CASE Routes(u, buffer)
    <3>1. got'[u] = Append(got[u], buffer)
      BY <1>3, <2>2
    <3>2. Addressed(u, buffer)
      BY <2>2 DEF Routes, ReceiverOf, Addressed
    <3>3. i \in DOMAIN got[u] \/ got'[u][i] = buffer
      BY <1>1, <2>1, <3>1
    <3>4. i \in DOMAIN got[u] => got'[u][i] = got[u][i]
      BY <1>1, <2>1, <3>1
    <3>. QED
      BY <1>1, <2>1, <3>2, <3>3, <3>4
  <2>3. CASE ~ Routes(u, buffer)
    BY <1>3, <2>1, <2>3
  <2>. QED
    BY <2>2, <2>3
<1>6. ProcessesWhole'
  BY <1>5 DEF ProcessesWhole
<1>. QED
  BY <1>4, <1>6, ResetOK DEF IInv, RouteMessage

LEMMA InputStep ==
  ASSUME IInv, [InputNext]_inputVars PROVE IInv'
<1>. USE DEF IInv
<1>1. CASE ParseByte
  <2>1. Head(slice) \in Byte /\ Tail(slice) \in Seq(Byte)
    BY <1>1 DEF ParseByte, InputOK
  <2>2. Parsing'
    BY <1>1, <2>1, ConsumeOK DEF ParseByte, Parsing
  <2>3. InputOK' /\ ProcessesWhole'
    BY <1>1, <2>1 DEF ParseByte, InputOK, ProcessesWhole
  <2>. QED
    BY <2>2, <2>3 DEF Parsing
<1>2. CASE ParseAgain
  BY <1>2, ResetOK DEF ParseAgain, Refuse, InputOK, ProcessesWhole
<1>3. CASE DropSlice
  BY <1>3, ResetOK DEF DropSlice, Refuse, InputOK, ProcessesWhole
<1>4. CASE RouteMessage
  BY <1>4, RouteMessageOK
<1>5. CASE \E bytes \in Seq(Byte) : Update(bytes)
  <2>1. Parsing'
    BY <1>5, SameParser DEF Update, Parsing
  <2>2. InputOK' /\ ProcessesWhole'
    BY <1>5 DEF Update, InputOK, ProcessesWhole
  <2>. QED
    BY <2>1, <2>2 DEF Parsing
<1>6. CASE UNCHANGED inputVars
  <2>1. Parsing'
    BY <1>6, SameParser DEF inputVars, parserVars, Parsing
  <2>2. InputOK' /\ ProcessesWhole'
    BY <1>6 DEF inputVars, InputOK, ProcessesWhole
  <2>. QED
    BY <2>1, <2>2 DEF Parsing
<1>. QED
  BY <1>1, <1>2, <1>3, <1>4, <1>5, <1>6 DEF InputNext, Input

\* What the parser keeps, between any two bytes.
THEOREM InputInvariant == InputSpec => []IInv
<1>1. IInv /\ [InputNext]_inputVars => IInv'
  BY InputStep
<1>. QED
  BY InputInit, <1>1, PTL DEF InputSpec

\* RsParser.hpp:49-160: whatever bytes arrive, no byte is stored beyond the
\* buffer, and the type and the length kept are bytes that were received.
THEOREM ParserTypeCorrect == InputSpec => []ParserTypeOK
<1>1. IInv => ParserTypeOK
  BY DEF IInv
<1>. QED
  BY InputInvariant, <1>1, PTL

\* RsHandler.hpp:512-600: whatever bytes arrive, every message a node casts to
\* the structure of its type is as long as that structure and the length in
\* it, and is addressed to that node or to all.
THEOREM WholeMessages == InputSpec => []ProcessesWhole
<1>1. IInv => ProcessesWhole
  BY DEF IInv
<1>. QED
  BY InputInvariant, <1>1, PTL

=============================================================================
