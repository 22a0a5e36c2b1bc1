-------------------------- MODULE SerialLine_proofs --------------------------
(***************************************************************************)
(* The line delivers bytes, whatever it does to them: what is proved of a  *)
(* device under any input holds of the one at its end.  And as long as the *)
(* line does nothing to them the parser goes from message to message: what *)
(* is left on the way is the rest of what was sent.  After damage it is    *)
(* astray only as long as its buffer has room.                             *)
(***************************************************************************)
EXTENDS SerialLine, MultiNode_proofs, SequenceTheorems

Bytewise == wire \in Seq(Byte)

\* A message on the line is a sequence of bytes.
LEMMA CreateType ==
  ASSUME NEW m \in Messages
  PROVE  Create(m) \in Seq(Byte)
<1>1. m \in Seq(Byte) /\ CRC(m) \in Byte
  BY MessageAssumption
<1>2. kPreambl \in Byte
  BY DEF kPreambl, Byte
<1>3. <<kPreambl>> \in Seq(Byte) /\ <<CRC(m)>> \in Seq(Byte)
  BY <1>1, <1>2
<1>4. <<kPreambl>> \o m \in Seq(Byte)
  BY <1>1, <1>3, ConcatProperties
<1> QED
  BY <1>1, <1>3, <1>4, ConcatProperties DEF Create

\* So is one that has lost a byte, or had one changed.
LEMMA DamagedType ==
  ASSUME NEW s \in Seq(Byte), NEW t \in Lost(s) \cup Changed(s)
  PROVE  t \in Seq(Byte)
<1>1. CASE t \in Lost(s)
  <2>1. PICK i \in DOMAIN s : t = SubSeq(s, 1, i - 1) \o SubSeq(s, i + 1, Len(s))
    BY <1>1 DEF Lost, RemoveAt
  <2>2. i \in 1 .. Len(s) /\ Len(s) \in Nat
    BY LenProperties
  <2>3. SubSeq(s, 1, i - 1) \in Seq(Byte) /\ SubSeq(s, i + 1, Len(s)) \in Seq(Byte)
    BY <2>2, SubSeqProperties
  <2> QED
    BY <2>1, <2>3, ConcatProperties
<1>2. CASE t \in Changed(s)
  <2>1. PICK i \in DOMAIN s, v \in Noise : t = [s EXCEPT ![i] = v]
    BY <1>2 DEF Changed, ReplaceAt
  <2>2. v \in Byte /\ i \in 1 .. Len(s)
    BY MessageAssumption, LenProperties
  <2> QED
    BY <2>1, <2>2, ExceptSeq
<1> QED
  BY <1>1, <1>2

\* A step of the line gives the device bytes, or does not concern it.
LEMMA LineStep ==
  ASSUME Bytewise, [Next]_vars
  PROVE  Bytewise' /\ [InputNext]_inputVars
<1>1. ASSUME NEW m \in Messages, Send(m)
      PROVE  Bytewise' /\ UNCHANGED inputVars
  BY <1>1, CreateType, ConcatProperties DEF Send, Bytewise
<1>2. ASSUME NEW m \in Messages, SendDamaged(m)
      PROVE  Bytewise' /\ UNCHANGED inputVars
  <2>1. PICK s \in Lost(Create(m)) \cup Changed(Create(m)) : wire' = wire \o s
    BY <1>2 DEF SendDamaged
  <2>2. s \in Seq(Byte)
    BY <2>1, CreateType, DamagedType
  <2> QED
    BY <1>2, <2>1, <2>2, ConcatProperties DEF SendDamaged, Bytewise
<1>3. ASSUME NEW n \in 1 .. Len(wire), Receive(n)
      PROVE  Bytewise' /\ InputNext
  <2>1. Len(wire) \in Nat /\ n \in Nat /\ n <= Len(wire)
    BY LenProperties DEF Bytewise
  <2>2. SubSeq(wire, 1, n) \in Seq(Byte) /\ SubSeq(wire, n + 1, Len(wire)) \in Seq(Byte)
    BY <2>1, SubSeqProperties DEF Bytewise
  <2> QED
    BY <1>3, <2>2 DEF Receive, Bytewise, InputNext
<1>4. CASE Input /\ UNCHANGED <<wire, sent, faults, clean>>
  BY <1>4 DEF Bytewise, InputNext
<1>5. CASE UNCHANGED vars
  BY <1>5 DEF vars, inputVars, Bytewise
<1> QED
  BY <1>1, <1>2, <1>3, <1>4, <1>5 DEF Next

\* SerialLine implements MultiNode: a line that loses and changes bytes is one of the
\* inputs that MultiNode allows.
THEOREM LineIsInput == Spec => InputSpec
<1>1. Init => Bytewise /\ InitInput
  BY DEF Init, Bytewise
<1>2. Bytewise /\ [Next]_vars => Bytewise' /\ [InputNext]_inputVars
  BY LineStep
<1> QED
  BY <1>1, <1>2, PTL DEF Spec, InputSpec

\* At the end of a line that damages messages the parser never stores a byte behind its
\* buffer, and no node processes a message that is shorter or longer than it says, or
\* that is for another.
THEOREM LineCorrect == Spec => [](ParserTypeOK /\ ProcessesWhole)
BY LineIsInput, ParserTypeCorrect, WholeMessages, PTL

-----------------------------------------------------------------------------
(* The parser on an undamaged message.                                      *)

\* What is known of a message that may be sent.
Good(m) ==
  /\ m \in Seq(Byte) /\ CRC(m) \in Byte /\ Whole(m) /\ Len(m) + 2 <= BufferSize
  /\ LET type == TypeOf(m[TypeAt])
     IN  ~ IsConst(type) => m[getVolatileMessageBaseSize(type)] <= MaxPayload

LEMMA SendableGood ==
  ASSUME NEW m \in Messages, Sendable(m) PROVE Good(m)
  BY MessageAssumption DEF Sendable, AnswerFits, Good

\* The parser is within m: what it has stored is the beginning of it.
Reading(m) ==
  /\ parserState # "Idle"
  /\ parserState \in {"Crc", "Done"} => buffer = m
  /\ parserState \notin {"Crc", "Done"} =>
       Len(buffer) < Len(m) /\ \A i \in 1 .. Len(buffer) : buffer[i] = m[i]

\* The next byte of m is stored.
LEMMA StoreNext ==
  ASSUME NEW m, Good(m), Parsing, Reading(m), parserState \notin {"Crc", "Done"},
         NEW next \in State, Store(m[Len(buffer) + 1], next)
  PROVE  /\ Len(buffer') = Len(buffer) + 1 /\ parserState' = next
         /\ \A i \in 1 .. Len(buffer') : buffer'[i] = m[i]
         /\ Len(buffer') = Len(m) => buffer' = m
<1>1. /\ m \in Seq(Byte) /\ buffer \in Seq(Byte) /\ Len(buffer) < Len(m)
      /\ \A i \in 1 .. Len(buffer) : buffer[i] = m[i]
  BY DEF Good, Reading, Parsing, ParserTypeOK
<1>2. m[Len(buffer) + 1] \in Byte
  BY <1>1, LenProperties, ElementOfSeq
<1>3. /\ buffer' \in Seq(Byte) /\ Len(buffer') = Len(buffer) + 1
      /\ \A i \in 1 .. Len(buffer) : buffer'[i] = buffer[i]
      /\ buffer'[Len(buffer) + 1] = m[Len(buffer) + 1]
      /\ parserState' = next
  BY <1>2, StoreOK DEF Parsing
<1>4. \A i \in 1 .. Len(buffer') : buffer'[i] = m[i]
  BY <1>1, <1>3, LenProperties
<1>5. Len(buffer') = Len(m) => buffer' = m
  BY <1>1, <1>3, <1>4, SeqEqual
<1> QED
  BY <1>3, <1>4, <1>5

\* The type and the length that were read are those of m.
LEMMA ReadingType ==
  ASSUME NEW m, Good(m), Parsing, Reading(m)
  PROVE  LET type == TypeOf(m[TypeAt])
             base == getVolatileMessageBaseSize(type)
         IN  /\ Len(buffer) \in Nat /\ Len(m) \in Nat /\ Len(m) > HeaderSize
             /\ m[TypeAt] < TypeEnd
             /\ base \in Nat
             /\ IsConst(type) => Len(m) = getMessageSizeByType(type)
             /\ ~ IsConst(type) => /\ base > HeaderSize /\ m[base] \in Nat \ {0}
                                   /\ m[base] <= MaxPayload /\ Len(m) = base + m[base]
                                   /\ getVolatileMessageMaxPayloadSize(type) = MaxPayload
             /\ parserState = "Header" =>
                  /\ Len(buffer) < HeaderSize
                  /\ Len(buffer) + 1 = HeaderSize => message.type = m[TypeAt]
             /\ parserState \in {"ConstPayload", "VolatilePayload"} =>
                  /\ Len(buffer) >= HeaderSize /\ message.type = m[TypeAt] /\ Type = type
                  /\ Len(buffer) < Len(m)
                  /\ parserState = "ConstPayload" <=> IsConst(type)
             /\ parserState = "VolatilePayload" =>
                  Base = base /\ (Len(buffer) >= base => message.chunkSize = m[base])
<1> DEFINE type == TypeOf(m[TypeAt])
           base == getVolatileMessageBaseSize(type)
<1>1. /\ m \in Seq(Byte) /\ buffer \in Seq(Byte) /\ Whole(m)
      /\ ~ IsConst(type) => m[base] <= MaxPayload
  BY DEF Good, Parsing, ParserTypeOK
<1>2. Len(buffer) \in Nat /\ Len(m) \in Nat
  BY <1>1, LenProperties
<1>3. /\ Len(m) > HeaderSize /\ m[TypeAt] < TypeEnd
      /\ IsConst(type) => Len(m) = getMessageSizeByType(type)
      /\ ~ IsConst(type) => Len(m) > base /\ Len(m) = base + m[base]
  BY <1>1 DEF Whole
<1>4. m[TypeAt] \in Byte
  BY <1>1, <1>2, <1>3, ElementOfSeq DEF HeaderSize, TypeAt
<1>5. /\ base \in Nat
      /\ ~ IsConst(type) => base > HeaderSize
  BY <1>3, <1>4, Sizes
<1>6. ~ IsConst(type) => /\ m[base] \in Nat \ {0}
                         /\ getVolatileMessageMaxPayloadSize(type) = MaxPayload
  <2> SUFFICES ASSUME ~ IsConst(type) PROVE m[base] \in Nat \ {0} /\ base # 0
    BY DEF getVolatileMessageMaxPayloadSize
  <2> HIDE DEF base
  <2>1. m[base] \in Byte
    BY <1>1, <1>2, <1>3, <1>5, ElementOfSeq DEF HeaderSize
  <2>2. m[base] \in Nat
    BY <2>1 DEF Byte
  <2> QED
    BY <2>2, <1>2, <1>3, <1>5 DEF HeaderSize
<1>7. parserState \notin {"Idle", "Crc", "Done"} =>
        Len(buffer) < Len(m) /\ \A i \in 1 .. Len(buffer) : buffer[i] = m[i]
  BY DEF Reading
<1>8. parserState = "Header" =>
        /\ Len(buffer) < HeaderSize
        /\ Len(buffer) + 1 = HeaderSize => message.type = m[TypeAt]
  BY <1>2, <1>7 DEF Parsing, Begins, HeaderSize, TypeAt
<1>9. parserState \in {"ConstPayload", "VolatilePayload"} =>
        Len(buffer) >= HeaderSize /\ message.type = m[TypeAt] /\ Type = type
  BY <1>2, <1>7 DEF Parsing, Begins, HeaderSize, TypeAt, Type
<1>10. parserState \in {"ConstPayload", "VolatilePayload"} =>
         (parserState = "ConstPayload" <=> IsConst(type))
  BY <1>9 DEF Parsing, Begins
<1>11. parserState = "VolatilePayload" => Base = base
  BY <1>9 DEF Base
<1>12. parserState = "VolatilePayload" /\ Len(buffer) >= base => message.chunkSize = m[base]
  <2> SUFFICES ASSUME parserState = "VolatilePayload", Len(buffer) >= base
               PROVE  message.chunkSize = m[base]
    OBVIOUS
  <2>1. message.chunkSize = buffer[base]
    BY <1>11 DEF Parsing, Begins
  <2>2. base > HeaderSize
    BY <1>5, <1>10
  <2> HIDE DEF base
  <2> QED
    BY <1>2, <1>5, <1>7, <2>1, <2>2 DEF HeaderSize
<1> HIDE DEF type, base
<1>13. /\ Len(buffer) \in Nat /\ Len(m) \in Nat /\ Len(m) > HeaderSize
       /\ m[TypeAt] < TypeEnd
       /\ base \in Nat
       /\ IsConst(type) => Len(m) = getMessageSizeByType(type)
       /\ ~ IsConst(type) => /\ base > HeaderSize /\ m[base] \in Nat \ {0}
                             /\ m[base] <= MaxPayload /\ Len(m) = base + m[base]
                             /\ getVolatileMessageMaxPayloadSize(type) = MaxPayload
  BY <1>1, <1>2, <1>3, <1>5, <1>6
<1>14. /\ parserState \in {"ConstPayload", "VolatilePayload"} =>
            /\ Len(buffer) >= HeaderSize /\ message.type = m[TypeAt] /\ Type = type
            /\ Len(buffer) < Len(m)
            /\ parserState = "ConstPayload" <=> IsConst(type)
       /\ parserState = "VolatilePayload" =>
            Base = base /\ (Len(buffer) >= base => message.chunkSize = m[base])
  BY <1>7, <1>9, <1>10, <1>11, <1>12
<1> QED
  BY <1>8, <1>13, <1>14 DEF type, base

\* A turn that stores the next byte of m.
LEMMA BodyTurn ==
  ASSUME NEW m, Good(m), Parsing, Reading(m), parserState \notin {"Crc", "Done"},
         Consume(m[Len(buffer) + 1])
  PROVE  Reading(m)' /\ Len(buffer') = Len(buffer) + 1 /\ parserState' # "Done"
<1> DEFINE v == m[Len(buffer) + 1]
           type == TypeOf(m[TypeAt])
           base == getVolatileMessageBaseSize(type)
           Stores(next) == /\ next \in State \ {"Idle", "Done"}
                           /\ Store(v, next)
                           /\ next = "Crc" <=> Len(buffer) + 1 = Len(m)
<1>1. ASSUME NEW next, Stores(next)
      PROVE  Reading(m)' /\ Len(buffer') = Len(buffer) + 1 /\ parserState' # "Done"
  <2>1. /\ Len(buffer') = Len(buffer) + 1 /\ parserState' = next
        /\ \A i \in 1 .. Len(buffer') : buffer'[i] = m[i]
        /\ Len(buffer') = Len(m) => buffer' = m
    BY <1>1, StoreNext
  <2>2. Len(buffer) \in Nat /\ Len(m) \in Nat /\ Len(buffer) < Len(m)
    BY LenProperties DEF Reading, Good, Parsing, ParserTypeOK
  <2> QED
    BY <1>1, <2>1, <2>2 DEF Reading
<1>2. /\ Len(buffer) \in Nat /\ Len(m) \in Nat /\ Len(m) > 4
      /\ parserState \notin {"Idle", "Crc", "Done"}
      /\ position = Len(buffer) /\ HeaderSize = 4
  BY ReadingType DEF Reading, HeaderSize, position
<1>3. CASE HeaderByte(v)
  <2>1. Len(buffer) + 1 < 4 /\ Store(v, "Header")
    BY <1>2, <1>3 DEF HeaderByte
  <2>2. Stores("Header")
    BY <1>2, <2>1 DEF State
  <2> QED
    BY <1>1, <2>2
<1>4. CASE HeaderEnd(v)
  <2>1. PICK next \in {"ConstPayload", "VolatilePayload"} :
          Len(buffer) + 1 = 4 /\ Store(v, next)
    BY <1>2, <1>4 DEF HeaderEnd
  <2>2. Stores(next)
    BY <1>2, <2>1 DEF State
  <2> QED
    BY <1>1, <2>2
<1>5. CASE ConstByte(v)
  <2> DEFINE next == IF Len(buffer) + 1 = getMessageSizeByType(Type)
                     THEN "Crc" ELSE "ConstPayload"
  <2>1. parserState = "ConstPayload" /\ Store(v, next)
    BY <1>2, <1>5 DEF ConstByte
  <2>2. Len(m) = getMessageSizeByType(Type)
    BY <2>1, ReadingType
  <2>3. Stores(next)
    BY <2>1, <2>2 DEF State
  <2> QED
    BY <1>1, <2>3
<1>6. CASE BaseByte(v)
  <2>1. parserState = "VolatilePayload" /\ Len(buffer) < Base /\ Store(v, "VolatilePayload")
    BY <1>2, <1>6 DEF BaseByte
  <2>2. Base = base /\ Len(m) = base + m[base] /\ m[base] \in Nat \ {0} /\ base \in Nat
    BY <2>1, ReadingType
  <2> HIDE DEF base
  <2>3. Len(buffer) + 1 < Len(m)
    BY <1>2, <2>1, <2>2
  <2>4. Stores("VolatilePayload")
    BY <2>1, <2>3 DEF State
  <2> QED
    BY <1>1, <2>4
<1>7. CASE PayloadByte(v)
  <2> DEFINE next == IF Len(buffer) + 1 = Base + message.chunkSize
                     THEN "Crc" ELSE "VolatilePayload"
  <2>1. parserState = "VolatilePayload" /\ Len(buffer) >= Base /\ Store(v, next)
    BY <1>2, <1>7 DEF PayloadByte
  <2>2. Len(m) = Base + message.chunkSize
    BY <2>1, ReadingType
  <2>3. Stores(next)
    BY <2>1, <2>2 DEF State
  <2> QED
    BY <1>1, <2>3
<1>8. ~ Scan(v) /\ ~ CrcByte(v)
  BY <1>2 DEF Scan, CrcByte
<1>9. ~ Swallow
  <2> SUFFICES ASSUME Swallow PROVE FALSE
    OBVIOUS
  <2>1. /\ parserState = "VolatilePayload"
        /\ Len(buffer) >= Base + getVolatileMessageMaxPayloadSize(Type)
    BY <1>2 DEF Swallow
  <2>2. /\ Base = base /\ Type = type /\ Len(buffer) < Len(m)
        /\ Len(m) = base + m[base] /\ m[base] \in Nat /\ base \in Nat
        /\ m[base] <= MaxPayload /\ getVolatileMessageMaxPayloadSize(type) = MaxPayload
    BY <2>1, ReadingType
  <2> HIDE DEF base, type
  <2> QED
    BY <1>2, <2>1, <2>2, PayloadAssumption
<1> QED
  BY <1>3, <1>4, <1>5, <1>6, <1>7, <1>8, <1>9 DEF Consume

\* The turn that takes its checksum.
LEMMA CrcTurn ==
  ASSUME NEW m, Reading(m), parserState = "Crc", Consume(CRC(m))
  PROVE  Reading(m)' /\ parserState' = "Done" /\ buffer' = buffer
<1>1. CrcByte(CRC(m))
  BY DEF Consume, Scan, HeaderByte, HeaderEnd, ConstByte, BaseByte, PayloadByte, Swallow
<1>2. buffer = m
  BY DEF Reading
<1>3. parserState' = "Done" /\ buffer' = buffer
  BY <1>1, <1>2 DEF CrcByte
<1> QED
  BY <1>2, <1>3 DEF Reading

\* No byte of m is refused.
LEMMA NoneRefused ==
  ASSUME NEW m, Good(m), Parsing, Reading(m), parserState \notin {"Crc", "Done"}
  PROVE  ~ Refuse(m[Len(buffer) + 1])
<1> DEFINE v == m[Len(buffer) + 1]
           type == TypeOf(m[TypeAt])
           base == getVolatileMessageBaseSize(type)
<1>1. /\ Len(buffer) \in Nat /\ Len(m) \in Nat /\ position = Len(buffer)
      /\ Len(buffer) < Len(m) /\ Len(m) + 2 <= BufferSize
  BY ReadingType DEF position, Reading, Good
<1>2. ~ UnknownType
  <2> SUFFICES ASSUME UnknownType PROVE FALSE
    OBVIOUS
  <2>1. message.type = m[TypeAt] /\ m[TypeAt] < TypeEnd
    BY <1>1, ReadingType DEF UnknownType
  <2>2. message.type \in 0 .. 255
    BY DEF Parsing, ParserTypeOK, Byte
  <2> QED
    BY <2>1, <2>2 DEF UnknownType, TypeEnd
<1>3. ~ TooLong(v)
  <2> SUFFICES ASSUME TooLong(v) PROVE FALSE
    OBVIOUS
  <2>1. /\ parserState = "VolatilePayload" /\ Len(buffer) + 1 = Base
        /\ v > getVolatileMessageMaxPayloadSize(Type)
    BY <1>1 DEF TooLong
  <2>2. /\ Base = base /\ Type = type /\ m[base] \in Nat /\ base \in Nat
        /\ m[base] <= MaxPayload /\ getVolatileMessageMaxPayloadSize(type) = MaxPayload
    BY <2>1, ReadingType
  <2>3. v = m[base]
    BY <2>1, <2>2
  <2> HIDE DEF base, type, v
  <2> QED
    BY <2>1, <2>2, <2>3, PayloadAssumption
<1>4. ~ Full
  BY <1>1, BufferAssumption DEF Full
<1> QED
  BY <1>2, <1>3, <1>4 DEF Refuse

-----------------------------------------------------------------------------
(* What is under way, as long as nothing was damaged.                       *)

\* The bytes that were read or are still on the wire.
Rest == slice \o wire

\* p[i] bytes go before those of the i-th message, k were parsed, and what is left is
\* as it was sent.
Laid(p, k) ==
  /\ k \in Nat /\ p \in [1 .. Len(sent) + 1 -> Nat]
  /\ \A i \in 1 .. Len(sent) : p[i + 1] = p[i] + Len(sent[i]) + 2
  /\ \A i, j \in 1 .. Len(sent) + 1 : i < j => p[i] < p[j]
  /\ p[Len(sent) + 1] = k + Len(Rest)
  /\ \A i \in 1 .. Len(sent) : \A j \in 1 .. Len(sent[i]) + 2 :
       p[i] + j > k => Rest[(p[i] + j) - k] = Create(sent[i])[j]

\* n messages were routed, and the parser is before, or within, the next.
Stands(p, k, n) ==
  /\ n \in 0 .. Len(sent)
  /\ parserState = "Idle" => k = p[n + 1]
  /\ parserState # "Idle" =>
       /\ n < Len(sent) /\ Reading(sent[n + 1])
       /\ k = p[n + 1] + Len(buffer) + (IF parserState = "Done" THEN 2 ELSE 1)

\* Of the first n messages, each node has processed what is for it.
Handed(n) ==
  \A u \in Uids : \E f \in Surjection(DOMAIN got[u], For(u) \cap 1 .. n) : Tells(f, u)

Tracked == \E p, k, n : Laid(p, k) /\ Stands(p, k, n) /\ Handed(n)

LineInv ==
  /\ IInv /\ Bytewise /\ faults \in Nat
  /\ sent \in Seq(Seq(Byte)) /\ \A i \in 1 .. Len(sent) : Good(sent[i])
  /\ faults = 0 => Tracked

LEMMA ConcatBytes ==
  ASSUME NEW a \in Seq(Byte), NEW b \in Seq(Byte), NEW c \in Seq(Byte)
  PROVE  a \o (b \o c) = (a \o b) \o c
  BY ConcatAssociative

\* The bytes of a message on the line.
LEMMA CreateBytes ==
  ASSUME NEW m, Good(m)
  PROVE  /\ Create(m) \in Seq(Byte) /\ Len(m) \in Nat /\ Len(Create(m)) = Len(m) + 2
         /\ Create(m)[1] = kPreambl /\ Create(m)[Len(m) + 2] = CRC(m)
         /\ \A j \in 1 .. Len(m) : Create(m)[j + 1] = m[j]
<1>1. m \in Seq(Byte) /\ CRC(m) \in Byte /\ kPreambl \in Byte
  BY DEF Good, kPreambl, Byte
<1>2. Len(m) \in Nat
  BY <1>1, LenProperties
<1>3. /\ <<kPreambl>> \in Seq(Byte) /\ Len(<<kPreambl>>) = 1 /\ <<kPreambl>>[1] = kPreambl
      /\ <<CRC(m)>> \in Seq(Byte) /\ Len(<<CRC(m)>>) = 1 /\ <<CRC(m)>>[1] = CRC(m)
  BY <1>1
<1> DEFINE h == <<kPreambl>> \o m
<1>4. /\ h \in Seq(Byte) /\ Len(h) = Len(m) + 1
      /\ \A i \in 1 .. Len(m) + 1 : h[i] = IF i <= 1 THEN <<kPreambl>>[i] ELSE m[i - 1]
  BY <1>1, <1>2, <1>3, ConcatProperties
<1>5. h[1] = kPreambl /\ \A j \in 1 .. Len(m) : h[j + 1] = m[j]
  BY <1>2, <1>3, <1>4
<1> HIDE DEF h
<1> DEFINE c == h \o <<CRC(m)>>
<1>6. /\ c \in Seq(Byte) /\ Len(c) = Len(m) + 2
      /\ \A i \in 1 .. Len(m) + 2 :
           c[i] = IF i <= Len(m) + 1 THEN h[i] ELSE <<CRC(m)>>[i - (Len(m) + 1)]
  BY <1>2, <1>3, <1>4, ConcatProperties
<1>7. c[1] = h[1] /\ (\A j \in 1 .. Len(m) : c[j + 1] = h[j + 1]) /\ c[Len(m) + 2] = CRC(m)
  BY <1>2, <1>3, <1>6
<1>8. Create(m) = c
  BY DEF Create, h
<1> HIDE DEF c
<1> QED
  BY <1>2, <1>5, <1>6, <1>7, <1>8

\* The bytes that are left, by whether the parser has some of them.
LEMMA RestBytes ==
  ASSUME LineInv
  PROVE  /\ Rest \in Seq(Byte) /\ Len(Rest) \in Nat
         /\ slice = <<>> => Rest = wire
         /\ slice # <<>> => /\ Len(Rest) > 0 /\ Rest[1] = Head(slice)
                            /\ Tail(slice) \o wire = Tail(Rest)
<1>1. slice \in Seq(Byte) /\ wire \in Seq(Byte)
  BY DEF LineInv, IInv, InputOK, Bytewise
<1>2. Rest \in Seq(Byte) /\ Len(Rest) \in Nat
  BY <1>1, ConcatProperties, LenProperties DEF Rest
<1>3. slice = <<>> => Rest = wire
  BY <1>1, ConcatEmptySeq DEF Rest
<1>4. ASSUME slice # <<>>
      PROVE  Len(Rest) > 0 /\ Rest[1] = Head(slice) /\ Tail(slice) \o wire = Tail(Rest)
  <2> DEFINE a == Tail(slice) \o wire
  <2>1. /\ Len(slice) \in Nat /\ Len(wire) \in Nat /\ Len(slice) > 0
        /\ Head(slice) = slice[1]
        /\ Tail(slice) \in Seq(Byte) /\ Len(Tail(slice)) = Len(slice) - 1
        /\ \A i \in 1 .. Len(Tail(slice)) : Tail(slice)[i] = slice[i + 1]
    BY <1>1, <1>4, HeadTailProperties, LenProperties, EmptySeq
  <2>2. /\ Len(Rest) = Len(slice) + Len(wire)
        /\ \A i \in 1 .. Len(slice) + Len(wire) :
             Rest[i] = IF i <= Len(slice) THEN slice[i] ELSE wire[i - Len(slice)]
    BY <1>1, ConcatProperties DEF Rest
  <2>3. /\ a \in Seq(Byte) /\ Len(a) = Len(slice) - 1 + Len(wire)
        /\ \A i \in 1 .. Len(slice) - 1 + Len(wire) :
             a[i] = IF i <= Len(slice) - 1 THEN Tail(slice)[i] ELSE wire[i - (Len(slice) - 1)]
    BY <1>1, <2>1, ConcatProperties
  <2>4. Rest # <<>>
    BY <1>2, <2>1, <2>2
  <2>5. /\ Tail(Rest) \in Seq(Byte) /\ Len(Tail(Rest)) = Len(Rest) - 1
        /\ \A i \in 1 .. Len(Rest) - 1 : Tail(Rest)[i] = Rest[i + 1]
    BY <1>2, <2>4, HeadTailProperties
  <2> HIDE DEF a
  <2>6. ASSUME NEW i \in 1 .. Len(a) PROVE a[i] = Tail(Rest)[i]
    <3>1. i \in Nat /\ i >= 1 /\ i <= Len(slice) - 1 + Len(wire)
      BY <2>1, <2>3
    <3>2. Tail(Rest)[i] = Rest[i + 1]
      BY <2>1, <2>2, <2>5, <3>1
    <3>3. CASE i <= Len(slice) - 1
      BY <2>1, <2>2, <2>3, <3>1, <3>2, <3>3
    <3>4. CASE ~ (i <= Len(slice) - 1)
      <4>1. a[i] = wire[i - (Len(slice) - 1)] /\ Rest[i + 1] = wire[(i + 1) - Len(slice)]
        BY <2>1, <2>2, <2>3, <3>1, <3>4
      <4>2. i - (Len(slice) - 1) = (i + 1) - Len(slice)
        BY <2>1, <3>1
      <4> QED
        BY <3>2, <4>1, <4>2
    <3> QED
      BY <3>3, <3>4
  <2>7. a = Tail(Rest)
    BY <2>1, <2>2, <2>3, <2>5, <2>6, SeqEqual
  <2> QED
    BY <2>1, <2>2, <2>7 DEF a
<1> QED
  BY <1>2, <1>3, <1>4

\* The byte that is parsed next is the one that was sent.
LEMMA NextByte ==
  ASSUME LineInv, NEW p, NEW k, NEW n, Laid(p, k), Stands(p, k, n),
         slice # <<>>, parserState # "Done"
  PROVE  /\ n < Len(sent) /\ Len(sent[n + 1]) \in Nat
         /\ parserState = "Idle" => Head(slice) = kPreambl
         /\ parserState = "Crc" => Head(slice) = CRC(sent[n + 1])
         /\ parserState \notin {"Idle", "Crc"} =>
              Head(slice) = sent[n + 1][Len(buffer) + 1]
<1>1. Len(sent) \in Nat /\ n \in 0 .. Len(sent) /\ k \in Nat
  BY LenProperties DEF LineInv, Laid, Stands
<1>2. n < Len(sent)
  <2> SUFFICES ASSUME n = Len(sent) PROVE FALSE
    BY <1>1
  <2>1. k = p[Len(sent) + 1] /\ p[Len(sent) + 1] = k + Len(Rest)
    BY DEF Stands, Laid
  <2> QED
    BY <1>1, <2>1, RestBytes
<1> DEFINE m == sent[n + 1]
<1>3. n + 1 \in 1 .. Len(sent) /\ Good(m)
  BY <1>1, <1>2 DEF LineInv
<1> HIDE DEF m
<1>4. /\ Len(m) \in Nat /\ Create(m)[1] = kPreambl /\ Create(m)[Len(m) + 2] = CRC(m)
      /\ \A j \in 1 .. Len(m) : Create(m)[j + 1] = m[j]
  BY <1>3, CreateBytes
<1>5. p[n + 1] \in Nat
  BY <1>1, <1>3 DEF Laid
<1>6. ASSUME NEW j \in 1 .. Len(m) + 2, p[n + 1] + j = k + 1
      PROVE  Head(slice) = Create(m)[j]
  <2>1. p[n + 1] + j > k => Rest[(p[n + 1] + j) - k] = Create(m)[j]
    BY <1>3, <1>6 DEF Laid, m
  <2>2. p[n + 1] + j > k /\ (p[n + 1] + j) - k = 1
    BY <1>1, <1>5, <1>6
  <2> QED
    BY <2>1, <2>2, RestBytes
<1>7. parserState = "Idle" => Head(slice) = kPreambl
  <2> SUFFICES ASSUME parserState = "Idle" PROVE Head(slice) = kPreambl
    OBVIOUS
  <2>1. k = p[n + 1]
    BY DEF Stands
  <2> QED
    BY <1>4, <1>5, <1>6, <2>1
<1>8. parserState # "Idle" =>
        Reading(m) /\ k = p[n + 1] + Len(buffer) + 1 /\ Len(buffer) \in Nat
  BY LenProperties DEF Stands, m, LineInv, IInv, ParserTypeOK
<1>9. parserState = "Crc" => Head(slice) = CRC(m)
  <2> SUFFICES ASSUME parserState = "Crc" PROVE Head(slice) = CRC(m)
    OBVIOUS
  <2>1. buffer = m
    BY <1>8 DEF Reading
  <2>2. k = p[n + 1] + Len(m) + 1
    BY <1>8, <2>1
  <2>4. p[n + 1] + (Len(m) + 2) = k + 1
    <3>1. Len(m) \in Nat
      BY <1>4
    <3> QED
      BY <1>5, <2>2, <3>1
  <2>3. Len(m) + 2 \in 1 .. Len(m) + 2
    BY <1>4
  <2> QED
    BY <1>4, <1>6, <2>3, <2>4
<1>10. parserState \notin {"Idle", "Crc"} => Head(slice) = m[Len(buffer) + 1]
  <2> SUFFICES ASSUME parserState \notin {"Idle", "Crc"}
               PROVE  Head(slice) = m[Len(buffer) + 1]
    OBVIOUS
  <2>1. Len(buffer) < Len(m)
    BY <1>8 DEF Reading
  <2>2. p[n + 1] + (Len(buffer) + 2) = k + 1
    BY <1>5, <1>8
  <2>3. Len(buffer) + 2 \in 1 .. Len(m) + 2 /\ Len(buffer) + 1 \in 1 .. Len(m)
    BY <1>4, <1>8, <2>1
  <2>4. Head(slice) = Create(m)[Len(buffer) + 2]
    BY <1>6, <2>2, <2>3
  <2>5. Create(m)[(Len(buffer) + 1) + 1] = m[Len(buffer) + 1]
    BY <1>4, <2>3
  <2>6. (Len(buffer) + 1) + 1 = Len(buffer) + 2
    BY <1>8
  <2> QED
    BY <2>4, <2>5, <2>6
<1> QED
  BY <1>2, <1>4, <1>7, <1>9, <1>10 DEF m

-----------------------------------------------------------------------------
(* Each step keeps track of the messages.                                   *)

LEMMA ParseByteTracked ==
  ASSUME LineInv, Tracked, ParseByte, UNCHANGED <<wire, sent>>
  PROVE  Tracked'
<1>1. PICK p, k, n : Laid(p, k) /\ Stands(p, k, n) /\ Handed(n)
  BY DEF Tracked
<1>2. /\ slice # <<>> /\ parserState # "Done" /\ Consume(Head(slice))
      /\ slice' = Tail(slice) /\ got' = got
  BY DEF ParseByte
<1>3. /\ Rest \in Seq(Byte) /\ Len(Rest) \in Nat \ {0} /\ Rest' = Tail(Rest)
  BY <1>2, RestBytes DEF Rest
<1>4. /\ Len(Rest') = Len(Rest) - 1
      /\ \A i \in 1 .. Len(Rest) - 1 : Rest'[i] = Rest[i + 1]
  BY <1>3, HeadTailProperties, EmptySeq
<1>5. Len(sent) \in Nat /\ k \in Nat /\ p \in [1 .. Len(sent) + 1 -> Nat]
  BY <1>1, LenProperties DEF LineInv, Laid
<1>13. /\ \A i \in 1 .. Len(sent) : p[i + 1] = p[i] + Len(sent[i]) + 2
       /\ p[Len(sent) + 1] = k + Len(Rest)
  BY <1>1 DEF Laid
<1>14. \A i, j \in 1 .. Len(sent) + 1 : i < j => p[i] < p[j]
  BY <1>1 DEF Laid
<1>15. \A i \in 1 .. Len(sent) : \A j \in 1 .. Len(sent[i]) + 2 :
         p[i] + j > k => Rest[(p[i] + j) - k] = Create(sent[i])[j]
  BY <1>1 DEF Laid
<1>6. Laid(p, k + 1)'
  <2>1. p[Len(sent) + 1] = (k + 1) + Len(Rest')
    BY <1>3, <1>4, <1>5, <1>13
  <2>2. ASSUME NEW i \in 1 .. Len(sent), NEW j \in 1 .. Len(sent[i]) + 2, p[i] + j > k + 1
        PROVE  Rest'[(p[i] + j) - (k + 1)] = Create(sent[i])[j]
    <3>1. sent[i] \in Seq(Byte) /\ i \in 1 .. Len(sent) + 1 /\ i + 1 \in 1 .. Len(sent) + 1
      BY <1>5 DEF LineInv, Good
    <3>2. Len(sent[i]) \in Nat /\ j \in Nat /\ p[i] \in Nat /\ p[i + 1] \in Nat
      BY <1>5, <3>1, LenProperties
    <3>3. Rest[(p[i] + j) - k] = Create(sent[i])[j]
      <4>1. p[i] + j > k
        BY <1>5, <2>2, <3>2
      <4> QED
        BY <1>15, <4>1
    <3>4. p[i] + j <= p[Len(sent) + 1]
      <4>1. p[i] + j <= p[i + 1]
        BY <1>13, <3>2
      <4>2. i + 1 = Len(sent) + 1 \/ p[i + 1] < p[Len(sent) + 1]
        <5>1. i + 1 = Len(sent) + 1 \/ i + 1 < Len(sent) + 1
          BY <1>5, <3>1
        <5>2. Len(sent) + 1 \in 1 .. Len(sent) + 1
          BY <1>5
        <5> QED
          BY <1>14, <3>1, <5>1, <5>2
      <4>3. p[Len(sent) + 1] \in Nat
        BY <1>5
      <4>4. CASE i + 1 = Len(sent) + 1
        BY <4>1, <4>4
      <4>5. CASE p[i + 1] < p[Len(sent) + 1]
        BY <3>2, <4>1, <4>3, <4>5
      <4> QED
        BY <4>2, <4>4, <4>5
    <3>5. (p[i] + j) - (k + 1) \in 1 .. Len(Rest) - 1
      <4>1. PICK a, r : a = p[i] + j /\ r = Len(Rest)
        OBVIOUS
      <4>2. a \in Nat /\ a > k + 1 /\ a <= k + r
        BY <1>13, <2>2, <3>2, <3>4, <4>1
      <4>3. k \in Nat /\ r \in Nat
        BY <1>3, <1>5, <4>1
      <4>4. a - (k + 1) \in 1 .. r - 1
        BY <4>2, <4>3
      <4> QED
        BY <4>1, <4>4
    <3>6. Rest'[(p[i] + j) - (k + 1)] = Rest[((p[i] + j) - (k + 1)) + 1]
      BY <1>4, <3>5
    <3>7. ((p[i] + j) - (k + 1)) + 1 = (p[i] + j) - k
      <4>1. \A x, y, z \in Nat : ((x + y) - (z + 1)) + 1 = (x + y) - z
        OBVIOUS
      <4> QED
        BY <1>5, <3>2, <4>1
    <3> QED
      BY <3>3, <3>6, <3>7
  <2>3. k + 1 \in Nat /\ sent' = sent
    BY <1>5
  <2> QED
    BY <1>5, <1>13, <1>14, <2>1, <2>2, <2>3 DEF Laid
<1>16. PICK m : m = sent[n + 1]
  OBVIOUS
<1>7. /\ n < Len(sent) /\ Len(m) \in Nat
      /\ parserState = "Idle" => Head(slice) = kPreambl
      /\ parserState = "Crc" => Head(slice) = CRC(m)
      /\ parserState \notin {"Idle", "Crc"} => Head(slice) = m[Len(buffer) + 1]
  BY <1>1, <1>2, <1>16, NextByte
<1>8. n \in 0 .. Len(sent) /\ n + 1 \in 1 .. Len(sent) /\ Good(m) /\ p[n + 1] \in Nat
  <2>1. n \in 0 .. Len(sent)
    BY <1>1 DEF Stands
  <2>2. n + 1 \in 1 .. Len(sent) /\ n + 1 \in 1 .. Len(sent) + 1
    BY <1>5, <1>7, <2>1
  <2> QED
    BY <1>5, <1>16, <2>1, <2>2 DEF LineInv
<1>9. Parsing /\ Len(buffer) \in Nat
  BY LenProperties DEF LineInv, IInv, Parsing, ParserTypeOK
<1>10. Reading(m)' /\ k + 1 = p[n + 1] + Len(buffer') + (IF parserState' = "Done" THEN 2 ELSE 1)
  <2>1. CASE parserState = "Idle"
    <3>1. parserState' = "Header" /\ buffer' = buffer
      BY <1>2, <1>7, <2>1 DEF Consume, Scan, HeaderByte, HeaderEnd, ConstByte, BaseByte,
                               PayloadByte, Swallow, CrcByte
    <3>2. buffer = <<>> /\ k = p[n + 1]
      BY <1>1, <1>9, <2>1 DEF Parsing, Begins, Stands
    <3>3. Len(buffer') = 0 /\ Len(m) > 0
      BY <1>8, <3>1, <3>2 DEF Good, Whole, HeaderSize
    <3>4. Reading(m)'
      BY <3>1, <3>3 DEF Reading
    <3> QED
      BY <1>5, <1>8, <3>1, <3>2, <3>3, <3>4
  <2>2. CASE parserState # "Idle"
    <3>1. Reading(m) /\ k = p[n + 1] + Len(buffer) + 1
      BY <1>1, <1>2, <1>16, <2>2 DEF Stands
    <3>2. CASE parserState = "Crc"
      <4>1. Reading(m)' /\ parserState' = "Done" /\ buffer' = buffer
        <5>1. Consume(CRC(m))
          BY <1>2, <1>7, <3>2
        <5> QED
          BY <3>1, <3>2, <5>1, CrcTurn
      <4> QED
        BY <1>8, <1>9, <3>1, <4>1
    <3>3. CASE parserState # "Crc"
      <4>1. Reading(m)' /\ Len(buffer') = Len(buffer) + 1 /\ parserState' # "Done"
        <5>1. Consume(m[Len(buffer) + 1]) /\ parserState \notin {"Crc", "Done"}
          BY <1>2, <1>7, <2>2, <3>3
        <5> QED
          BY <1>8, <1>9, <3>1, <5>1, BodyTurn
      <4> QED
        BY <1>8, <1>9, <3>1, <4>1
    <3> QED
      BY <3>2, <3>3
  <2> QED
    BY <2>1, <2>2
<1>11. Stands(p, k + 1, n)'
  <2>1. parserState' # "Idle"
    BY <1>10 DEF Reading
  <2> QED
    BY <1>7, <1>8, <1>10, <1>16, <2>1 DEF Stands
<1>12. Handed(n)'
  BY <1>1, <1>2 DEF Handed, For, Tells
<1> QED
  BY <1>6, <1>11, <1>12 DEF Tracked

\* Nothing that was not damaged is refused.
LEMMA NoRefusal ==
  ASSUME LineInv, Tracked, slice # <<>> PROVE ~ Refuse(Head(slice))
<1> SUFFICES ASSUME Refuse(Head(slice)) PROVE FALSE
  OBVIOUS
<1>1. PICK p, k, n : Laid(p, k) /\ Stands(p, k, n)
  BY DEF Tracked
<1>2. parserState \in {"Header", "ConstPayload", "VolatilePayload"}
  BY DEF Refuse, UnknownType, TooLong, Storing
<1>3. n < Len(sent) /\ Head(slice) = sent[n + 1][Len(buffer) + 1]
  BY <1>1, <1>2, NextByte
<1>4. n + 1 \in 1 .. Len(sent) /\ Reading(sent[n + 1])
  BY <1>1, <1>2, <1>3, LenProperties DEF Stands, LineInv
<1>5. Good(sent[n + 1]) /\ Parsing
  BY <1>4 DEF LineInv, IInv, Parsing
<1> QED
  BY <1>2, <1>3, <1>4, <1>5, NoneRefused

LEMMA RouteTracked ==
  ASSUME LineInv, Tracked, RouteMessage, UNCHANGED <<wire, sent>>
  PROVE  Tracked'
<1>1. PICK p, k, n : Laid(p, k) /\ Stands(p, k, n) /\ Handed(n)
  BY DEF Tracked
<1>2. /\ parserState = "Done" /\ parserState' = "Idle" /\ slice' = slice
      /\ got' = [u \in Uids |-> IF Routes(u, buffer) THEN Append(got[u], buffer) ELSE got[u]]
  BY DEF RouteMessage, Reset
<1>3. PICK m : m = sent[n + 1]
  OBVIOUS
<1>4. Len(sent) \in Nat /\ k \in Nat /\ p \in [1 .. Len(sent) + 1 -> Nat]
  BY <1>1, LenProperties DEF LineInv, Laid
<1>5. n \in 0 .. Len(sent) /\ n < Len(sent) /\ buffer = m /\ k = p[n + 1] + Len(m) + 2
  BY <1>1, <1>2, <1>3 DEF Stands, Reading
<1>6. n + 1 \in 1 .. Len(sent) /\ n + 1 \in 0 .. Len(sent) /\ (n + 1) + 1 = n + 2
  BY <1>4, <1>5
<1>7. Laid(p, k)'
  BY <1>1, <1>2 DEF Laid, Rest
<1>8. k = p[(n + 1) + 1]
  BY <1>1, <1>3, <1>5, <1>6 DEF Laid
<1>9. Stands(p, k, n + 1)'
  BY <1>2, <1>6, <1>8 DEF Stands
<1>10. ASSUME NEW u \in Uids
       PROVE  \E f \in Surjection(DOMAIN got'[u], For(u)' \cap 1 .. n + 1) : Tells(f, u)'
  <2>1. PICK f \in Surjection(DOMAIN got[u], For(u) \cap 1 .. n) : Tells(f, u)
    BY <1>1 DEF Handed
  <2>2. For(u)' = For(u)
    BY DEF For
  <2>3. got[u] \in Seq(Seq(Byte)) /\ buffer \in Seq(Byte)
    BY DEF LineInv, IInv, InputOK, ParserTypeOK
  <2>4. /\ DOMAIN got[u] = 1 .. Len(got[u]) /\ Len(got[u]) \in Nat
        /\ DOMAIN sent = 1 .. Len(sent)
    BY <2>3, LenProperties DEF LineInv
  <2>5. /\ f \in [DOMAIN got[u] -> For(u) \cap 1 .. n]
        /\ \A t \in For(u) \cap 1 .. n : \E i \in DOMAIN got[u] : f[i] = t
        /\ \A i \in DOMAIN got[u] : got[u][i] = sent[f[i]]
        /\ \A i, j \in DOMAIN got[u] : i < j => f[i] < f[j]
    BY <2>1 DEF Surjection, Tells
  <2>6. CASE Routes(u, buffer)
    <3>1. Addressed(u, m)
      BY <1>5, <2>6 DEF Routes, ReceiverOf, Addressed
    <3>2. For(u) \cap 1 .. n + 1 = (For(u) \cap 1 .. n) \cup {n + 1}
      <4>1. n + 1 \in For(u)
        BY <1>3, <1>6, <2>4, <3>1 DEF For
      <4>2. 1 .. n + 1 = (1 .. n) \cup {n + 1}
        BY <1>4, <1>5
      <4> QED
        BY <4>1, <4>2
    <3>12. PICK e : e = Len(got[u]) + 1
      OBVIOUS
    <3>13. PICK g : g = [i \in 1 .. e |-> IF i = e THEN n + 1 ELSE f[i]]
      OBVIOUS
    <3>3. /\ got'[u] = Append(got[u], buffer)
          /\ DOMAIN got'[u] = 1 .. e /\ got'[u][e] = m
          /\ \A i \in DOMAIN got[u] : got'[u][i] = got[u][i]
      BY <1>2, <1>5, <2>3, <2>4, <2>6, <3>12
    <3>4. 1 .. e = DOMAIN got[u] \cup {e} /\ e \notin DOMAIN got[u]
      BY <2>4, <3>12
    <3>5. g[e] = n + 1 /\ \A i \in DOMAIN got[u] : g[i] = f[i]
      BY <3>4, <3>13
    <3>6. g \in [1 .. e -> (For(u) \cap 1 .. n) \cup {n + 1}]
      BY <2>5, <3>4, <3>5, <3>13
    <3>7. \A t \in (For(u) \cap 1 .. n) \cup {n + 1} : \E i \in 1 .. e : g[i] = t
      BY <2>5, <3>4, <3>5
    <3>8. \A i \in 1 .. e : got'[u][i] = sent[g[i]]
      BY <1>3, <2>5, <3>3, <3>4, <3>5
    <3>9. ASSUME NEW i \in 1 .. e, NEW j \in 1 .. e, i < j PROVE g[i] < g[j]
      <4>1. i \in DOMAIN got[u]
        BY <2>4, <3>9, <3>12
      <4>2. CASE j = e
        <5>1. f[i] \in 1 .. n
          BY <2>5, <4>1
        <5> QED
          BY <1>4, <1>5, <3>5, <4>1, <4>2, <5>1
      <4>3. CASE j # e
        BY <2>5, <3>4, <3>5, <3>9, <4>1, <4>3
      <4> QED
        BY <4>2, <4>3
    <3>10. g \in Surjection(DOMAIN got'[u], For(u)' \cap 1 .. n + 1)
      BY <2>2, <3>2, <3>3, <3>6, <3>7 DEF Surjection
    <3>11. Tells(g, u)'
      BY <3>6, <3>8, <3>9 DEF Tells
    <3> QED
      BY <3>10, <3>11
  <2>7. CASE ~ Routes(u, buffer)
    <3>1. ~ Addressed(u, m)
      BY <1>5, <2>7 DEF Routes, ReceiverOf, Addressed
    <3>2. For(u) \cap 1 .. n + 1 = For(u) \cap 1 .. n
      <4>1. n + 1 \notin For(u)
        BY <1>3, <3>1 DEF For
      <4>2. 1 .. n + 1 = (1 .. n) \cup {n + 1}
        BY <1>4, <1>5
      <4> QED
        BY <4>1, <4>2
    <3>3. got'[u] = got[u]
      BY <1>2, <2>7
    <3>4. f \in Surjection(DOMAIN got'[u], For(u)' \cap 1 .. n + 1) /\ Tells(f, u)'
      BY <2>1, <2>2, <3>2, <3>3 DEF Tells
    <3> QED
      BY <3>4
  <2> QED
    BY <2>6, <2>7
<1>11. Handed(n + 1)'
  BY <1>10 DEF Handed
<1> QED
  BY <1>7, <1>9, <1>11 DEF Tracked

\* Bytes that are read are the same bytes.
LEMMA ReceiveTracked ==
  ASSUME LineInv, Tracked, NEW i \in 1 .. Len(wire), Receive(i)
  PROVE  Tracked'
<1>1. wire \in Seq(Byte) /\ Len(wire) \in Nat
  BY LenProperties DEF LineInv, Bytewise
<1>2. /\ slice = <<>> /\ slice' = SubSeq(wire, 1, i) /\ wire' = SubSeq(wire, i + 1, Len(wire))
      /\ sent' = sent /\ got' = got
      /\ parserState' = parserState /\ buffer' = buffer
  BY DEF Receive, Update, Waiting, parserVars
<1>3. slice' \o wire' = SubSeq(wire, 1, Len(wire))
  BY <1>1, <1>2, ConcatAdjacentSubSeq
<1>4. Rest' = Rest
  BY <1>1, <1>2, <1>3, SubSeqFull, ConcatEmptySeq DEF Rest
<1>5. PICK p, k, n : Laid(p, k) /\ Stands(p, k, n) /\ Handed(n)
  BY DEF Tracked
<1>6. Laid(p, k)'
  BY <1>2, <1>4, <1>5 DEF Laid
<1>7. Stands(p, k, n)'
  BY <1>2, <1>5 DEF Stands, Reading
<1>8. Handed(n)'
  BY <1>2, <1>5 DEF Handed, For, Tells
<1> QED
  BY <1>6, <1>7, <1>8 DEF Tracked

\* A message that is sent undamaged comes behind all that is under way.
LEMMA SendTracked ==
  ASSUME LineInv, Tracked, NEW m, Good(m),
         wire' = wire \o Create(m), sent' = Append(sent, m), UNCHANGED inputVars
  PROVE  Tracked'
<1>1. PICK p, k, n : Laid(p, k) /\ Stands(p, k, n) /\ Handed(n)
  BY DEF Tracked
<1>2. /\ slice' = slice /\ got' = got /\ parserState' = parserState /\ buffer' = buffer
  BY DEF inputVars
<1>3. PICK c : c = Create(m)
  OBVIOUS
<1>4. c \in Seq(Byte) /\ Len(m) \in Nat /\ Len(c) = Len(m) + 2
  BY <1>3, CreateBytes
<1>5. Rest \in Seq(Byte) /\ Len(Rest) \in Nat
  BY RestBytes
<1>6. Rest' = Rest \o c
  <2>1. slice \in Seq(Byte) /\ wire \in Seq(Byte)
    BY DEF LineInv, IInv, InputOK, Bytewise
  <2>2. Rest' = slice \o (wire \o c)
    BY <1>2, <1>3 DEF Rest
  <2>3. slice \o (wire \o c) = (slice \o wire) \o c
    <3>1. c \in Seq(Byte)
      BY <1>4
    <3> QED
      BY <2>1, <3>1, ConcatBytes
  <2> QED
    BY <2>2, <2>3 DEF Rest
<1>7. /\ Len(Rest') = Len(Rest) + Len(m) + 2
      /\ \A i \in 1 .. Len(Rest) + Len(c) :
           Rest'[i] = IF i <= Len(Rest) THEN Rest[i] ELSE c[i - Len(Rest)]
  <2>1. /\ Len(Rest \o c) = Len(Rest) + Len(c)
        /\ \A i \in 1 .. Len(Rest) + Len(c) :
             (Rest \o c)[i] = IF i <= Len(Rest) THEN Rest[i] ELSE c[i - Len(Rest)]
    BY <1>4, <1>5, ConcatProperties
  <2> QED
    BY <1>4, <1>5, <1>6, <2>1
<1>8. PICK l : l = Len(sent)
  OBVIOUS
<1>9. /\ l \in Nat /\ sent \in Seq(Seq(Byte)) /\ m \in Seq(Byte)
      /\ k \in Nat /\ p \in [1 .. l + 1 -> Nat] /\ n \in 0 .. l
  BY <1>1, <1>8, LenProperties DEF LineInv, Laid, Stands, Good
<1>10. /\ Len(sent') = l + 1 /\ sent'[l + 1] = m
       /\ \A i \in 1 .. l : sent'[i] = sent[i]
       /\ DOMAIN sent = 1 .. l /\ DOMAIN sent' = 1 .. l + 1
  BY <1>8, <1>9
<1>11. /\ \A i \in 1 .. l : p[i + 1] = p[i] + Len(sent[i]) + 2
       /\ p[l + 1] = k + Len(Rest)
  BY <1>1, <1>8 DEF Laid
<1>12. \A i, j \in 1 .. l + 1 : i < j => p[i] < p[j]
  BY <1>1, <1>8 DEF Laid
<1>13. \A i \in 1 .. l : \A j \in 1 .. Len(sent[i]) + 2 :
         p[i] + j > k => Rest[(p[i] + j) - k] = Create(sent[i])[j]
  BY <1>1, <1>8 DEF Laid
<1>14. PICK q : q = [i \in 1 .. l + 2 |-> IF i = l + 2 THEN p[l + 1] + Len(m) + 2 ELSE p[i]]
  OBVIOUS
<1>15. /\ 1 .. l + 2 = (1 .. l + 1) \cup {l + 2} /\ l + 2 \notin 1 .. l + 1
       /\ 1 .. l + 1 = (1 .. l) \cup {l + 1} /\ l + 1 \notin 1 .. l
       /\ (l + 1) + 1 = l + 2
  BY <1>9
<1>16. /\ q[l + 2] = p[l + 1] + Len(m) + 2 /\ \A i \in 1 .. l + 1 : q[i] = p[i]
       /\ \A i \in 1 .. l + 1 : p[i] \in Nat
  BY <1>9, <1>14, <1>15
<1>17. q \in [1 .. l + 2 -> Nat]
  <2>1. p[l + 1] + Len(m) + 2 \in Nat
    BY <1>4, <1>9, <1>15, <1>16
  <2> QED
    BY <1>14, <1>15, <1>16, <2>1
<1>18. \A i \in 1 .. l + 1 : q[i + 1] = q[i] + Len(sent'[i]) + 2
  <2> SUFFICES ASSUME NEW i \in 1 .. l + 1 PROVE q[i + 1] = q[i] + Len(sent'[i]) + 2
    OBVIOUS
  <2>1. CASE i = l + 1
    BY <1>10, <1>15, <1>16, <2>1
  <2>2. CASE i \in 1 .. l
    <3>1. i + 1 \in 1 .. l + 1
      BY <1>9, <2>2
    <3> QED
      BY <1>10, <1>11, <1>16, <2>2, <3>1
  <2> QED
    BY <1>15, <2>1, <2>2
<1>19. \A i, j \in 1 .. l + 2 : i < j => q[i] < q[j]
  <2> SUFFICES ASSUME NEW i \in 1 .. l + 2, NEW j \in 1 .. l + 2, i < j PROVE q[i] < q[j]
    OBVIOUS
  <2>1. i \in 1 .. l + 1
    BY <1>9
  <2>2. CASE j \in 1 .. l + 1
    BY <1>12, <1>16, <2>1, <2>2
  <2>3. CASE j = l + 2
    <3>1. p[i] <= p[l + 1]
      <4>1. i = l + 1 \/ i < l + 1
        BY <1>9, <2>1
      <4> QED
        BY <1>12, <1>15, <1>16, <2>1, <4>1
    <3>2. p[i] \in Nat /\ p[l + 1] \in Nat
      BY <1>15, <1>16, <2>1
    <3> QED
      BY <1>4, <1>16, <2>1, <2>3, <3>1, <3>2
  <2> QED
    BY <1>15, <2>2, <2>3
<1>20. q[l + 2] = k + Len(Rest')
  BY <1>4, <1>5, <1>7, <1>9, <1>11, <1>16
<1>21. \A i \in 1 .. l + 1 : \A j \in 1 .. Len(sent'[i]) + 2 :
         q[i] + j > k => Rest'[(q[i] + j) - k] = Create(sent'[i])[j]
  <2> SUFFICES ASSUME NEW i \in 1 .. l + 1, NEW j \in 1 .. Len(sent'[i]) + 2, q[i] + j > k
               PROVE  Rest'[(q[i] + j) - k] = Create(sent'[i])[j]
    OBVIOUS
  <2>1. CASE i = l + 1
    <3>1. j \in 1 .. Len(c) /\ q[i] = k + Len(Rest) /\ Create(sent'[i]) = c
      BY <1>3, <1>4, <1>10, <1>11, <1>15, <1>16, <2>1
    <3>2. PICK r : r = Len(Rest)
      OBVIOUS
    <3>3. r \in Nat /\ Len(c) \in Nat /\ j \in Nat /\ j >= 1 /\ j <= Len(c)
      BY <1>4, <1>5, <3>1, <3>2
    <3>4. /\ r + j \in 1 .. r + Len(c)
          /\ ~ (r + j <= r) /\ (r + j) - r = j
      BY <3>3
    <3>5. (q[i] + j) - k = r + j
      <4>1. q[i] = k + r
        BY <3>1, <3>2
      <4> QED
        BY <1>9, <3>3, <4>1
    <3>6. Rest'[r + j] = c[(r + j) - r]
      BY <1>7, <3>2, <3>4
    <3> QED
      BY <3>1, <3>4, <3>5, <3>6
  <2>2. CASE i \in 1 .. l
    <3>1. sent'[i] = sent[i] /\ q[i] = p[i] /\ i + 1 \in 1 .. l + 1 /\ i \in Nat
      <4>1. i + 1 \in 1 .. l + 1 /\ i \in 1 .. l + 1 /\ i \in Nat
        BY <1>9, <2>2
      <4> QED
        BY <1>10, <1>16, <2>2, <4>1
    <3>2. Len(sent[i]) \in Nat /\ j \in 1 .. Len(sent[i]) + 2
      BY <1>8, <2>2, <3>1, LenProperties DEF LineInv, Good
    <3>3. Rest[(p[i] + j) - k] = Create(sent[i])[j]
      BY <1>13, <2>2, <3>1, <3>2
    <3>4. p[i + 1] = p[i] + Len(sent[i]) + 2 /\ p[i + 1] \in Nat /\ p[i] \in Nat
      BY <1>11, <1>15, <1>16, <2>2, <3>1
    <3>5. p[i + 1] <= p[l + 1]
      <4>1. i + 1 = l + 1 \/ i + 1 < l + 1
        BY <1>9, <3>1
      <4>2. l + 1 \in 1 .. l + 1
        BY <1>15
      <4>3. i + 1 = l + 1 \/ p[i + 1] < p[l + 1]
        BY <1>12, <3>1, <4>1, <4>2
      <4>4. p[i + 1] \in Nat /\ p[l + 1] \in Nat
        BY <1>16, <3>1, <4>2
      <4> QED
        BY <4>3, <4>4
    <3>6. PICK a, r : a = p[i] + j /\ r = Len(Rest)
      OBVIOUS
    <3>7. /\ r \in Nat /\ k \in Nat /\ Len(c) \in Nat
          /\ a \in Nat /\ a > k /\ a <= k + r
      <4>1. r \in Nat /\ k \in Nat /\ Len(c) \in Nat
        BY <1>4, <1>5, <1>9, <3>6
      <4>2. a > k
        BY <2>2, <3>1, <3>6
      <4>3. a \in Nat /\ a <= p[i + 1]
        <5>1. j \in Nat /\ j <= Len(sent[i]) + 2
          BY <3>2
        <5>2. \A x, y, z \in Nat : y <= z + 2 => x + y \in Nat /\ x + y <= x + z + 2
          OBVIOUS
        <5> QED
          BY <3>2, <3>4, <3>6, <5>1, <5>2
      <4>4. p[i + 1] <= k + r
        BY <1>11, <3>5, <3>6
      <4> QED
        BY <3>4, <4>1, <4>2, <4>3, <4>4
    <3>9. a - k \in 1 .. r + Len(c) /\ a - k <= r
      BY <3>7
    <3>8. (p[i] + j) - k \in 1 .. Len(Rest) + Len(c) /\ (p[i] + j) - k <= Len(Rest)
      BY <3>6, <3>9
    <3> QED
      BY <1>7, <3>1, <3>3, <3>8
  <2> QED
    BY <1>15, <2>1, <2>2
<1>22. Laid(q, k)'
  BY <1>9, <1>10, <1>15, <1>17, <1>18, <1>19, <1>20, <1>21 DEF Laid
<1>23. Stands(q, k, n)'
  <2>1. n + 1 \in 1 .. l + 1 /\ n \in 0 .. l + 1
    BY <1>9
  <2>2. q[n + 1] = p[n + 1]
    BY <1>16, <2>1
  <2>3. parserState # "Idle" => n < l + 1 /\ sent'[n + 1] = sent[n + 1]
    <3> SUFFICES ASSUME parserState # "Idle" PROVE n < l + 1 /\ sent'[n + 1] = sent[n + 1]
      OBVIOUS
    <3>1. n < l
      BY <1>1, <1>8 DEF Stands
    <3>2. n + 1 \in 1 .. l
      BY <1>9, <3>1
    <3> QED
      BY <1>9, <1>10, <3>1, <3>2
  <2> QED
    BY <1>1, <1>2, <1>10, <2>1, <2>2, <2>3 DEF Stands, Reading
<1>24. Handed(n)'
  <2>1. ASSUME NEW u \in Uids
        PROVE  \E f \in Surjection(DOMAIN got'[u], For(u)' \cap 1 .. n) : Tells(f, u)'
    <3>1. PICK f \in Surjection(DOMAIN got[u], For(u) \cap 1 .. n) : Tells(f, u)
      BY <1>1 DEF Handed
    <3>2. 1 .. n \subseteq 1 .. l
      BY <1>9
    <3>3. For(u)' \cap 1 .. n = For(u) \cap 1 .. n
      BY <1>10, <1>15, <3>2 DEF For
    <3>4. f \in [DOMAIN got[u] -> For(u) \cap 1 .. n]
      BY <3>1 DEF Surjection
    <3>5. \A i \in DOMAIN f : sent'[f[i]] = sent[f[i]]
      BY <1>10, <3>2, <3>4
    <3>6. Tells(f, u)'
      BY <1>2, <3>1, <3>5 DEF Tells
    <3> QED
      BY <1>2, <3>1, <3>3, <3>6
  <2> QED
    BY <2>1 DEF Handed
<1> QED
  BY <1>22, <1>23, <1>24 DEF Tracked

-----------------------------------------------------------------------------

LEMMA InitLine == Init => LineInv
<1> SUFFICES ASSUME Init PROVE LineInv
  OBVIOUS
<1>1. IInv
  BY InputInit DEF Init
<1>2. /\ slice = <<>> /\ wire = <<>> /\ sent = <<>> /\ faults = 0
      /\ parserState = "Idle" /\ got = [u \in Uids |-> <<>>]
  BY DEF Init, InitInput, InitParser
<1>3. Rest = <<>> /\ Len(Rest) = 0 /\ Len(sent) = 0
  BY <1>2 DEF Rest
<1>4. PICK p : p = [i \in 1 .. 1 |-> 0]
  OBVIOUS
<1>5. Laid(p, 0) /\ Stands(p, 0, 0)
  BY <1>2, <1>3, <1>4 DEF Laid, Stands
<1>6. Handed(0)
  <2> SUFFICES ASSUME NEW u \in Uids
               PROVE  \E f \in Surjection(DOMAIN got[u], For(u) \cap 1 .. 0) : Tells(f, u)
    BY DEF Handed
  <2>1. DOMAIN got[u] = {} /\ For(u) \cap 1 .. 0 = {}
    BY <1>2
  <2>2. PICK f : f = [i \in {} |-> 0]
    OBVIOUS
  <2>3. f \in Surjection({}, {}) /\ Tells(f, u)
    BY <2>2 DEF Surjection, Tells
  <2> QED
    BY <2>1, <2>3
<1> QED
  BY <1>1, <1>2, <1>3, <1>5, <1>6 DEF LineInv, Tracked, Bytewise

LEMMA StepLine ==
  ASSUME LineInv, [Next]_vars PROVE LineInv'
<1>1. IInv' /\ Bytewise'
  BY LineStep, InputStep DEF LineInv
<1>2. ASSUME NEW m \in Messages, Send(m)
      PROVE  LineInv'
  <2>1. /\ wire' = wire \o Create(m) /\ sent' = Append(sent, m) /\ UNCHANGED inputVars
        /\ faults' = faults /\ Good(m) /\ m \in Seq(Byte)
    BY <1>2, SendableGood DEF Send, Good
  <2>2. faults = 0 => Tracked'
    BY <2>1, SendTracked DEF LineInv
  <2>3. sent' \in Seq(Seq(Byte)) /\ \A i \in 1 .. Len(sent') : Good(sent'[i])
    BY <2>1 DEF LineInv
  <2> QED
    BY <1>1, <2>1, <2>2, <2>3 DEF LineInv
<1>3. ASSUME NEW m \in Messages, SendDamaged(m)
      PROVE  LineInv'
  <2>1. sent' = Append(sent, m) /\ faults' = faults + 1 /\ Good(m) /\ m \in Seq(Byte)
    BY <1>3, SendableGood DEF SendDamaged, Good
  <2>2. sent' \in Seq(Seq(Byte)) /\ \A i \in 1 .. Len(sent') : Good(sent'[i])
    BY <2>1 DEF LineInv
  <2>3. faults' \in Nat /\ faults' # 0
    BY <2>1 DEF LineInv
  <2> QED
    BY <1>1, <2>2, <2>3 DEF LineInv
<1>4. ASSUME NEW i \in 1 .. Len(wire), Receive(i)
      PROVE  LineInv'
  BY <1>1, <1>4, ReceiveTracked DEF LineInv, Receive
<1>5. CASE Input /\ UNCHANGED <<wire, sent, faults, clean>>
  <2>1. faults = 0 => Tracked'
    <3> SUFFICES ASSUME Tracked PROVE Tracked'
      BY DEF LineInv
    <3>1. CASE ParseByte
      BY <1>5, <3>1, ParseByteTracked
    <3>2. CASE ParseAgain \/ DropSlice
      BY <3>2, NoRefusal DEF ParseAgain, DropSlice
    <3>3. CASE RouteMessage
      BY <1>5, <3>3, RouteTracked
    <3> QED
      BY <1>5, <3>1, <3>2, <3>3 DEF Input
  <2> QED
    BY <1>1, <1>5, <2>1 DEF LineInv
<1>6. CASE UNCHANGED vars
  <2>1. Tracked => Tracked'
    <3> SUFFICES ASSUME Tracked PROVE Tracked'
      OBVIOUS
    <3>1. PICK p, k, n : Laid(p, k) /\ Stands(p, k, n) /\ Handed(n)
      BY DEF Tracked
    <3>2. /\ parserState' = parserState /\ buffer' = buffer /\ sent' = sent /\ got' = got
          /\ slice' = slice /\ wire' = wire
      BY <1>6 DEF vars
    <3>3. Rest' = Rest
      BY <3>2 DEF Rest
    <3>4. Laid(p, k)'
      BY <3>1, <3>2, <3>3 DEF Laid
    <3>5. Stands(p, k, n)'
      BY <3>1, <3>2 DEF Stands, Reading
    <3>6. Handed(n)'
      BY <3>1, <3>2 DEF Handed, For, Tells
    <3> QED
      BY <3>4, <3>5, <3>6 DEF Tracked
  <2> QED
    BY <1>1, <1>6, <2>1 DEF LineInv, vars
<1> QED
  BY <1>2, <1>3, <1>4, <1>5, <1>6 DEF Next

\* When all is quiet the messages that are tracked are all there are.
LEMMA AllHanded ==
  ASSUME LineInv, Tracked, Quiet PROVE Handed(Len(sent))
<1>1. PICK p, k, n : Laid(p, k) /\ Stands(p, k, n) /\ Handed(n)
  BY DEF Tracked
<1>2. slice = <<>> /\ wire = <<>> /\ parserState # "Done"
  BY DEF Quiet, Waiting
<1>3. Len(Rest) = 0
  BY <1>2, RestBytes
<1>4. /\ Len(sent) \in Nat /\ n \in 0 .. Len(sent) /\ k \in Nat
      /\ p \in [1 .. Len(sent) + 1 -> Nat] /\ p[Len(sent) + 1] = k
      /\ \A i, j \in 1 .. Len(sent) + 1 : i < j => p[i] < p[j]
  BY <1>1, <1>3, LenProperties DEF LineInv, Laid, Stands
<1>5. n + 1 \in 1 .. Len(sent) + 1 /\ Len(sent) + 1 \in 1 .. Len(sent) + 1
  BY <1>4
<1>6. CASE parserState = "Idle"
  <2>1. k = p[n + 1]
    BY <1>1, <1>6 DEF Stands
  <2>2. ~ n + 1 < Len(sent) + 1
    BY <1>4, <1>5, <2>1
  <2>3. n = Len(sent)
    BY <1>4, <2>2
  <2> QED
    BY <1>1, <2>3
<1>7. CASE parserState # "Idle"
  <2>1. n < Len(sent) /\ Reading(sent[n + 1]) /\ k = p[n + 1] + Len(buffer) + 1
    BY <1>1, <1>2, <1>7 DEF Stands
  <2>2. n + 1 \in 1 .. Len(sent) /\ (n + 1) + 1 \in 1 .. Len(sent) + 1
    BY <1>4, <2>1
  <2>3. p[(n + 1) + 1] = p[n + 1] + Len(sent[n + 1]) + 2
    BY <1>1, <2>2 DEF Laid
  <2>4. /\ Len(buffer) \in Nat /\ Len(sent[n + 1]) \in Nat /\ Len(buffer) <= Len(sent[n + 1])
    BY <1>2, <2>1, <2>2, LenProperties DEF Reading, LineInv, Good, IInv, ParserTypeOK
  <2>5. p[n + 1] \in Nat /\ p[(n + 1) + 1] \in Nat
    BY <1>4, <1>5, <2>2
  <2>6. p[(n + 1) + 1] > k
    BY <2>1, <2>3, <2>4, <2>5
  <2>7. (n + 1) + 1 = Len(sent) + 1 \/ (n + 1) + 1 < Len(sent) + 1
    BY <1>4, <2>1
  <2>8. p[(n + 1) + 1] <= k
    BY <1>4, <1>5, <2>2, <2>5, <2>7
  <2> QED
    BY <1>4, <2>5, <2>6, <2>8
<1> QED
  BY <1>6, <1>7

\* RsHandler.hpp:53-71, MultiNode.hpp:34-65: of messages that are not damaged each node
\* processes all that are for it, in their order and once, whatever is in them, preambles
\* too, up to the longest that fit, and wherever they are cut into slices: the parser
\* refuses no byte and never looks for a beginning in the middle of a message.
THEOREM NoneMissedCorrect == Spec => []NoneMissed
<1>1. LineInv /\ [Next]_vars => LineInv'
  BY StepLine
<1>2. LineInv => NoneMissed
  <2> SUFFICES ASSUME LineInv, Quiet, faults = 0, NEW u \in Uids
               PROVE  \E f \in Surjection(DOMAIN got[u], For(u)) : Tells(f, u)
    BY DEF NoneMissed
  <2>1. Handed(Len(sent))
    BY AllHanded DEF LineInv
  <2>2. For(u) \cap 1 .. Len(sent) = For(u)
    BY LenProperties DEF For, LineInv
  <2> QED
    BY <2>1, <2>2 DEF Handed
<1> QED
  BY InitLine, <1>1, <1>2, PTL DEF Spec

\* Before all has arrived, too, what was processed is what was sent, in its order; of a
\* damaged stream this takes a checksum that tells (InOrder in general).
THEOREM InOrderUndamaged == Spec => [](faults = 0 => InOrder)
<1>1. LineInv /\ [Next]_vars => LineInv'
  BY StepLine
<1>2. LineInv => (faults = 0 => InOrder)
  <2> SUFFICES ASSUME LineInv, faults = 0, NEW u \in Uids
               PROVE  \E f \in [DOMAIN got[u] -> For(u)] : Tells(f, u)
    BY DEF InOrder
  <2>1. PICK p, k, n : Laid(p, k) /\ Stands(p, k, n) /\ Handed(n)
    BY DEF LineInv, Tracked
  <2>2. PICK f \in Surjection(DOMAIN got[u], For(u) \cap 1 .. n) : Tells(f, u)
    BY <2>1 DEF Handed
  <2>3. f \in [DOMAIN got[u] -> For(u)]
    BY <2>2 DEF Surjection
  <2> QED
    BY <2>2, <2>3
<1> QED
  BY InitLine, <1>1, <1>2, PTL DEF Spec

-----------------------------------------------------------------------------
(* After damage.                                                            *)

\* A parser that is astray in a message that never was has room for fewer bytes than
\* Recovery - 1 messages bring, the shortest of which have HeaderSize + 3.
Patient == Recovery \in Nat \ {0} /\ (Recovery - 1) * (HeaderSize + 3) >= BufferSize

\* Of the bytes of m, c were taken; the others are in the slice and in left.
Ahead(m, c, left) ==
  /\ c \in 0 .. Len(m) + 2 /\ Len(slice) + Len(left) = (Len(m) + 2) - c
  /\ \A i \in 1 .. Len(slice) : slice[i] = Create(m)[c + i]
  /\ \A i \in 1 .. Len(left) : left[i] = Create(m)[(c + Len(slice)) + i]

\* The parser is before m, or within it.
InStep(m, c) ==
  /\ parserState = "Idle" => c = 0
  /\ parserState # "Idle" =>
       Reading(m) /\ c = Len(buffer) + (IF parserState = "Done" THEN 2 ELSE 1)

\* It takes m, and the n good messages before it, for part of another.
Astray(n, c) ==
  /\ n + 1 < Recovery /\ parserState # "Idle"
  /\ parserState = "Done" => c > 0
  /\ parserState # "Done" => Len(buffer) >= (HeaderSize + 3) * n + c

\* The last message of every node that m is for.
Kept(m) == \A u \in Uids : Addressed(u, m) => got[u] # <<>> /\ Last(got[u]) = m

\* It waits for the next message.
Settled(m, n, c) ==
  /\ parserState = "Idle" /\ c > 0
  /\ n + 1 < Recovery \/ Kept(m)

\* Where the parser is in the last message it was given, after n other good ones.
Course(m, n, left) ==
  \/ Stuck
  \/ \E c \in 0 .. Len(m) + 2 :
       Ahead(m, c, left) /\ (InStep(m, c) \/ Astray(n, c) \/ Settled(m, n, c))

Latest == sent[Len(sent)]

Former == sent[Len(sent) - 1]

\* The last message is still on the wire, or the parser was given some of it.
Untouched ==
  wire = Create(Latest) /\ (clean > 1 => Plain(Former) /\ Course(Former, clean - 2, <<>>))

Mending ==
  /\ clean \in 0 .. Len(sent)
  /\ clean > 0 => Plain(Latest) /\ (Untouched \/ Course(Latest, clean - 1, wire))

\* In what follows a plain message there is no beginning of another.
LEMMA PlainBytes ==
  ASSUME NEW m, Good(m), Plain(m), NEW j \in 2 .. Len(m) + 2
  PROVE  Create(m)[j] # kPreambl
<1>1. Create(m) \in Seq(Byte) /\ Len(m) \in Nat /\ Len(Create(m)) = Len(m) + 2
  BY CreateBytes
<1>2. PICK t : t = Tail(Create(m))
  OBVIOUS
<1>3. Create(m) # <<>>
  BY <1>1
<1>4. t \in Seq(Byte) /\ Len(t) = Len(m) + 1 /\ \A i \in 1 .. Len(m) + 1 : t[i] = Create(m)[i + 1]
  BY <1>1, <1>2, <1>3, HeadTailProperties
<1>5. j - 1 \in 1 .. Len(m) + 1 /\ (j - 1) + 1 = j
  BY <1>1
<1>6. DOMAIN t = 1 .. Len(t)
  BY <1>4, LenProperties
<1>7. t[j - 1] \in ToSet(t)
  BY <1>4, <1>5, <1>6 DEF ToSet
<1> QED
  BY <1>2, <1>4, <1>5, <1>7 DEF Plain

\* The first byte of the slice is the next of m, and what is behind it stays.
LEMMA AheadHead ==
  ASSUME NEW m, Good(m), NEW left \in Seq(Byte), NEW c, Ahead(m, c, left), InputOK,
         slice # <<>>
  PROVE  /\ c \in Nat /\ c < Len(m) + 2 /\ Head(slice) = Create(m)[c + 1]
         /\ slice' = Tail(slice) => Ahead(m, c + 1, left)'
         /\ slice' = <<>> => \E e \in 1 .. Len(m) + 2 : Ahead(m, e, left)'
<1>1. PICK l, r, k : l = Len(slice) /\ r = Len(left) /\ k = Len(m) + 2
  OBVIOUS
<1>2. /\ l \in Nat \ {0} /\ r \in Nat /\ k \in Nat /\ c \in 0 .. k /\ l + r = k - c
      /\ slice \in Seq(Byte) /\ Len(m) \in Nat
  BY <1>1, LenProperties, EmptySeq, CreateBytes DEF Ahead, InputOK
<1>3. /\ \A i \in 1 .. l : slice[i] = Create(m)[c + i]
      /\ \A i \in 1 .. r : left[i] = Create(m)[(c + l) + i]
  BY <1>1 DEF Ahead
<1>4. c \in Nat /\ c < k
  BY <1>2
<1>5. /\ Head(slice) = slice[1] /\ Len(Tail(slice)) = l - 1
      /\ \A i \in 1 .. l - 1 : Tail(slice)[i] = slice[i + 1]
  BY <1>1, <1>2, HeadTailProperties
<1>6. Head(slice) = Create(m)[c + 1]
  BY <1>2, <1>3, <1>5
<1>7. ASSUME slice' = Tail(slice) PROVE Ahead(m, c + 1, left)'
  <2>1. c + 1 \in 0 .. k /\ (l - 1) + r = k - (c + 1)
    BY <1>2
  <2>2. ASSUME NEW i \in 1 .. l - 1 PROVE Tail(slice)[i] = Create(m)[(c + 1) + i]
    <3>1. i + 1 \in 1 .. l /\ c + (i + 1) = (c + 1) + i
      BY <1>2
    <3> QED
      BY <1>3, <1>5, <3>1
  <2>3. ASSUME NEW i \in 1 .. r PROVE left[i] = Create(m)[((c + 1) + (l - 1)) + i]
    <3>1. (c + 1) + (l - 1) = c + l
      BY <1>2
    <3> QED
      BY <1>3, <3>1
  <2> QED
    BY <1>1, <1>5, <1>7, <2>1, <2>2, <2>3 DEF Ahead
<1>8. ASSUME slice' = <<>> PROVE \E e \in 1 .. k : Ahead(m, e, left)'
  <2>1. c + l \in 1 .. k /\ c + l \in 0 .. k /\ 0 + r = k - (c + l)
    BY <1>2
  <2>2. ASSUME NEW i \in 1 .. r PROVE left[i] = Create(m)[((c + l) + 0) + i]
    <3>1. (c + l) + 0 = c + l
      BY <1>2
    <3> QED
      BY <1>3, <3>1
  <2>3. Len(slice') = 0
    BY <1>8
  <2>4. Ahead(m, c + l, left)'
    BY <1>1, <2>1, <2>2, <2>3 DEF Ahead
  <2> QED
    BY <2>1, <2>4
<1> QED
  BY <1>1, <1>4, <1>6, <1>7, <1>8

\* A parser that stores the byte, or is done with what it stored.
LEMMA ConsumeGrows ==
  ASSUME Parsing, NEW v \in Byte, Consume(v), parserState \notin {"Idle", "Done"}
  PROVE  \/ Stuck
         \/ parserState' = "Idle" \/ parserState' = "Done"
         \/ parserState' \notin {"Idle", "Done"} /\ Len(buffer') = Len(buffer) + 1
<1>1. ASSUME NEW next, next \in State \ {"Idle", "Done"}, Store(v, next)
      PROVE  parserState' \notin {"Idle", "Done"} /\ Len(buffer') = Len(buffer) + 1
  BY <1>1, StoreOK DEF Parsing
<1>2. CASE HeaderByte(v)
  BY <1>1, <1>2 DEF HeaderByte, State
<1>3. CASE HeaderEnd(v)
  <2>1. PICK next \in {"ConstPayload", "VolatilePayload"} : Store(v, next)
    BY <1>3 DEF HeaderEnd
  <2> QED
    BY <1>1, <2>1 DEF State
<1>4. CASE ConstByte(v)
  <2>1. PICK next \in {"Crc", "ConstPayload"} : Store(v, next)
    BY <1>4 DEF ConstByte
  <2> QED
    BY <1>1, <2>1 DEF State
<1>5. CASE BaseByte(v)
  BY <1>1, <1>5 DEF BaseByte, State
<1>6. CASE PayloadByte(v)
  <2>1. PICK next \in {"Crc", "VolatilePayload"} : Store(v, next)
    BY <1>6 DEF PayloadByte
  <2> QED
    BY <1>1, <2>1 DEF State
<1>7. CASE Swallow
  <2>1. ~ IsConst(Type) /\ message.type \in Byte /\ message.type < TypeEnd
    BY <1>7 DEF Swallow, Parsing, Begins, ParserTypeOK
  <2>2. Base # 0
    BY <2>1, Sizes DEF Base, Type, HeaderSize
  <2>3. getVolatileMessageMaxPayloadSize(Type) = MaxPayload
    BY <2>2 DEF Base, getVolatileMessageMaxPayloadSize
  <2> QED
    BY <1>7, <2>3 DEF Swallow, Stuck
<1>8. CASE CrcByte(v)
  BY <1>8 DEF CrcByte, Reset
<1>9. ~ Scan(v)
  BY DEF Scan
<1> QED
  BY <1>2, <1>3, <1>4, <1>5, <1>6, <1>7, <1>8, <1>9 DEF Consume

\* Nothing frees a parser that is stuck.
LEMMA StuckStays ==
  ASSUME IInv, Stuck, Input PROVE Stuck'
<1>1. /\ parserState = "VolatilePayload" /\ Len(buffer) >= Base + MaxPayload
      /\ Len(buffer) \in Nat /\ position = Len(buffer)
  BY LenProperties DEF Stuck, position, IInv, ParserTypeOK
<1>2. ~ IsConst(Type) /\ message.type \in Byte /\ message.type < TypeEnd
  BY <1>1 DEF IInv, Begins, ParserTypeOK
<1>3. Base \in Nat /\ Base # 0
  BY <1>2, Sizes DEF Base, Type, HeaderSize
<1>4. getVolatileMessageMaxPayloadSize(Type) = MaxPayload
  BY <1>3 DEF Base, getVolatileMessageMaxPayloadSize
<1>5. Len(buffer) >= Base + 1 /\ ~ Len(buffer) < Base + MaxPayload
  BY <1>1, <1>3, PayloadAssumption
<1>6. ASSUME NEW v, Refuse(v) PROVE FALSE
  <2>1. ~ UnknownType
    BY <1>1 DEF UnknownType
  <2>2. ~ TooLong(v)
    BY <1>1, <1>3, <1>5 DEF TooLong
  <2>3. ~ Storing
    BY <1>1, <1>4, <1>5 DEF Storing
  <2> QED
    BY <1>6, <2>1, <2>2, <2>3 DEF Refuse
<1>7. ASSUME NEW v, Consume(v) PROVE UNCHANGED parserVars
  <2>1. Swallow
    BY <1>1, <1>3, <1>4, <1>5, <1>7
    DEF Consume, Scan, HeaderByte, HeaderEnd, ConstByte, BaseByte, PayloadByte, CrcByte
  <2> QED
    BY <2>1 DEF Swallow
<1>8. UNCHANGED parserVars
  BY <1>1, <1>6, <1>7 DEF Input, ParseByte, ParseAgain, DropSlice, RouteMessage
<1> QED
  BY <1>8 DEF parserVars, Stuck, position, Base, Type

\* The turn that consumes a byte of m.
LEMMA ParseByteCourse ==
  ASSUME Patient, IInv, NEW m, Good(m), Plain(m), NEW n \in Nat, NEW left \in Seq(Byte),
         Course(m, n, left), ~ Stuck, ParseByte
  PROVE  Course(m, n, left)'
<1>1. PICK c \in 0 .. Len(m) + 2 :
        Ahead(m, c, left) /\ (InStep(m, c) \/ Astray(n, c) \/ Settled(m, n, c))
  BY DEF Course
<1>2. /\ slice # <<>> /\ parserState # "Done" /\ Consume(Head(slice))
      /\ slice' = Tail(slice) /\ got' = got
  BY DEF ParseByte
<1>3. /\ c \in Nat /\ c < Len(m) + 2 /\ Head(slice) = Create(m)[c + 1]
      /\ Ahead(m, c + 1, left)'
  BY <1>1, <1>2, AheadHead DEF IInv
<1>4. /\ Len(m) \in Nat /\ Create(m)[1] = kPreambl /\ Create(m)[Len(m) + 2] = CRC(m)
      /\ \A j \in 1 .. Len(m) : Create(m)[j + 1] = m[j]
  BY CreateBytes
<1>5. Parsing /\ Len(buffer) \in Nat /\ Head(slice) \in Byte
  BY <1>2, LenProperties, HeadTailProperties DEF IInv, Parsing, ParserTypeOK, InputOK
<1>6. c + 1 \in 0 .. Len(m) + 2
  BY <1>3, <1>4
<1>7. SUFFICES InStep(m, c + 1)' \/ Astray(n, c + 1)' \/ Settled(m, n, c + 1)'
  BY <1>3, <1>6 DEF Course
<1>8. CASE InStep(m, c) /\ parserState = "Idle"
  <2>1. c = 0 /\ Head(slice) = kPreambl
    BY <1>3, <1>4, <1>8 DEF InStep
  <2>2. parserState' = "Header" /\ buffer' = buffer
    BY <1>2, <1>8, <2>1 DEF Consume, Scan, HeaderByte, HeaderEnd, ConstByte, BaseByte,
                            PayloadByte, Swallow, CrcByte
  <2>3. Len(buffer') = 0 /\ Len(m) > 0
    BY <1>5, <1>8, <2>2 DEF Parsing, Begins, Good, Whole, HeaderSize
  <2>4. Reading(m)'
    BY <2>2, <2>3 DEF Reading
  <2> QED
    BY <2>1, <2>2, <2>3, <2>4 DEF InStep
<1>9. CASE InStep(m, c) /\ parserState # "Idle"
  <2>1. Reading(m) /\ c = Len(buffer) + 1
    BY <1>2, <1>9 DEF InStep
  <2>2. CASE parserState = "Crc"
    <3>1. buffer = m
      BY <2>1, <2>2 DEF Reading
    <3>2. c + 1 = Len(m) + 2
      BY <1>4, <2>1, <3>1
    <3>3. Reading(m)' /\ parserState' = "Done" /\ buffer' = buffer
      BY <1>2, <1>3, <1>4, <2>1, <2>2, <3>2, CrcTurn
    <3> QED
      BY <3>1, <3>2, <3>3 DEF InStep
  <2>3. CASE parserState # "Crc"
    <3>1. Len(buffer) < Len(m)
      BY <1>2, <2>1, <2>3 DEF Reading
    <3>2. Len(buffer) + 1 \in 1 .. Len(m) /\ c + 1 = (Len(buffer) + 1) + 1
      BY <1>4, <1>5, <2>1, <3>1
    <3>3. Head(slice) = m[Len(buffer) + 1]
      BY <1>3, <1>4, <3>2
    <3>4. Reading(m)' /\ Len(buffer') = Len(buffer) + 1 /\ parserState' # "Done"
      BY <1>2, <1>5, <2>1, <2>3, <3>3, BodyTurn
    <3> QED
      BY <3>2, <3>4 DEF InStep, Reading
  <2> QED
    BY <2>2, <2>3
<1>10. CASE Astray(n, c)
  <2>1. /\ n + 1 < Recovery /\ parserState \notin {"Idle", "Done"}
        /\ Len(buffer) >= 7 * n + c
    BY <1>2, <1>10 DEF Astray, HeaderSize
  <2>2. \/ parserState' = "Idle" \/ parserState' = "Done"
        \/ parserState' \notin {"Idle", "Done"} /\ Len(buffer') = Len(buffer) + 1
    BY <1>2, <1>5, <2>1, ConsumeGrows
  <2>3. c + 1 > 0
    BY <1>3
  <2>4. CASE parserState' = "Idle"
    BY <2>1, <2>3, <2>4 DEF Settled
  <2>5. CASE parserState' = "Done"
    BY <2>1, <2>3, <2>5 DEF Astray
  <2>6. CASE parserState' \notin {"Idle", "Done"} /\ Len(buffer') = Len(buffer) + 1
    <3>1. Len(buffer') >= 7 * n + (c + 1)
      BY <1>3, <1>5, <2>1, <2>6
    <3> QED
      BY <2>1, <2>6, <3>1 DEF Astray, HeaderSize
  <2> QED
    BY <2>2, <2>4, <2>5, <2>6
<1>11. CASE Settled(m, n, c)
  <2>1. parserState = "Idle" /\ c > 0 /\ c + 1 > 0 /\ (n + 1 < Recovery \/ Kept(m))
    BY <1>3, <1>11 DEF Settled
  <2>2. c + 1 \in 2 .. Len(m) + 2
    BY <1>3, <1>4, <2>1
  <2>3. Head(slice) # kPreambl
    BY <1>3, <2>2, PlainBytes
  <2>4. parserState' = "Idle"
    BY <1>2, <2>1, <2>3 DEF Consume, Scan, HeaderByte, HeaderEnd, ConstByte, BaseByte,
                            PayloadByte, Swallow, CrcByte
  <2>5. Kept(m) => Kept(m)'
    BY <1>2 DEF Kept
  <2> QED
    BY <2>1, <2>4, <2>5 DEF Settled
<1> QED
  BY <1>1, <1>8, <1>9, <1>10, <1>11

\* A byte that is refused ends what the parser pretended to read; it was not in m.
LEMMA RefuseCourse ==
  ASSUME Patient, IInv, NEW m, Good(m), Plain(m), NEW n \in Nat, NEW left \in Seq(Byte),
         Course(m, n, left), ~ Stuck, ParseAgain \/ DropSlice
  PROVE  Course(m, n, left)'
<1>1. PICK c \in 0 .. Len(m) + 2 :
        Ahead(m, c, left) /\ (InStep(m, c) \/ Astray(n, c) \/ Settled(m, n, c))
  BY DEF Course
<1>2. /\ slice # <<>> /\ Refuse(Head(slice)) /\ parserState' = "Idle"
      /\ parserState \in {"Header", "ConstPayload", "VolatilePayload"}
  BY DEF ParseAgain, DropSlice, Refuse, UnknownType, TooLong, Storing, Reset
<1>3. /\ c \in Nat /\ c < Len(m) + 2 /\ Head(slice) = Create(m)[c + 1]
      /\ slice' = <<>> => \E e \in 1 .. Len(m) + 2 : Ahead(m, e, left)'
  BY <1>1, <1>2, AheadHead DEF IInv
<1>4. /\ Len(m) \in Nat /\ \A j \in 1 .. Len(m) : Create(m)[j + 1] = m[j]
  BY CreateBytes
<1>5. Parsing /\ Len(buffer) \in Nat
  BY LenProperties DEF IInv, Parsing, ParserTypeOK
<1>6. ~ InStep(m, c)
  <2> SUFFICES ASSUME InStep(m, c) PROVE FALSE
    OBVIOUS
  <2>1. Reading(m) /\ c = Len(buffer) + 1 /\ Len(buffer) < Len(m)
    BY <1>2 DEF InStep, Reading
  <2>2. Len(buffer) + 1 \in 1 .. Len(m) /\ c + 1 = (Len(buffer) + 1) + 1
    BY <1>4, <1>5, <2>1
  <2>3. Head(slice) = m[Len(buffer) + 1]
    BY <1>3, <1>4, <2>2
  <2> QED
    BY <1>2, <1>5, <2>1, <2>3, NoneRefused
<1>7. n + 1 < Recovery
  BY <1>1, <1>2, <1>6 DEF Astray, Settled
<1>8. ASSUME NEW e \in 1 .. Len(m) + 2, Ahead(m, e, left)'
      PROVE  Course(m, n, left)'
  <2>1. e \in 0 .. Len(m) + 2 /\ e > 0
    BY <1>4, <1>8
  <2>2. Settled(m, n, e)'
    BY <1>2, <1>7, <2>1 DEF Settled
  <2> QED
    BY <1>8, <2>1, <2>2 DEF Course
<1>9. CASE DropSlice
  BY <1>3, <1>8, <1>9 DEF DropSlice
<1>10. CASE ParseAgain
  <2>1. slice' = slice
    BY <1>10 DEF ParseAgain
  <2>2. Ahead(m, c, left)'
    BY <1>1, <2>1 DEF Ahead
  <2>3. CASE c = 0
    <3>1. InStep(m, c)'
      BY <1>2, <2>3 DEF InStep
    <3> QED
      BY <1>1, <2>2, <3>1 DEF Course
  <2>4. CASE c # 0
    BY <1>3, <1>4, <1>8, <2>2, <2>4
  <2> QED
    BY <2>3, <2>4
<1> QED
  BY <1>9, <1>10

\* m is routed, or the message that m was taken for.
LEMMA RouteCourse ==
  ASSUME Patient, IInv, NEW m, Good(m), Plain(m), NEW n \in Nat, NEW left \in Seq(Byte),
         Course(m, n, left), ~ Stuck, RouteMessage
  PROVE  Course(m, n, left)'
<1>1. PICK c \in 0 .. Len(m) + 2 :
        Ahead(m, c, left) /\ (InStep(m, c) \/ Astray(n, c) \/ Settled(m, n, c))
  BY DEF Course
<1>2. /\ parserState = "Done" /\ parserState' = "Idle" /\ slice' = slice
      /\ got' = [u \in Uids |-> IF Routes(u, buffer) THEN Append(got[u], buffer) ELSE got[u]]
  BY DEF RouteMessage, Reset
<1>3. Ahead(m, c, left)'
  BY <1>1, <1>2 DEF Ahead
<1>4. SUFFICES Settled(m, n, c)'
  BY <1>1, <1>3 DEF Course
<1>5. CASE InStep(m, c)
  <2>1. buffer = m /\ c = Len(m) + 2
    BY <1>2, <1>5 DEF InStep, Reading
  <2>2. c > 0
    BY <2>1, CreateBytes
  <2>3. ASSUME NEW u \in Uids, Addressed(u, m)
        PROVE  got'[u] # <<>> /\ Last(got'[u]) = m
    <3>1. Routes(u, buffer)
      BY <2>1, <2>3 DEF Routes, ReceiverOf, Addressed
    <3>2. got[u] \in Seq(Seq(Byte)) /\ m \in Seq(Byte)
      BY DEF IInv, InputOK, Good
    <3>3. got'[u] = Append(got[u], m)
      BY <1>2, <2>1, <3>1
    <3>4. PICK g, h : g = got[u] /\ h = Append(g, m)
      OBVIOUS
    <3>5. g \in Seq(Seq(Byte)) /\ got'[u] = h
      BY <3>2, <3>3, <3>4
    <3>6. Len(h) = Len(g) + 1 /\ h[Len(g) + 1] = m /\ Len(g) \in Nat
      BY <3>2, <3>4, <3>5, AppendProperties, LenProperties
    <3>7. h # <<>> /\ Last(h) = m
      BY <3>6 DEF Last
    <3> QED
      BY <3>5, <3>7
  <2>4. Kept(m)'
    BY <2>3 DEF Kept
  <2> QED
    BY <1>2, <2>2, <2>4 DEF Settled
<1>6. CASE Astray(n, c)
  BY <1>2, <1>6 DEF Astray, Settled
<1>7. CASE Settled(m, n, c)
  BY <1>2, <1>7 DEF Settled
<1> QED
  BY <1>1, <1>5, <1>6, <1>7

LEMMA InputCourse ==
  ASSUME Patient, IInv, NEW m, Good(m), Plain(m), NEW n \in Nat, NEW left \in Seq(Byte),
         Course(m, n, left), Input
  PROVE  Course(m, n, left)'
<1>1. CASE Stuck
  BY <1>1, StuckStays DEF Course
<1>2. CASE ~ Stuck
  BY <1>2, ParseByteCourse, RefuseCourse, RouteCourse DEF Input
<1> QED
  BY <1>1, <1>2

\* What a parser makes of the end of one message it waits with for the next: it is in
\* step or, after n good messages that it took for part of another, has stored them.
LEMMA NextCourse ==
  ASSUME Patient, IInv, NEW m, Good(m), NEW n \in Nat, wire = Create(m), Waiting,
         n > 0 => \E f : Good(f) /\ Course(f, n - 1, <<>>)
  PROVE  Course(m, n, wire)
<1>1. /\ Recovery \in Nat /\ (Recovery - 1) * 7 >= BufferSize /\ BufferSize \in Nat \ {0}
      /\ Len(buffer) \in Nat /\ Len(buffer) < BufferSize
  BY BufferAssumption, LenProperties DEF Patient, IInv, ParserTypeOK, position, HeaderSize
<1>2. slice = <<>> /\ parserState # "Done" /\ Len(slice) = 0
  BY DEF Waiting
<1>3. Len(m) \in Nat /\ Len(wire) = Len(m) + 2
  BY CreateBytes
<1>4. Ahead(m, 0, wire)
  <2>1. \A i \in 1 .. Len(wire) : wire[i] = Create(m)[(0 + 0) + i]
    BY <1>3
  <2> QED
    BY <1>2, <1>3, <2>1 DEF Ahead
<1>5. 0 \in 0 .. Len(m) + 2
  BY <1>3
<1>6. SUFFICES ASSUME ~ Stuck, parserState # "Idle"
               PROVE  Astray(n, 0)
  BY <1>4, <1>5 DEF Course, InStep
<1>7. SUFFICES Len(buffer) >= 7 * n + 0
  BY <1>1, <1>2, <1>6, <1>7 DEF Astray, HeaderSize
<1>8. CASE n = 0
  BY <1>1, <1>8
<1>9. CASE n > 0
  <2>1. PICK f : Good(f) /\ Course(f, n - 1, <<>>)
    BY <1>9
  <2>2. PICK c \in 0 .. Len(f) + 2 :
          /\ Ahead(f, c, <<>>)
          /\ InStep(f, c) \/ Astray(n - 1, c) \/ Settled(f, n - 1, c)
    BY <1>6, <2>1 DEF Course
  <2>3. Len(f) \in Nat /\ Len(f) > 4
    BY <2>1, LenProperties DEF Good, Whole, HeaderSize
  <2>4. c = Len(f) + 2
    BY <1>2, <2>2, <2>3 DEF Ahead
  <2>5. ~ InStep(f, c)
    <3> SUFFICES ASSUME InStep(f, c) PROVE FALSE
      OBVIOUS
    <3>1. Reading(f) /\ c = Len(buffer) + 1
      BY <1>2, <1>6 DEF InStep
    <3>2. Len(buffer) <= Len(f)
      BY <1>1, <1>2, <2>3, <3>1 DEF Reading
    <3> QED
      BY <1>1, <2>3, <2>4, <3>1, <3>2
  <2>6. ~ Settled(f, n - 1, c)
    BY <1>6 DEF Settled
  <2>7. Len(buffer) >= 7 * (n - 1) + c
    BY <1>2, <2>2, <2>5, <2>6 DEF Astray, HeaderSize
  <2> QED
    BY <1>1, <1>9, <2>3, <2>4, <2>7
<1> QED
  BY <1>8, <1>9

-----------------------------------------------------------------------------

\* What is known of the messages that were sent.
Sending ==
  /\ IInv /\ Bytewise
  /\ sent \in Seq(Seq(Byte)) /\ \A i \in 1 .. Len(sent) : Good(sent[i])

LEMMA LatestGood ==
  ASSUME Sending, Mending
  PROVE  /\ Len(sent) \in Nat /\ clean \in Nat /\ clean <= Len(sent)
         /\ clean > 0 => Good(Latest)
         /\ clean > 1 => Good(Former)
<1>1. Len(sent) \in Nat /\ clean \in 0 .. Len(sent)
  BY LenProperties DEF Sending, Mending
<1>2. clean > 0 => Len(sent) \in 1 .. Len(sent)
  BY <1>1
<1>3. clean > 1 => Len(sent) - 1 \in 1 .. Len(sent)
  BY <1>1
<1> QED
  BY <1>1, <1>2, <1>3 DEF Sending, Latest, Former

\* A message is sent, and may be the next good one.
LEMMA SendMending ==
  ASSUME Sending, Mending, NEW m, Good(m), sent' = Append(sent, m), UNCHANGED inputVars,
         clean' = 0 \/ (/\ clean' = clean + 1 /\ wire = <<>> /\ Plain(m)
                        /\ wire' = wire \o Create(m))
  PROVE  Mending'
<1>1. /\ Len(sent) \in Nat /\ clean \in Nat /\ clean <= Len(sent)
      /\ clean > 0 => Good(Latest)
  BY LatestGood
<1>2. sent \in Seq(Seq(Byte)) /\ m \in Seq(Byte)
  BY DEF Sending, Good
<1>3. /\ Len(sent') = Len(sent) + 1 /\ sent'[Len(sent) + 1] = m
      /\ \A i \in 1 .. Len(sent) : sent'[i] = sent[i]
  BY <1>2, AppendProperties
<1>4. CASE clean' = 0
  BY <1>1, <1>3, <1>4 DEF Mending
<1>5. CASE clean' = clean + 1 /\ wire = <<>> /\ Plain(m) /\ wire' = wire \o Create(m)
  <2>1. Create(m) \in Seq(Byte) /\ wire' = Create(m)
    BY <1>5, CreateBytes, ConcatEmptySeq
  <2>2. Latest' = m /\ Plain(Latest)'
    BY <1>3, <1>5 DEF Latest, Plain
  <2>3. clean' \in 0 .. Len(sent')
    BY <1>1, <1>3, <1>5
  <2>4. clean > 0 => Former' = Latest
    <3> SUFFICES ASSUME clean > 0 PROVE sent'[Len(sent') - 1] = sent[Len(sent)]
      BY DEF Former, Latest
    <3>1. Len(sent') - 1 = Len(sent) /\ Len(sent) \in 1 .. Len(sent)
      BY <1>1, <1>3
    <3> QED
      BY <1>3, <3>1
  <2>5. clean > 0 => Plain(Latest) /\ Course(Latest, clean - 1, <<>>)
    <3> SUFFICES ASSUME clean > 0 PROVE Plain(Latest) /\ Course(Latest, clean - 1, <<>>)
      OBVIOUS
    <3>1. ~ Untouched
      <4>1. Len(Create(Latest)) > 0
        BY <1>1, CreateBytes
      <4> QED
        BY <1>5, <4>1 DEF Untouched
    <3> QED
      BY <1>5, <3>1 DEF Mending
  <2>6. ASSUME NEW f, NEW e, Course(f, e, <<>>) PROVE Course(f, e, <<>>)'
    <3>1. /\ parserState' = parserState /\ buffer' = buffer /\ message' = message
          /\ slice' = slice /\ got' = got
      BY DEF inputVars
    <3> QED
      BY <2>6, <3>1 DEF Course, Stuck, position, Base, Type, Ahead, InStep, Reading, Astray,
                        Settled, Kept
  <2>7. clean' > 1 => clean > 0 /\ clean' - 2 = clean - 1
    BY <1>1, <1>5
  <2>8. clean' > 1 => Plain(Former)' /\ Course(Former, clean - 2, <<>>)'
    <3> SUFFICES ASSUME clean' > 1 PROVE Plain(Former)' /\ Course(Former, clean - 2, <<>>)'
      OBVIOUS
    <3>1. PICK f, e : f = Latest /\ e = clean - 1
      OBVIOUS
    <3>2. Plain(f) /\ Course(f, e, <<>>)'
      BY <2>5, <2>6, <2>7, <3>1
    <3>3. Former' = f /\ (clean - 2)' = e
      BY <2>4, <2>7, <3>1
    <3>4. Plain(Former)'
      BY <3>2, <3>3 DEF Plain
    <3>5. Course(Former, clean - 2, <<>>)'
      BY <3>2, <3>3 DEF Course, Ahead, InStep, Reading, Astray, Settled, Kept
    <3> QED
      BY <3>4, <3>5
  <2>9. Untouched'
    BY <2>1, <2>2, <2>8 DEF Untouched
  <2> QED
    BY <2>2, <2>3, <2>9 DEF Mending
<1> QED
  BY <1>4, <1>5

\* The device reads some of the message.
LEMMA ReceiveMending ==
  ASSUME Patient, Sending, Mending, NEW i \in 1 .. Len(wire), Receive(i)
  PROVE  Mending'
<1>1. /\ Len(sent) \in Nat /\ clean \in Nat /\ clean <= Len(sent)
      /\ clean > 0 => Good(Latest)
      /\ clean > 1 => Good(Former)
  BY LatestGood
<1>2. wire \in Seq(Byte) /\ Len(wire) \in Nat /\ i \in Nat /\ i >= 1 /\ i <= Len(wire)
  BY LenProperties DEF Sending, Bytewise
<1>3. /\ Waiting /\ slice = <<>> /\ slice' = SubSeq(wire, 1, i)
      /\ wire' = SubSeq(wire, i + 1, Len(wire))
      /\ sent' = sent /\ clean' = clean /\ got' = got
      /\ parserState' = parserState /\ buffer' = buffer /\ message' = message
  BY DEF Receive, Update, Waiting, parserVars
<1>4. SUFFICES ASSUME clean > 0 PROVE Course(Latest, clean - 1, wire)'
  BY <1>3 DEF Mending, Latest, Plain
<1>5. PICK m, n : m = Latest /\ n = clean - 1
  OBVIOUS
<1>6. Good(m) /\ Plain(m) /\ n \in Nat /\ m' = m /\ n' = n
  BY <1>1, <1>4, <1>5 DEF Mending
<1>7. Course(m, n, wire)
  <2>1. CASE Untouched
    <3>1. wire = Create(m)
      BY <1>5, <2>1 DEF Untouched
    <3>2. n > 0 => Good(Former) /\ Course(Former, n - 1, <<>>)
      <4>1. n > 0 => clean > 1 /\ n - 1 = clean - 2
        BY <1>1, <1>5
      <4> QED
        BY <1>1, <2>1, <4>1 DEF Untouched
    <3> QED
      BY <1>3, <1>6, <3>1, <3>2, NextCourse DEF Sending
  <2>2. CASE ~ Untouched
    BY <1>4, <1>5, <2>2 DEF Mending
  <2> QED
    BY <2>1, <2>2
<1>8. ASSUME NEW c, Ahead(m, c, wire) PROVE Ahead(m, c, wire)'
  <2>1. PICK k, l : k = Len(m) + 2 /\ l = Len(wire)
    OBVIOUS
  <2>2. /\ Len(slice) = 0 /\ c \in 0 .. k /\ l = k - c /\ k \in Nat /\ l \in Nat
        /\ \A j \in 1 .. l : wire[j] = Create(m)[c + j]
    <3>1. /\ Len(slice) = 0 /\ c \in 0 .. k /\ 0 + l = k - c /\ k \in Nat /\ l \in Nat
          /\ \A j \in 1 .. l : wire[j] = Create(m)[(c + 0) + j]
      BY <1>2, <1>3, <1>6, <1>8, <2>1, CreateBytes DEF Ahead
    <3>2. c + 0 = c /\ 0 + l = l
      BY <3>1
    <3> QED
      BY <3>1, <3>2
  <2>3. /\ slice' \in Seq(Byte) /\ Len(slice') = i
        /\ \A j \in 1 .. i : slice'[j] = wire[j]
    <3>1. /\ Len(slice') = i - 1 + 1 /\ slice' \in Seq(Byte)
          /\ \A j \in 1 .. i - 1 + 1 : slice'[j] = wire[1 + j - 1]
      BY <1>2, <1>3, SubSeqProperties
    <3>2. i - 1 + 1 = i /\ \A j \in 1 .. i : 1 + j - 1 = j
      BY <1>2
    <3> QED
      BY <3>1, <3>2
  <2>4. Len(wire') = l - i /\ \A j \in 1 .. l - i : wire'[j] = wire[i + j]
    <3>1. PICK w : w = wire'
      OBVIOUS
    <3>2. /\ w = SubSeq(wire, i + 1, l)
          /\ Len(w) = IF i + 1 <= l THEN l - (i + 1) + 1 ELSE 0
          /\ \A j \in 1 .. l - (i + 1) + 1 : w[j] = wire[(i + 1) + j - 1]
      BY <1>2, <1>3, <2>1, <3>1, SubSeqProperties
    <3>3. /\ i + 1 <= l => l - (i + 1) + 1 = l - i
          /\ ~ i + 1 <= l => l - i = 0
          /\ l - (i + 1) + 1 = l - i
          /\ \A j \in 1 .. l - i : (i + 1) + j - 1 = i + j
      BY <1>2, <2>1
    <3> QED
      BY <3>1, <3>2, <3>3
  <2>5. \A j \in 1 .. i : slice'[j] = Create(m)[c + j]
    <3>1. \A j \in 1 .. i : j \in 1 .. l
      BY <1>2, <2>1
    <3> QED
      BY <2>2, <2>3, <3>1
  <2>6. \A j \in 1 .. l - i : wire'[j] = Create(m)[(c + i) + j]
    <3> SUFFICES ASSUME NEW j \in 1 .. l - i PROVE wire'[j] = Create(m)[(c + i) + j]
      OBVIOUS
    <3>1. i + j \in 1 .. l /\ c + (i + j) = (c + i) + j
      BY <1>2, <2>1, <2>2
    <3> QED
      BY <2>2, <2>4, <3>1
  <2>7. i + (l - i) = k - c
    BY <1>2, <2>1, <2>2
  <2> QED
    BY <2>1, <2>2, <2>3, <2>4, <2>5, <2>6, <2>7 DEF Ahead
<1>9. Course(m, n, wire)'
  <2>1. CASE Stuck
    BY <1>3, <2>1 DEF Course, Stuck, position, Base, Type
  <2>2. CASE ~ Stuck
    <3>1. PICK c \in 0 .. Len(m) + 2 :
            Ahead(m, c, wire) /\ (InStep(m, c) \/ Astray(n, c) \/ Settled(m, n, c))
      BY <1>7, <2>2 DEF Course
    <3>2. Ahead(m, c, wire)'
      BY <1>8, <3>1
    <3>3. (InStep(m, c) \/ Astray(n, c) \/ Settled(m, n, c))'
      BY <1>3, <3>1 DEF InStep, Reading, Astray, Settled, Kept
    <3> QED
      BY <3>1, <3>2, <3>3 DEF Course
  <2> QED
    BY <2>1, <2>2
<1>10. Latest' = m /\ (clean - 1)' = n
  BY <1>3, <1>5 DEF Latest
<1> QED
  BY <1>9, <1>10 DEF Course, Ahead, InStep, Reading, Astray, Settled, Kept

\* The device goes on with what it has read.
LEMMA InputMending ==
  ASSUME Patient, Sending, Mending, Input, UNCHANGED <<wire, sent, faults, clean>>
  PROVE  Mending'
<1>1. /\ Len(sent) \in Nat /\ clean \in Nat /\ clean <= Len(sent)
      /\ clean > 0 => Good(Latest)
      /\ clean > 1 => Good(Former)
  BY LatestGood
<1>2. IInv /\ wire \in Seq(Byte) /\ <<>> \in Seq(Byte)
  BY DEF Sending, Bytewise
<1>3. PICK l, f, w, k : l = Latest /\ f = Former /\ w = wire /\ k = clean
  OBVIOUS
<1>4. Latest' = l /\ Former' = f /\ wire' = w /\ clean' = k
  BY <1>3 DEF Latest, Former
<1>5. SUFFICES ASSUME k > 0
               PROVE  Untouched' \/ Course(Latest, clean - 1, wire)'
  BY <1>3, <1>4 DEF Mending, Latest, Plain
<1>6. k - 1 \in Nat /\ (k > 1 => k - 2 \in Nat) /\ Good(l) /\ Plain(l)
  BY <1>1, <1>3, <1>5 DEF Mending
<1>7. CASE Untouched
  <2>1. w = Create(l) /\ (k > 1 => Good(f) /\ Plain(f) /\ Course(f, k - 2, <<>>))
    BY <1>1, <1>3, <1>7 DEF Untouched
  <2>2. k > 1 => Course(f, k - 2, <<>>)'
    BY <1>2, <1>6, <2>1, InputCourse
  <2>3. k > 1 => Course(Former, clean - 2, <<>>)'
    BY <1>4, <2>2 DEF Course, Ahead, InStep, Reading, Astray, Settled, Kept
  <2> QED
    BY <1>4, <2>1, <2>3 DEF Untouched, Plain, Create
<1>8. CASE ~ Untouched
  <2>1. Course(l, k - 1, w)
    BY <1>3, <1>5, <1>8 DEF Mending
  <2>2. Course(l, k - 1, w)'
    BY <1>2, <1>3, <1>6, <2>1, InputCourse
  <2> QED
    BY <1>4, <2>2 DEF Course, Ahead, InStep, Reading, Astray, Settled, Kept
<1> QED
  BY <1>7, <1>8

LEMMA StepMending ==
  ASSUME Patient, Sending /\ Mending, [Next]_vars PROVE (Sending /\ Mending)'
<1>1. IInv' /\ Bytewise'
  BY LineStep, InputStep DEF Sending
<1>2. ASSUME NEW m \in Messages, Send(m) \/ SendDamaged(m)
      PROVE  (Sending /\ Mending)'
  <2>1. sent' = Append(sent, m) /\ Good(m) /\ m \in Seq(Byte) /\ UNCHANGED inputVars
    BY <1>2, SendableGood DEF Send, SendDamaged, Good
  <2>2. sent' \in Seq(Seq(Byte)) /\ \A i \in 1 .. Len(sent') : Good(sent'[i])
    BY <2>1 DEF Sending
  <2>3. clean' = 0 \/ (/\ clean' = clean + 1 /\ wire = <<>> /\ Plain(m)
                       /\ wire' = wire \o Create(m))
    BY <1>2 DEF Send, SendDamaged
  <2>4. Mending'
    BY <2>1, <2>3, SendMending
  <2> QED
    BY <1>1, <2>2, <2>4 DEF Sending
<1>3. ASSUME NEW i \in 1 .. Len(wire), Receive(i)
      PROVE  (Sending /\ Mending)'
  BY <1>1, <1>3, ReceiveMending DEF Sending, Receive
<1>4. CASE Input /\ UNCHANGED <<wire, sent, faults, clean>>
  BY <1>1, <1>4, InputMending DEF Sending
<1>5. CASE UNCHANGED vars
  <2>1. Mending'
    BY <1>5 DEF vars, Mending, Untouched, Latest, Former, Plain, Course, Stuck, position, Base,
                Type, Ahead, InStep, Reading, Astray, Settled, Kept
  <2> QED
    BY <1>1, <1>5, <2>1 DEF Sending, vars
<1> QED
  BY <1>2, <1>3, <1>4, <1>5 DEF Next

LEMMA InitMending == Init => Sending /\ Mending
<1> SUFFICES ASSUME Init PROVE Sending /\ Mending
  OBVIOUS
<1>1. IInv /\ wire = <<>> /\ sent = <<>> /\ clean = 0
  BY InputInit DEF Init
<1> QED
  BY <1>1 DEF Sending, Mending, Bytewise

\* RsHandler.hpp:53-71, RsParser.hpp:49-160: whatever the line did to the messages
\* before, how many were damaged and in which way, the parser is back in step after
\* Recovery good ones, as many as fill its buffer and one more: each node has processed the
\* last of them, if it is for it and the parser is not stuck.
THEOREM RecoversCorrect == Patient => (Spec => []Recovers)
<1> SUFFICES ASSUME Patient PROVE Spec => []Recovers
  OBVIOUS
<1>1. Sending /\ Mending /\ [Next]_vars => (Sending /\ Mending)'
  BY StepMending
<1>2. Sending /\ Mending => Recovers
  <2> SUFFICES ASSUME Sending, Mending, Quiet, clean >= Recovery, ~ Stuck,
                      NEW u \in Uids, Addressed(u, Last(sent))
               PROVE  got[u] # <<>> /\ Last(got[u]) = Last(sent)
    BY DEF Recovers
  <2>1. /\ Len(sent) \in Nat /\ clean \in Nat /\ clean <= Len(sent)
        /\ clean > 0 => Good(Latest)
    BY LatestGood
  <2>2. Recovery \in Nat \ {0} /\ clean > 0
    BY <2>1 DEF Patient
  <2>3. wire = <<>> /\ slice = <<>> /\ parserState # "Done"
    BY DEF Quiet, Waiting
  <2>4. Last(sent) = Latest
    BY DEF Last, Latest
  <2>5. PICK m : m = Latest
    OBVIOUS
  <2>6. Good(m) /\ Len(m) \in Nat /\ Len(Create(m)) = Len(m) + 2
    BY <2>1, <2>2, <2>5, CreateBytes
  <2>7. ~ Untouched
    BY <2>3, <2>5, <2>6 DEF Untouched
  <2>8. PICK c \in 0 .. Len(m) + 2 :
          Ahead(m, c, <<>>)
          /\ (InStep(m, c) \/ Astray(clean - 1, c) \/ Settled(m, clean - 1, c))
    BY <2>2, <2>3, <2>5, <2>7 DEF Mending, Course
  <2>9. c = Len(m) + 2
    BY <2>3, <2>6, <2>8 DEF Ahead
  <2>10. ~ InStep(m, c)
    <3> SUFFICES ASSUME InStep(m, c) PROVE FALSE
      OBVIOUS
    <3>1. c # 0
      BY <2>6, <2>9
    <3>2. Reading(m) /\ c = Len(buffer) + 1 /\ Len(buffer) \in Nat
      BY <2>3, <3>1, LenProperties DEF InStep, Sending, IInv, ParserTypeOK
    <3>3. Len(buffer) <= Len(m)
      BY <2>3, <2>6, <3>2 DEF Reading
    <3> QED
      BY <2>6, <2>9, <3>2, <3>3
  <2>11. ~ (clean - 1) + 1 < Recovery
    BY <2>1, <2>2
  <2>12. Kept(m)
    BY <2>8, <2>10, <2>11 DEF Astray, Settled
  <2> QED
    BY <2>4, <2>5, <2>12 DEF Kept
<1> QED
  BY InitMending, <1>1, <1>2, PTL DEF Spec

=============================================================================
