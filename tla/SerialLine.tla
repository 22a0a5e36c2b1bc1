----------------------------- MODULE SerialLine -----------------------------
(***************************************************************************)
(* A node that sends and a device that listens, joined by a line: what     *)
(* create puts on it, what becomes of it on the way, and what the nodes of *)
(* the device make of it.  The line keeps the order of the bytes; it may   *)
(* change or lose a byte of a message.                                     *)
(***************************************************************************)
EXTENDS MultiNode, SequencesExt

CONSTANTS
  Messages,   \* what the sender has to say
  Noise,      \* the values a changed byte may take
  MaxSent,    \* bound on the messages sent
  MaxWire,    \* bound on the bytes under way when a message is sent
  MaxFaults,  \* bound on the messages that are damaged
  Recovery    \* the messages it takes at most to recover from one

\* messageBuffer holds what create writes to it.  sendAnswer looks at that
\* itself.  A payload is neither empty nor longer than the parser allows.
ASSUME MessageAssumption ==
  /\ \A m \in Messages : m \in Seq(Byte) /\ CRC(m) \in Byte /\ Whole(m)
  /\ \A m \in Messages :
       LET type == TypeOf(m[TypeAt])
       IN  /\ type # "BlobAnswer" => Len(m) + 2 <= BufferSize
           /\ ~ IsConst(type) => m[getVolatileMessageBaseSize(type)] <= MaxPayload
  /\ Noise \subseteq Byte

VARIABLES
  wire,    \* the bytes under way
  sent,    \* the messages sent
  faults,  \* how many were damaged
  clean    \* how many plain ones were sent at last

vars == <<parserState, buffer, message, slice, entered, got, wire, sent, faults, clean>>

\* The second test of sendAnswer.
AnswerFits(m) == Len(m) + 2 <= BufferSize

Sendable(m) == TypeOf(m[TypeAt]) = "BlobAnswer" => AnswerFits(m)

Lost(s) == {RemoveAt(s, i) : i \in DOMAIN s}

Changed(s) == {ReplaceAt(s, i, v) : i \in DOMAIN s, v \in Noise} \ {s}

Ready == Len(sent) < MaxSent /\ Len(wire) <= MaxWire

\* No byte of the message can be taken for a preamble.
Plain(m) == kPreambl \notin ToSet(Tail(Create(m)))

Send(m) ==
  /\ Ready /\ Sendable(m)
  /\ wire' = wire \o Create(m) /\ sent' = Append(sent, m)
  /\ clean' = IF Plain(m) /\ wire = <<>> THEN clean + 1 ELSE 0
  /\ UNCHANGED <<inputVars, faults>>

SendDamaged(m) ==
  /\ Ready /\ Sendable(m) /\ faults < MaxFaults
  /\ \E s \in Lost(Create(m)) \cup Changed(Create(m)) : wire' = wire \o s
  /\ sent' = Append(sent, m)
  /\ faults' = faults + 1 /\ clean' = 0
  /\ UNCHANGED inputVars

\* The device reads some of the bytes and passes them to update.
Receive(n) ==
  /\ Update(SubSeq(wire, 1, n))
  /\ wire' = SubSeq(wire, n + 1, Len(wire))
  /\ UNCHANGED <<sent, faults, clean>>

Init == InitInput /\ wire = <<>> /\ sent = <<>> /\ faults = 0 /\ clean = 0

Next ==
  \/ \E m \in Messages : Send(m) \/ SendDamaged(m)
  \/ \E n \in 1 .. Len(wire) : Receive(n)
  \/ Input /\ UNCHANGED <<wire, sent, faults, clean>>

Spec == Init /\ [][Next]_vars

-----------------------------------------------------------------------------
(* Properties.                                                             *)

\* The places of the messages for u.
For(u) == {i \in DOMAIN sent : Addressed(u, sent[i])}

\* f says which message each of those that u has processed is: no other, and
\* in their order.
Tells(f, u) ==
  /\ \A i \in DOMAIN f : got[u][i] = sent[f[i]]
  /\ \A i, j \in DOMAIN f : i < j => f[i] < f[j]

\* Each node processes messages that were sent, for it or for all, in their
\* order and none twice, although the line damages messages on the way.
InOrder == \A u \in Uids : \E f \in [DOMAIN got[u] -> For(u)] : Tells(f, u)

Quiet == wire = <<>> /\ Waiting

\* Of a message stream that is not damaged no node misses a message,
\* however the stream is cut into slices, and up to the size sendAnswer allows.
NoneMissed ==
  Quiet /\ faults = 0 =>
    \A u \in Uids : \E f \in Surjection(DOMAIN got[u], For(u)) : Tells(f, u)

\* A payload of length 0 is awaited in a buffer that does not end it.
Stuck == parserState = "VolatilePayload" /\ position >= Base + MaxPayload

\* After damage, Recovery good messages bring the parser back into step: the
\* last of them is processed, whatever the damage pretended to be, unless it
\* was a message without payload in a buffer too large to end it.
Recovers ==
  Quiet /\ clean >= Recovery /\ ~ Stuck =>
    \A u \in Uids : Addressed(u, Last(sent)) => got[u] # <<>> /\ Last(got[u]) = Last(sent)

=============================================================================
