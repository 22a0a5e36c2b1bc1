----------------------------- MODULE MultiNode ------------------------------
(***************************************************************************)
(* One physical device with several nodes behind one parser: MultiNode     *)
(* (include/UtilitaryRS/MultiNode.hpp).  An RsHandler that stands alone is *)
(* the case of a single node: RsHandler::update is the same loop, process  *)
(* the same test of the receiver.                                          *)
(*                                                                         *)
(* update(aData, aLength) is called with whatever has been read: a slice,  *)
(* which need not begin or end where a message does.                       *)
(***************************************************************************)
EXTENDS RsParser

CONSTANT Uids  \* the nodes

ASSUME UidAssumption == Uids \subseteq 1 .. 254

VARIABLES
  slice,   \* what is left of the slice; empty when no call of update runs
  entered, \* the running call of parser.update has not consumed a byte yet
  got      \* the messages each node has processed

inputVars == <<parserState, buffer, message, slice, entered, got>>

InitInput ==
  /\ InitParser
  /\ slice = <<>> /\ entered = TRUE
  /\ got = [u \in Uids |-> <<>>]

Waiting == slice = <<>> /\ parserState # "Done"

Update(bytes) == Waiting /\ slice' = bytes /\ entered' = TRUE /\ UNCHANGED <<parserVars, got>>

\* A turn of parser.update that consumes its byte.
ParseByte ==
  /\ slice # <<>> /\ parserState # "Done"
  /\ Consume(Head(slice))
  /\ slice' = Tail(slice) /\ entered' = FALSE
  /\ UNCHANGED got

\* parser.update ends at a byte it refuses and is called again from there.
ParseAgain ==
  /\ slice # <<>> /\ ~ entered /\ Refuse(Head(slice))
  /\ entered' = TRUE
  /\ UNCHANGED <<slice, got>>

\* parsed is 0: the rest of the slice is dropped.
DropSlice ==
  /\ slice # <<>> /\ entered /\ Refuse(Head(slice))
  /\ slice' = <<>>
  /\ UNCHANGED <<entered, got>>

\* (mutant) A broadcast goes to no node.
RoutesExactly(u, m) == ReceiverOf(m) = u

\* The test of routeMessage, and again of process.
Routes(u, m) == ReceiverOf(m) \in {u, kReservedUID}

\* A message is complete: each node it is for processes it.
RouteMessage ==
  /\ parserState = "Done"
  /\ got' = [u \in Uids |-> IF Routes(u, buffer) THEN Append(got[u], buffer) ELSE got[u]]
  /\ Reset /\ entered' = TRUE
  /\ UNCHANGED slice

Input == ParseByte \/ ParseAgain \/ DropSlice \/ RouteMessage

InputNext == Input \/ \E bytes \in Seq(Byte) : Update(bytes)

\* The device, whatever bytes it is given.
InputSpec == InitInput /\ [][InputNext]_inputVars

\* m is for u alone or for all.
Addressed(u, m) == m[1] = u \/ m[1] = kReservedUID

\* RsHandler::process casts what it is given to the structure of its type
\* and looks at no length: whatever bytes arrive, a message that a node
\* processes is as long as its type and its length byte say, and is for it.
ProcessesWhole ==
  \A u \in Uids : \A i \in DOMAIN got[u] : Whole(got[u][i]) /\ Addressed(u, got[u][i])

=============================================================================
