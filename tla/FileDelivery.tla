---------------------------- MODULE FileDelivery ----------------------------
(***************************************************************************)
(* A file on its way from the hub's application into the store of a        *)
(* device.  The device side is application code: the one of                *)
(* test/HubTest.cpp (Mock of a device, lines 76-113), which may also be    *)
(* busy, or refuse a request or a chunk, and which loses its store when it *)
(* is switched off.                                                        *)
(*                                                                         *)
(* The contents of a file are told by its length: byte i of the file of    *)
(* length t is <<t, i>>.  Two files have the same CRC only if they are     *)
(* equal.                                                                  *)
(***************************************************************************)
EXTENDS DeviceHub

ASSUME VerdictAssumption == {"Ok", "Error"} \subseteq Codes

ASSUME CargoAssumption == NumMod > 1

VARIABLES
  cargo,    \* what the file frame of each number carries beside its arg
  store,    \* each device's recvBuf and expectedSize
  result,   \* what fileWriteResultEv has reported in the last step
  (* Two histories, for the properties only. *)
  found,    \* the file each device found right since it last began one
  refused   \* the devices that refused a frame of the present transfer

fileVars == <<cargo, store, result, found, refused>>
allVars == <<vars, fileVars>>

\* No file has this length; one may be empty.
NoFile == -1

NoCargo == [total |-> NoFile, off |-> 0]

EmptyStore == [buf |-> <<>>, expected |-> 0]

NoResult == [n \in Nodes |-> "None"]

\* The bytes of the file of length t from off to before end.
Bytes(t, off, end) == [i \in 1 .. end - off |-> <<t, off + i>>]

-----------------------------------------------------------------------------
(* The hub's side: what goes with a frame.                                 *)

UnderWay(num) == \E f \in requests : f.num = num /\ f.type \in FileTypes

\* The frame of this number is sent in this step.
SentNow(num) == messageNumber' # messageNumber /\ num = messageNumber'

\* deviceFileWriteRequestImpl takes the total size, sendChunkImpl the data at
\* sentOffset, fileWriteFinalizeImpl the CRC of the whole.
CargoOf(u) == [total |-> hub'[u].file.total, off |-> hub'[u].file.off]

Load ==
  cargo' = [num \in DOMAIN cargo |->
              IF ~ UnderWay(num)' THEN NoCargo
              ELSE IF SentNow(num)
                   THEN CargoOf((CHOOSE f \in requests' : f.num = num).to)
              ELSE cargo[num]]

-----------------------------------------------------------------------------
(* The device's side.                                                      *)

\* handleFileWriteRequest
Begun(size) == [buf |-> <<>>, expected |-> size]

\* handleWriteChunk
Extended(s, data) == [s EXCEPT !.buf = @ \o data]

\* handleWriteChunkFinalize
Passes(s, total) == s.buf = Bytes(total, 0, total) /\ Len(s.buf) = s.expected

\* f's device answers code.  Its verdict on the whole is no choice.
Answers(f, code) ==
  f.type = "FileWriteFinalize" =>
    code = IF Passes(store[f.to], cargo[f.num].total) THEN "Ok" ELSE "Error"

\* The store of f's device when it has answered code.
StoreAfter(f, code) ==
  LET s == store[f.to]
      c == cargo[f.num]
  IN  CASE code = "Ok" /\ f.type = "FileWriteRequest"  -> Begun(c.total)
        [] code = "Ok" /\ f.type = "FileWriteChunk"    ->
             Extended(s, Bytes(c.total, c.off, c.off + f.arg))
        [] OTHER                                       -> s

\* What f's device has found right then: nothing of what it begins, all that it
\* answers FileWriteFinalize for with Ok.
FoundAfter(f, code) ==
  CASE code = "Ok" /\ f.type = "FileWriteRequest"  -> NoFile
    [] code = "Ok" /\ f.type = "FileWriteFinalize" -> cargo[f.num].total
    [] OTHER                                       -> found[f.to]

\* An answer that ends the transfer, other than the verdict (of no interest
\* when it can end for other reasons as well).
Refuses(f, code) ==
  /\ ~ Lossy
  /\ \/ f.type = "FileWriteRequest" /\ code # "Ok"
     \/ f.type = "FileWriteChunk" /\ code \notin {"Ok", "Busy"}

Deliver(f, code) ==
  /\ Answers(f, code) /\ NodeReceive(f, code)
  /\ store' = [store EXCEPT ![f.to] = StoreAfter(f, code)]
  /\ found' = [found EXCEPT ![f.to] = FoundAfter(f, code)]
  /\ refused' = IF Refuses(f, code) THEN refused \cup {f.to} ELSE refused
  /\ result' = NoResult

\* A device that has received something is switched off and on, and has lost it.
\* (The frames lost meanwhile are the bus's to lose.)
Restart(n) ==
  /\ n \in Mortal /\ store[n].buf # <<>>
  /\ store' = [store EXCEPT ![n] = EmptyStore]
  /\ result' = NoResult /\ UNCHANGED <<vars, found, refused>>

-----------------------------------------------------------------------------
(* The application and its observer.                                       *)

\* The devices to which a transfer begins in this step, by a call of the
\* application or from within a callback.
Anew ==
  {u \in Nodes :
     /\ hub'[u].state = "FileTransfer"
     /\ \/ hub[u].state # "FileTransfer"
        \/ hub[u].file.state # "Request" /\ hub'[u].file.state = "Request"}

\* No device takes part in this step; nothing is refused yet of a transfer that
\* begins in it.
HubAlone == UNCHANGED <<store, found>> /\ refused' = refused \ Anew

Offer(name, f) == SendFile(name, f) /\ result' = NoResult /\ HubAlone

\* handleAck, with fileWriteResultEv after the answer to FileWriteFinalize.
Answered(r) ==
  LET d == hub[r.from]
      final == /\ Matches(d, r) /\ d.state = "FileTransfer"
               /\ d.pending.type = "FileWriteFinalize"
  IN  /\ \E again \in Agains : HandleAck(r, again)
      /\ result' = [NoResult EXCEPT ![r.from] = IF final THEN r.code ELSE @]
      /\ HubAlone

\* packetAck is read from a context that was reset: the result is Error.
Cancel(u) ==
  /\ FileCancel(u)
  /\ result' = [NoResult EXCEPT ![u] = "Error"]
  /\ HubAlone

\* A step that is no matter of the store or of the observer.
Other ==
  /\ \/ ProbeAll
     \/ \E name \in Names :
          \/ SendCmdToDevice(name) \/ SendBlobRequestToDevice(name)
          \/ \E period \in Periods : CreateSchedRequest(name, period)
     \/ \E f \in requests : LoseRequest(f)
     \/ \E r \in replies : LoseReply(r) \/ HandleBlobAnswer(r)
                             \/ HandleDeviceInfoAnswer(r) \/ HandleDeviceHealth(r)
     \/ Tick \/ BeginPass
     \/ \E u \in scan : Visit(u) /\ ~ TransferAt(u, "Cancel")
  /\ result' = NoResult /\ HubAlone

DeliveryInit ==
  /\ Init
  /\ cargo = [num \in 0 .. NumMod - 1 |-> NoCargo]
  /\ store = [n \in Nodes |-> EmptyStore]
  /\ result = NoResult
  /\ found = [n \in Nodes |-> NoFile] /\ refused = {}

DeliveryNext ==
  /\ \/ \E f \in requests : \E code \in Codes : Deliver(f, code)
     \/ \E n \in Nodes : Restart(n)
     \/ \E name \in Names : \E f \in Files : Offer(name, f)
     \/ \E r \in replies : Answered(r)
     \/ \E u \in scan : Cancel(u)
     \/ Other
  /\ Load

DeliverySpec == DeliveryInit /\ [][DeliveryNext]_allVars

FairDeliverySpec == DeliverySpec /\ Fairness

-----------------------------------------------------------------------------
(* Properties.                                                             *)

\* The file that is being sent to the device of this record.
Offered(d) == IF d.state = "FileTransfer" THEN d.file.total ELSE NoFile

\* What a transfer promises (FilePromise): one report at most, and Ok only
\* for a file that the device has found right since it began to take one,
\* whatever is lost, late or repeated, and although the device may be switched
\* off in between.
Promise == INSTANCE FilePromise
  WITH Devices <- Nodes, Contents <- {f.total : f \in Files}, None <- NoFile,
       offered <- [u \in Nodes |-> Offered(hub[u])]

KeepsPromise == Promise!Spec

FailsRefused == \A u \in Nodes : result'[u] = "Error" => u \in refused

\* On a timely bus that loses nothing a transfer fails only when the device
\* refuses its request or a chunk: what arrives is what was sent, so that the
\* verdict is Ok and reaches the hub, whatever else is queued.
FailsOnlyRefused == [][FailsRefused]_allVars

=============================================================================
