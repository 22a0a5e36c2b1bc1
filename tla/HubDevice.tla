----------------------------- MODULE HubDevice -----------------------------
(***************************************************************************)
(* DeviceWrapper: the record DeviceHub keeps for one device, and the parts *)
(* of the hub's handlers that read and write nothing but this record.      *)
(*                                                                         *)
(* Time is counted in ticks and every time stamp is kept relative to the   *)
(* present: pending.age and healthAge count up from the stamp, wait counts *)
(* down to nextCall.  A count stops at the largest value the code can tell *)
(* from a larger one.  lag is the time that passed since the argument      *)
(* aTime of the running process(aTime) was read, so "aTime - stamp" of the *)
(* code is "age - lag" here.                                               *)
(***************************************************************************)
EXTENDS RsTypes, Integers, Sequences

CONSTANTS
  FileReqTime, StepTime, \* updateTime 50 ms and 100 ms, in ticks
  Timeout,               \* age at which a pending request is dropped, 200 ms
  WaitTime,              \* updateTime after a chunk answered Wait, 200 ms
  FinalTime,             \* updateTime around FileWriteFinalize, 500 ms
  ProbeTime,             \* updateTime after a probe or info request, 1000 ms
  HealthTime,            \* kHealthTimeout, 1000 ms
  MaxLag,                \* bound on lag
  LostLimit,             \* kTimeoutErrorForLost
  ByteMod,               \* a chunk length is a uint8_t
  CountMod,              \* the chunk count on the wire is a uint16_t
  Names,                 \* the names of the devices
  Files,                 \* [total, chunk] of the files the application sends
  Periods                \* the periods of scheduled requests, in ticks

ASSUME TimingAssumption ==
  /\ FileReqTime \in Nat \ {0} /\ StepTime \in Nat /\ Timeout \in Nat
  /\ WaitTime \in Nat /\ FinalTime \in Nat /\ ProbeTime \in Nat
  /\ HealthTime \in Nat /\ MaxLag \in Nat
  /\ FileReqTime < StepTime /\ StepTime < Timeout /\ Timeout <= WaitTime
  /\ WaitTime < FinalTime /\ FinalTime <= ProbeTime
  /\ MaxLag < FileReqTime + Timeout

ASSUME LimitAssumption ==
  /\ LostLimit \in Nat \ {0} /\ ByteMod \in Nat \ {0} /\ CountMod \in Nat \ {0}

\* The empty name of a device that has not been identified.
NoName == "nameless"

ASSUME InputAssumption ==
  /\ NoName \notin Names
  /\ Files \subseteq [total : Nat, chunk : Nat]
  /\ Periods \subseteq Nat \ {0}

-----------------------------------------------------------------------------
DeviceState == {"Probing", "InfoRequest", "Running", "FileTransfer", "Lost"}

PendingTrans == [num : Nat, type : MessageType \cup {"None"}, age : Nat]

FileTransferContext ==
  [state : {"Request", "Sending", "Finalize", "Cancel"},
   total : Nat, chunk : Nat, off : Nat, sent : Nat,
   ack : Result \cup {"None"}, first : BOOLEAN]

TelemetryUnit == [period : Nat, age : Nat]

\* "Absent" stands for a UID that is not a key of the map.
DeviceWrapper ==
  [state : DeviceState \cup {"Absent"}, name : Names \cup {NoName},
   pending : PendingTrans, wait : Int, healthAge : Nat,
   cmds : Nat, reqs : Nat, telem : Seq(TelemetryUnit),
   timeouts : Nat, file : FileTransferContext]

\* pending without a value.
NoPending == [num |-> 0, type |-> "None", age |-> 0]

Awaiting(d) == d.pending.type # "None"

\* FileTransferContext{}
NewFile == [state |-> "Request", total |-> 0, chunk |-> 0, off |-> 0,
            sent |-> 0, ack |-> "None", first |-> TRUE]

Lower(a, b) == IF a < b THEN a ELSE b

\* DeviceWrapper{}: all its stamps are 0 ms, that is uptime ticks ago.
NewDevice(uptime) ==
  [state |-> "InfoRequest", name |-> NoName, pending |-> NoPending,
   wait |-> -MaxLag, healthAge |-> Lower(uptime, HealthTime + MaxLag),
   cmds |-> 0, reqs |-> 0, telem |-> <<>>, timeouts |-> 0, file |-> NewFile]

AbsentDevice == [NewDevice(0) EXCEPT !.state = "Absent"]

-----------------------------------------------------------------------------
(* The passing of time, one tick. *)

Older(age, cap) == Lower(age + 1, cap)

OlderPending(p) == [p EXCEPT !.age = Older(p.age, Timeout + MaxLag)]

OlderUnit(t) == [t EXCEPT !.age = Older(t.age, t.period + MaxLag)]

Aged(d) ==
  [d EXCEPT
    !.pending   = IF Awaiting(d) THEN OlderPending(@) ELSE @,
    !.wait      = IF @ > -MaxLag THEN @ - 1 ELSE @,
    !.healthAge = Older(@, HealthTime + MaxLag),
    !.telem     = [i \in DOMAIN @ |-> OlderUnit(d.telem[i])]]

-----------------------------------------------------------------------------
(* Sending a file. *)

\* (mutant) sentOffset is left where the last transfer put it.
StartFileResuming(d, f) ==
  IF d.state # "Running"
  THEN d
  ELSE [d EXCEPT !.state = "FileTransfer",
                 !.file = [@ EXCEPT !.state = "Request", !.total = f.total,
                                    !.chunk = f.chunk, !.first = TRUE]]

\* sendFile on a device that is known by name.  chunkSent and packetAck are
\* not among the fields it sets.
StartFile(d, f) ==
  IF d.state # "Running"
  THEN d
  ELSE [d EXCEPT !.state = "FileTransfer",
                 !.file = [@ EXCEPT !.state = "Request", !.total = f.total,
                                    !.chunk = f.chunk, !.off = 0, !.first = TRUE]]

\* The observer may call sendFile from within a callback.  again is the
\* set of files it sends from there: none or one.  Where the callback is the
\* last the handler does to the device, this is SendFile as the next step.
Callback(d, again) ==
  IF again = {} THEN d ELSE StartFile(d, CHOOSE f \in again : TRUE)

\* The bytes of the chunk at sentOffset, as the uint8_t they are sent with.
ChunkLength(c) == Lower(c.chunk, c.total - c.off) % ByteMod

\* (mutant) packetAck keeps the answer to an earlier chunk.
ForgetNothing(c) == c

\* The next packetAck is awaited (packetAck.reset()).
Forget(c) == [c EXCEPT !.ack = "None"]

Cancelled(c) == [c EXCEPT !.state = "Cancel"]

\* (mutant) The last chunk is counted as long as the others.
AdvancedByWholeChunk(c) ==
  LET off == c.off + c.chunk
  IN  [c EXCEPT !.off = off, !.sent = (@ + 1) % CountMod,
                !.state = IF off >= c.total THEN "Finalize" ELSE @]

\* The last chunk was acknowledged with Ok.
Advanced(c) ==
  LET off == c.off + ChunkLength(c)
  IN  [c EXCEPT !.off = off, !.sent = (@ + 1) % CountMod,
                !.state = IF off = c.total THEN "Finalize" ELSE @]

-----------------------------------------------------------------------------
(* The two ways a request ends: an answer with its number, or its timeout. *)

\* What the answer to the pending request does to the state.
Outcome(d, code) ==
  LET type == d.pending.type
  IN  IF d.state = "Probing" THEN [d EXCEPT !.state = "InfoRequest"]
      ELSE IF d.state # "FileTransfer" THEN d
      ELSE IF type = "FileWriteChunk" THEN [d EXCEPT !.file.ack = code]
      ELSE IF type = "FileWriteRequest"
           THEN [d EXCEPT !.file.state = IF code = "Ok" THEN "Sending" ELSE "Cancel"]
      ELSE IF type = "FileWriteFinalize"
           THEN [d EXCEPT !.state = "Running"]      \* fileWriteResultEv
      ELSE d

\* (mutant) The request stays pending.
AckedStillPending(d, code, again) == Outcome(Callback(d, again), code)

\* The part of handleAck after the message number matched; the callback is
\* onAckReceivedEv.
Acked(d, code, again) ==
  [Outcome(Callback(d, again), code) EXCEPT !.pending = NoPending]

\* (mutants) The timeouts are not counted; the counter is not reset; the
\* device is given up one timeout early.
Uncounted(d) == d
CountedOn(d) ==
  [d EXCEPT !.timeouts = @ + 1,
            !.state = IF d.timeouts + 1 >= LostLimit THEN "Lost" ELSE @]
CountedHastily(d) ==
  LET lost == d.timeouts + 2 >= LostLimit
  IN  [d EXCEPT !.timeouts = IF lost THEN 0 ELSE @ + 1,
                !.state = IF lost THEN "Lost" ELSE @]

\* One more timeout.
Counted(d) ==
  LET lost == d.timeouts + 1 >= LostLimit
  IN  [d EXCEPT !.timeouts = IF lost THEN 0 ELSE @ + 1,
                !.state = IF lost THEN "Lost" ELSE @]

\* The timeout check of process for one device; the callback is
\* onAckNotReceivedEv.
CheckTimeout(d, lag, again) ==
  LET e == Callback(Counted(d), again)
  IN  IF Awaiting(d) /\ d.pending.age - lag >= Timeout
      THEN [e EXCEPT !.file = IF e.state = "FileTransfer" THEN Cancelled(@) ELSE @,
                     !.pending = NoPending]
      ELSE d

=============================================================================
