-------------------------- MODULE DeviceHub_proofs --------------------------
(***************************************************************************)
(* Theorems about DeviceHub, for every number of devices, every timing     *)
(* that satisfies the assumptions and every bus.                           *)
(***************************************************************************)
EXTENDS DeviceHub, SequenceTheorems, TLAPS

-----------------------------------------------------------------------------
(* One device.  DeviceOK and PendingOK gather what the invariants say of    *)
(* each record; the lemmas say that the operators of HubDevice keep them.   *)

DeviceOK(d) ==
  /\ d \in DeviceWrapper
  /\ d.timeouts < LostLimit
  /\ d.state = "Absent" => d.name = NoName
  /\ d.state \in {"Running", "FileTransfer"} => d.name # NoName
  /\ d.file.off <= d.file.total
  /\ d.state = "FileTransfer" /\ d.file.state = "Finalize" => d.file.off = d.file.total

PendingOK(d) == d.pending.type \in {"None"} \cup MayAwait(d)

\* The file context at the start of a transfer.
Started(c) ==
  /\ c.state = "Request" /\ c.first /\ c.off = 0
  /\ \E f \in Files : c.total = f.total /\ c.chunk = f.chunk

\* The lower of two integers (std::min) is one of them and exceeds neither.
LEMMA LowerType ==
  ASSUME NEW a \in Int, NEW b \in Int
  PROVE  /\ Lower(a, b) \in {a, b}
         /\ Lower(a, b) <= a /\ Lower(a, b) <= b
BY DEF Lower

\* A remainder does not exceed the number.
LEMMA ModuloBound ==
  ASSUME NEW a \in Nat, NEW m \in Nat \ {0}
  PROVE  a % m \in Nat /\ a % m <= a
<1>1. a = (m * (a \div m)) + (a % m) /\ a % m \in 0 .. m - 1
  OBVIOUS
<1>2. a \div m \in Nat
  OBVIOUS
<1>3. m * (a \div m) \in Nat
  BY <1>2
<1> QED
  BY <1>1, <1>3

\* A chunk never reaches beyond the end of the file.
LEMMA ChunkFits ==
  ASSUME NEW c \in FileTransferContext, c.off <= c.total
  PROVE  ChunkLength(c) \in Nat /\ c.off + ChunkLength(c) <= c.total
<1> DEFINE rest == c.total - c.off
<1>1. rest \in Nat /\ c.chunk \in Nat /\ c.off \in Nat /\ c.total \in Nat
  BY DEF FileTransferContext
<1>2. Lower(c.chunk, rest) \in Nat /\ Lower(c.chunk, rest) <= rest
  BY <1>1 DEF Lower
<1>3. ByteMod \in Nat \ {0}
  BY LimitAssumption
<1>4. ChunkLength(c) \in Nat /\ ChunkLength(c) <= rest
  BY <1>1, <1>2, <1>3, ModuloBound DEF ChunkLength
<1> QED
  BY <1>1, <1>4

\* The record that handleAck makes of a device it does not know.
LEMMA NewDeviceOK ==
  ASSUME NEW t \in Nat
  PROVE  /\ DeviceOK(NewDevice(t)) /\ NewDevice(t).name = NoName
         /\ NewDevice(t).pending = NoPending /\ NewDevice(t).state = "InfoRequest"
<1>1. HealthTime + MaxLag \in Nat /\ MaxLag \in Nat
  BY TimingAssumption
<1>2. Lower(t, HealthTime + MaxLag) \in Nat
  BY <1>1 DEF Lower
<1>3. NoPending \in PendingTrans /\ NewFile \in FileTransferContext
  BY DEF NoPending, PendingTrans, NewFile, FileTransferContext
<1>4. 0 < LostLimit /\ <<>> \in Seq(TelemetryUnit)
  BY LimitAssumption
<1>5. NewDevice(t) \in DeviceWrapper
  BY <1>1, <1>2, <1>3, <1>4 DEF NewDevice, DeviceWrapper, DeviceState
<1> QED
  BY <1>4, <1>5 DEF DeviceOK, NewDevice, NewFile

\* A UID that is not a key of the map yet.
LEMMA AbsentDeviceOK ==
  /\ DeviceOK(AbsentDevice) /\ AbsentDevice.name = NoName
  /\ AbsentDevice.pending = NoPending /\ AbsentDevice.state = "Absent"
<1>1. DeviceOK(NewDevice(0)) /\ NewDevice(0).name = NoName /\ NewDevice(0).pending = NoPending
  BY NewDeviceOK
<1>2. AbsentDevice = [NewDevice(0) EXCEPT !.state = "Absent"]
  BY DEF AbsentDevice
<1>3. AbsentDevice \in DeviceWrapper
  BY <1>1, <1>2 DEF DeviceOK, DeviceWrapper
<1> QED
  BY <1>1, <1>2, <1>3 DEF DeviceOK, DeviceWrapper

\* sendFile changes the state and the file only, and not what is in packetAck.
LEMMA StartFileOK ==
  ASSUME NEW d, DeviceOK(d), NEW f \in Files
  PROVE  LET e == StartFile(d, f) IN
         /\ DeviceOK(e) /\ e.name = d.name /\ e.pending = d.pending
         /\ e.timeouts = d.timeouts /\ e.wait = d.wait /\ e.file.ack = d.file.ack
         /\ \/ e = d
            \/ /\ d.state = "Running" /\ e.state = "FileTransfer"
               /\ e.file.state = "Request" /\ Started(e.file)
<1>1. f.total \in Nat /\ f.chunk \in Nat
  BY InputAssumption
<1>2. d \in DeviceWrapper /\ d.file \in FileTransferContext
  BY DEF DeviceOK, DeviceWrapper
<1>3. CASE d.state # "Running"
  BY <1>3 DEF StartFile
<1>4. CASE d.state = "Running"
  <2> DEFINE c == [d.file EXCEPT !.state = "Request", !.total = f.total,
                                 !.chunk = f.chunk, !.off = 0, !.first = TRUE]
  <2>1. StartFile(d, f) = [d EXCEPT !.state = "FileTransfer", !.file = c]
    BY <1>4 DEF StartFile
  <2>2. c \in FileTransferContext /\ c.off <= c.total /\ Started(c) /\ c.ack = d.file.ack
    <3>1. /\ c.off = 0 /\ c.total = f.total /\ c.chunk = f.chunk /\ c.state = "Request"
          /\ c.first /\ c.ack = d.file.ack
      BY <1>2 DEF FileTransferContext
    <3>2. c \in FileTransferContext
      BY <1>1, <1>2 DEF FileTransferContext
    <3> QED
      BY <1>1, <3>1, <3>2 DEF Started
  <2> HIDE DEF c
  <2>3. [d EXCEPT !.state = "FileTransfer", !.file = c] \in DeviceWrapper
    BY <1>2, <2>2 DEF DeviceWrapper, DeviceState
  <2>4. DeviceOK([d EXCEPT !.state = "FileTransfer", !.file = c])
    BY <1>2, <1>4, <2>2, <2>3 DEF DeviceOK, DeviceWrapper, Started
  <2> QED
    BY <1>2, <1>4, <2>1, <2>2, <2>4 DEF DeviceWrapper, Started
<1> QED
  BY <1>3, <1>4

\* Neither does an observer that may call it.
LEMMA CallbackOK ==
  ASSUME NEW d, DeviceOK(d), NEW again \in Agains
  PROVE  LET e == Callback(d, again) IN
         /\ DeviceOK(e) /\ e.name = d.name /\ e.pending = d.pending
         /\ e.timeouts = d.timeouts /\ e.wait = d.wait /\ e.file.ack = d.file.ack
         /\ \/ e = d
            \/ /\ d.state = "Running" /\ e.state = "FileTransfer"
               /\ e.file.state = "Request" /\ Started(e.file)
<1>1. CASE again = {}
  BY <1>1 DEF Callback
<1>2. CASE again # {}
  <2>1. PICK f \in Files : again = {f}
    BY <1>2, BusAssumption DEF Agains
  <2>2. Callback(d, again) = StartFile(d, f)
    BY <2>1 DEF Callback
  <2> QED
    BY <2>2, StartFileOK
<1> QED
  BY <1>1, <1>2

\* The request that is pending fits the state an observer leaves.
LEMMA StartKeepsPending ==
  ASSUME NEW d, NEW e, PendingOK(d), e.pending = d.pending,
         \/ e.state = d.state /\ e.file = d.file
         \/ d.state = "Running" /\ e.state = "FileTransfer" /\ e.file.state = "Request"
  PROVE  PendingOK(e)
<1>1. CASE e.state = d.state /\ e.file = d.file
  BY <1>1 DEF PendingOK, MayAwait, MayAwaitAt
<1>2. CASE d.state = "Running" /\ e.state = "FileTransfer" /\ e.file.state = "Request"
  BY <1>2 DEF PendingOK, MayAwait, MayAwaitAt
<1> QED
  BY <1>1, <1>2

\* What a request that ran into its timeout makes of the device d: one timeout too many and
\* it is lost, otherwise it stays where it is and a transfer, be it one the observer has
\* just started, is cancelled.
TimesOut(d, e) ==
  \/ /\ d.timeouts + 1 >= LostLimit /\ e.timeouts = 0
     /\ e.state = "Lost" /\ e.file = d.file
  \/ /\ d.timeouts + 1 < LostLimit /\ e.timeouts = d.timeouts + 1
     /\ \/ d.state # "FileTransfer" /\ e.state = d.state /\ e.file = d.file
        \/ /\ e.state = "FileTransfer" /\ e.file.state = "Cancel"
           /\ e.file.ack = d.file.ack
           /\ \/ /\ d.state = "FileTransfer" /\ e.file.total = d.file.total
                 /\ e.file.off = d.file.off /\ e.file.first = d.file.first
              \/ /\ d.state = "Running" /\ e.file.off = 0
                 /\ \E f \in Files : e.file.total = f.total

\* A timeout is counted or makes the device lost.
LEMMA CountedOK ==
  ASSUME NEW d, DeviceOK(d)
  PROVE  LET e == Counted(d) IN
         /\ DeviceOK(e) /\ e.name = d.name /\ e.pending = d.pending /\ e.file = d.file
         /\ e.wait = d.wait
         /\ \/ d.timeouts + 1 >= LostLimit /\ e.timeouts = 0 /\ e.state = "Lost"
            \/ /\ d.timeouts + 1 < LostLimit /\ e.timeouts = d.timeouts + 1
               /\ e.state = d.state
<1>1. d \in DeviceWrapper /\ d.timeouts \in Nat /\ LostLimit \in Nat /\ 0 < LostLimit
  BY LimitAssumption DEF DeviceOK, DeviceWrapper
<1> DEFINE lost == d.timeouts + 1 >= LostLimit
           t == IF lost THEN 0 ELSE d.timeouts + 1
           p == IF lost THEN "Lost" ELSE d.state
<1>2. Counted(d) = [d EXCEPT !.timeouts = t, !.state = p]
  BY DEF Counted
<1>3. /\ t \in Nat /\ t < LostLimit /\ p \in {d.state, "Lost"}
      /\ \/ d.timeouts + 1 >= LostLimit /\ t = 0 /\ p = "Lost"
         \/ d.timeouts + 1 < LostLimit /\ t = d.timeouts + 1 /\ p = d.state
  BY <1>1
<1> HIDE DEF t, p
<1>4. [d EXCEPT !.timeouts = t, !.state = p] \in DeviceWrapper
  BY <1>1, <1>3 DEF DeviceWrapper, DeviceState
<1> QED
  BY <1>1, <1>2, <1>3, <1>4 DEF DeviceOK, DeviceWrapper

\* A timeout leaves nothing pending.
LEMMA CheckTimeoutOK ==
  ASSUME NEW d, DeviceOK(d), PendingOK(d), NEW again \in Agains, NEW k \in Int
  PROVE  LET e == CheckTimeout(d, k, again) IN
         /\ DeviceOK(e) /\ PendingOK(e) /\ e.name = d.name /\ e.wait = d.wait
         /\ \/ e = d /\ (Awaiting(d) => d.pending.age - k < Timeout)
            \/ /\ Awaiting(d) /\ d.pending.age - k >= Timeout
               /\ e.pending = NoPending /\ TimesOut(d, e)
<1> DEFINE a == Counted(d)
           b == Callback(a, again)
           c == IF b.state = "FileTransfer" THEN Cancelled(b.file) ELSE b.file
           e == [b EXCEPT !.file = c, !.pending = NoPending]
<1>1. CASE ~ (Awaiting(d) /\ d.pending.age - k >= Timeout)
  <2>1. CheckTimeout(d, k, again) = d
    BY <1>1 DEF CheckTimeout
  <2>2. d.pending.age \in Int /\ Timeout \in Int
    BY TimingAssumption DEF DeviceOK, DeviceWrapper, PendingTrans
  <2> QED
    BY <1>1, <2>1, <2>2
<1>2. CASE Awaiting(d) /\ d.pending.age - k >= Timeout
  <2>1. CheckTimeout(d, k, again) = e
    BY <1>2 DEF CheckTimeout
  <2>2. /\ DeviceOK(a) /\ a.name = d.name /\ a.wait = d.wait /\ a.file = d.file
        /\ \/ d.timeouts + 1 >= LostLimit /\ a.timeouts = 0 /\ a.state = "Lost"
           \/ /\ d.timeouts + 1 < LostLimit /\ a.timeouts = d.timeouts + 1
              /\ a.state = d.state
    BY CountedOK
  <2> HIDE DEF a
  <2>3. /\ DeviceOK(b) /\ b.name = a.name /\ b.wait = a.wait /\ b.timeouts = a.timeouts
        /\ b.file.ack = a.file.ack
        /\ \/ b = a
           \/ a.state = "Running" /\ b.state = "FileTransfer" /\ Started(b.file)
    BY <2>2, CallbackOK
  <2> HIDE DEF b
  <2>4. b \in DeviceWrapper /\ b.file \in FileTransferContext
    BY <2>3 DEF DeviceOK, DeviceWrapper
  <2>5. /\ c \in FileTransferContext /\ c.off <= c.total /\ c.ack = b.file.ack
        /\ c.off = b.file.off /\ c.first = b.file.first
        /\ b.state = "FileTransfer" => c.state = "Cancel" /\ c.total = b.file.total
        /\ b.state # "FileTransfer" => c = b.file
    <3>1. CASE b.state = "FileTransfer"
      BY <2>3, <2>4, <3>1 DEF Cancelled, FileTransferContext, DeviceOK
    <3>2. CASE b.state # "FileTransfer"
      BY <2>3, <2>4, <3>2 DEF DeviceOK
    <3> QED
      BY <3>1, <3>2
  <2> HIDE DEF c
  <2>6. NoPending \in PendingTrans /\ NoPending.type = "None"
    BY DEF NoPending, PendingTrans
  <2>7. e \in DeviceWrapper
    BY <2>4, <2>5, <2>6 DEF DeviceWrapper
  <2>8. /\ e.state = b.state /\ e.name = b.name /\ e.timeouts = b.timeouts
        /\ e.file = c /\ e.pending = NoPending /\ e.wait = b.wait
    BY <2>4 DEF DeviceWrapper
  <2>9. DeviceOK(e) /\ PendingOK(e)
    BY <2>3, <2>5, <2>6, <2>7, <2>8 DEF DeviceOK, PendingOK
  <2> HIDE DEF e
  <2>10. TimesOut(d, e)
    BY <2>2, <2>3, <2>5, <2>8 DEF TimesOut, Started
  <2> QED
    BY <1>2, <2>1, <2>2, <2>3, <2>8, <2>9, <2>10
<1> QED
  BY <1>1, <1>2

\* What an answer does to the state: a device that was probed is identified next, a
\* transfer goes on or ends.
LEMMA OutcomeOK ==
  ASSUME NEW d, DeviceOK(d), NEW code \in Result
  PROVE  LET e == Outcome(d, code) IN
         /\ DeviceOK(e) /\ e.name = d.name
         /\ \/ e.state = d.state
            \/ d.state = "Probing" /\ e.state = "InfoRequest"
            \/ d.state = "FileTransfer" /\ e.state = "Running"
<1> DEFINE e == Outcome(d, code)
<1>1. d \in DeviceWrapper /\ d.file \in FileTransferContext
  BY DEF DeviceOK, DeviceWrapper
<1>2. CASE e = d
  BY <1>2
<1>3. ASSUME NEW p \in {"InfoRequest", "Running"}, e = [d EXCEPT !.state = p],
             \/ d.state = "Probing" /\ p = "InfoRequest"
             \/ d.state = "FileTransfer" /\ p = "Running"
      PROVE  /\ DeviceOK(e) /\ e.name = d.name /\ e.state = p
  <2>1. [d EXCEPT !.state = p] \in DeviceWrapper
    BY <1>1 DEF DeviceWrapper, DeviceState
  <2> QED
    BY <1>1, <1>3, <2>1 DEF DeviceOK, DeviceWrapper
<1>4. ASSUME NEW c \in FileTransferContext, e = [d EXCEPT !.file = c],
             c.off = d.file.off, c.total = d.file.total,
             c.state = "Finalize" => d.file.state = "Finalize"
      PROVE  /\ DeviceOK(e) /\ e.name = d.name /\ e.state = d.state
  <2>1. [d EXCEPT !.file = c] \in DeviceWrapper
    BY <1>1 DEF DeviceWrapper
  <2> QED
    BY <1>1, <1>4, <2>1 DEF DeviceOK, DeviceWrapper
<1>5. CASE d.state = "Probing"
  BY <1>3, <1>5 DEF Outcome
<1>6. CASE d.state # "Probing" /\ d.state # "FileTransfer"
  BY <1>2, <1>6 DEF Outcome
<1>7. CASE d.state = "FileTransfer"
  <2>1. CASE d.pending.type = "FileWriteChunk"
    <3> DEFINE c == [d.file EXCEPT !.ack = code]
    <3>1. e = [d EXCEPT !.file = c]
      BY <1>7, <2>1 DEF Outcome
    <3>2. c \in FileTransferContext
      BY <1>1 DEF FileTransferContext
    <3>3. c.off = d.file.off /\ c.total = d.file.total /\ c.state = d.file.state
      BY <1>1 DEF FileTransferContext
    <3> QED
      BY <1>4, <3>1, <3>2, <3>3
  <2>2. CASE d.pending.type = "FileWriteRequest"
    <3> DEFINE p == IF code = "Ok" THEN "Sending" ELSE "Cancel"
               c == [d.file EXCEPT !.state = p]
    <3>1. e = [d EXCEPT !.file = c]
      BY <1>7, <2>2 DEF Outcome
    <3>2. p \in {"Sending", "Cancel"}
      OBVIOUS
    <3> HIDE DEF p
    <3>3. c \in FileTransferContext
      BY <1>1, <3>2 DEF FileTransferContext
    <3>4. c.off = d.file.off /\ c.total = d.file.total /\ c.state # "Finalize"
      BY <1>1, <3>2 DEF FileTransferContext
    <3> QED
      BY <1>4, <3>1, <3>3, <3>4
  <2>3. CASE d.pending.type = "FileWriteFinalize"
    BY <1>3, <1>7, <2>3 DEF Outcome
  <2>4. CASE d.pending.type \notin {"FileWriteChunk", "FileWriteRequest", "FileWriteFinalize"}
    BY <1>2, <1>7, <2>4 DEF Outcome
  <2> QED
    BY <2>1, <2>2, <2>3, <2>4
<1> QED
  BY <1>5, <1>6, <1>7

\* Nothing is pending any more.
LEMMA SettledOK ==
  ASSUME NEW d, DeviceOK(d)
  PROVE  LET e == [d EXCEPT !.pending = NoPending] IN
         DeviceOK(e) /\ PendingOK(e) /\ e.name = d.name /\ e.state = d.state
           /\ e.pending = NoPending
<1>1. d \in DeviceWrapper
  BY DEF DeviceOK
<1>2. NoPending \in PendingTrans /\ NoPending.type = "None"
  BY DEF NoPending, PendingTrans
<1>3. [d EXCEPT !.pending = NoPending] \in DeviceWrapper
  BY <1>1, <1>2 DEF DeviceWrapper
<1> QED
  BY <1>1, <1>2, <1>3 DEF DeviceOK, PendingOK, DeviceWrapper

\* What the acknowledgement of its pending request makes of a device: it is identified next,
\* its transfer goes on or ends, or its observer starts one.
AckEffect(d, code, e) ==
  LET type == d.pending.type
  IN  \/ /\ d.state \notin {"Probing", "FileTransfer"}
         /\ e.state = d.state /\ e.file = d.file
      \/ d.state = "Probing" /\ e.state = "InfoRequest" /\ e.file = d.file
      \/ /\ d.state = "Running" /\ e.state = "FileTransfer" /\ Started(e.file)
         /\ e.file.ack = IF type = "FileWriteChunk" THEN code ELSE d.file.ack
      \/ /\ d.state = "FileTransfer"
         /\ \/ /\ type \notin FileTypes
               /\ e.state = d.state /\ e.file = d.file
            \/ /\ type = "FileWriteChunk"
               /\ e.state = d.state /\ e.file = [d.file EXCEPT !.ack = code]
            \/ /\ type = "FileWriteRequest" /\ e.state = d.state
               /\ e.file = [d.file EXCEPT !.state = IF code = "Ok" THEN "Sending" ELSE "Cancel"]
            \/ /\ type = "FileWriteFinalize"
               /\ e.state = "Running" /\ e.file = d.file

\* handleAck as a whole leaves nothing pending.
LEMMA AckedOK ==
  ASSUME NEW d, DeviceOK(d), PendingOK(d), NEW code \in Result, NEW again \in Agains
  PROVE  LET e == Acked(d, code, again) IN
         /\ DeviceOK(e) /\ PendingOK(e) /\ e.name = d.name /\ e.pending = NoPending
         /\ e.timeouts = d.timeouts /\ e.wait = d.wait /\ AckEffect(d, code, e)
<1> DEFINE b == Callback(d, again)
           c == Outcome(b, code)
           e == [c EXCEPT !.pending = NoPending]
           type == d.pending.type
<1>1. /\ DeviceOK(b) /\ b.name = d.name /\ b.pending = d.pending
      /\ b.timeouts = d.timeouts /\ b.wait = d.wait /\ b.file.ack = d.file.ack
      /\ \/ b = d
         \/ d.state = "Running" /\ b.state = "FileTransfer" /\ Started(b.file)
  BY CallbackOK
<1>2. DeviceOK(c) /\ c.name = b.name
  BY <1>1, OutcomeOK
<1>3. Acked(d, code, again) = e
  BY DEF Acked
<1> HIDE DEF b
<1>4. b \in DeviceWrapper /\ b.file \in FileTransferContext
  BY <1>1 DEF DeviceOK, DeviceWrapper
<1>5. /\ c.timeouts = b.timeouts /\ c.wait = b.wait
      /\ \/ /\ b.state \notin {"Probing", "FileTransfer"}
            /\ c.state = b.state /\ c.file = b.file
         \/ b.state = "Probing" /\ c.state = "InfoRequest" /\ c.file = b.file
         \/ /\ b.state = "FileTransfer"
            /\ \/ /\ type \notin FileTypes
                  /\ c.state = b.state /\ c.file = b.file
               \/ /\ type = "FileWriteChunk"
                  /\ c.state = b.state /\ c.file = [b.file EXCEPT !.ack = code]
               \/ /\ type = "FileWriteRequest" /\ c.state = b.state
                  /\ c.file = [b.file EXCEPT !.state = IF code = "Ok" THEN "Sending" ELSE "Cancel"]
               \/ /\ type = "FileWriteFinalize"
                  /\ c.state = "Running" /\ c.file = b.file
  <2>1. CASE b.state # "FileTransfer"
    BY <1>4, <2>1 DEF Outcome, DeviceWrapper
  <2>2. CASE b.state = "FileTransfer" /\ type \notin FileTypes
    BY <1>1, <1>4, <2>2 DEF Outcome, DeviceWrapper, FileTypes
  <2>3. CASE b.state = "FileTransfer" /\ type = "FileWriteFinalize"
    BY <1>1, <1>4, <2>3 DEF Outcome, DeviceWrapper
  <2>4. CASE b.state = "FileTransfer" /\ type = "FileWriteChunk"
    <3>1. c = [b EXCEPT !.file = [b.file EXCEPT !.ack = code]]
      BY <1>1, <2>4 DEF Outcome
    <3> QED
      BY <1>4, <2>4, <3>1 DEF DeviceWrapper
  <2>5. CASE b.state = "FileTransfer" /\ type = "FileWriteRequest"
    <3>1. c = [b EXCEPT !.file = [b.file EXCEPT !.state = IF code = "Ok" THEN "Sending"
                                                                         ELSE "Cancel"]]
      BY <1>1, <2>5 DEF Outcome
    <3> QED
      BY <1>4, <2>5, <3>1 DEF DeviceWrapper
  <2> QED
    BY <2>1, <2>2, <2>3, <2>4, <2>5 DEF FileTypes
<1> HIDE DEF c
<1>6. /\ DeviceOK(e) /\ PendingOK(e) /\ e.name = c.name /\ e.state = c.state
      /\ e.pending = NoPending
  BY <1>2, SettledOK
<1>7. e.file = c.file /\ e.timeouts = c.timeouts /\ e.wait = c.wait
  BY <1>2 DEF DeviceOK, DeviceWrapper
<1> HIDE DEF e
<1>8. CASE b = d
  BY <1>1, <1>2, <1>3, <1>5, <1>6, <1>7, <1>8 DEF AckEffect
<1>9. CASE d.state = "Running" /\ b.state = "FileTransfer" /\ Started(b.file)
  <2>1. type \in {"None", "Command", "BlobRequest", "HealthReq", "FileWriteChunk"}
    BY <1>9 DEF PendingOK, MayAwait
  <2>2. /\ c.state = "FileTransfer"
        /\ c.file = IF type = "FileWriteChunk" THEN [b.file EXCEPT !.ack = code] ELSE b.file
    BY <1>5, <1>9, <2>1 DEF FileTypes
  <2>3. Started(c.file) /\ c.file.ack = IF type = "FileWriteChunk" THEN code ELSE d.file.ack
    <3>1. CASE type = "FileWriteChunk"
      <4>1. /\ c.file.state = b.file.state /\ c.file.first = b.file.first
            /\ c.file.off = b.file.off /\ c.file.total = b.file.total
            /\ c.file.chunk = b.file.chunk /\ c.file.ack = code
        BY <1>4, <2>2, <3>1 DEF FileTransferContext
      <4> QED
        BY <1>9, <3>1, <4>1 DEF Started
    <3>2. CASE type # "FileWriteChunk"
      BY <1>1, <1>9, <2>2, <3>2
    <3> QED
      BY <3>1, <3>2
  <2>4. AckEffect(d, code, e)
    BY <1>6, <1>7, <1>9, <2>2, <2>3 DEF AckEffect
  <2> QED
    BY <1>1, <1>2, <1>3, <1>5, <1>6, <1>7, <2>4
<1> QED
  BY <1>1, <1>8, <1>9

\* Changing the elements of a sequence makes a sequence.
LEMMA MappedSeq ==
  ASSUME NEW T, NEW s \in Seq(T), NEW f, DOMAIN f = DOMAIN s,
         f = [i \in DOMAIN s |-> f[i]], \A i \in DOMAIN s : f[i] \in T
  PROVE  f \in Seq(T)
<1>1. Len(s) \in Nat /\ DOMAIN s = 1 .. Len(s)
  BY LenProperties
<1>2. f \in [1 .. Len(s) -> T]
  BY <1>1
<1> QED
  BY <1>1, <1>2, SeqDef

\* The passing of time changes stamps only.
LEMMA AgedOK ==
  ASSUME NEW d, DeviceOK(d), PendingOK(d)
  PROVE  LET e == Aged(d) IN
         /\ DeviceOK(e) /\ PendingOK(e) /\ e.name = d.name /\ e.state = d.state
         /\ e.file = d.file /\ Awaiting(e) = Awaiting(d)
<1>1. /\ d \in DeviceWrapper /\ d.pending \in PendingTrans /\ d.wait \in Int
      /\ d.healthAge \in Nat /\ d.telem \in Seq(TelemetryUnit)
  BY DEF DeviceOK, DeviceWrapper
<1>2. Timeout + MaxLag \in Nat /\ HealthTime + MaxLag \in Nat /\ MaxLag \in Nat
  BY TimingAssumption
<1>3. ASSUME NEW x \in Nat, NEW y \in Nat PROVE Older(x, y) \in Nat
  BY DEF Older, Lower
<1> DEFINE p == IF Awaiting(d) THEN OlderPending(d.pending) ELSE d.pending
           w == IF d.wait > -MaxLag THEN d.wait - 1 ELSE d.wait
           h == Older(d.healthAge, HealthTime + MaxLag)
           t == [i \in DOMAIN d.telem |-> OlderUnit(d.telem[i])]
<1>4. Aged(d) = [d EXCEPT !.pending = p, !.wait = w, !.healthAge = h, !.telem = t]
  BY DEF Aged
<1>5. p \in PendingTrans /\ p.type = d.pending.type
  <2>1. d.pending.age \in Nat
    BY <1>1 DEF PendingTrans
  <2>2. Older(d.pending.age, Timeout + MaxLag) \in Nat
    BY <1>2, <1>3, <2>1
  <2> QED
    BY <1>1, <2>2 DEF PendingTrans, OlderPending
<1>6. w \in Int
  BY <1>1
<1>7. h \in Nat
  BY <1>1, <1>2, <1>3
<1>8. t \in Seq(TelemetryUnit)
  <2>1. ASSUME NEW i \in DOMAIN d.telem PROVE t[i] \in TelemetryUnit
    <3>1. d.telem[i] \in TelemetryUnit
      BY <1>1, LenProperties, ElementOfSeq
    <3>2. d.telem[i].age \in Nat /\ d.telem[i].period \in Nat
      BY <3>1 DEF TelemetryUnit
    <3>3. d.telem[i].period + MaxLag \in Nat
      BY <1>2, <3>2
    <3>4. Older(d.telem[i].age, d.telem[i].period + MaxLag) \in Nat
      BY <1>3, <3>2, <3>3
    <3> QED
      BY <3>1, <3>4 DEF TelemetryUnit, OlderUnit
  <2>2. DOMAIN t = DOMAIN d.telem /\ t = [i \in DOMAIN d.telem |-> t[i]]
    OBVIOUS
  <2> HIDE DEF t
  <2> QED
    BY <1>1, <2>1, <2>2, MappedSeq
<1> HIDE DEF p, w, h, t
<1> DEFINE e == [d EXCEPT !.pending = p, !.wait = w, !.healthAge = h, !.telem = t]
<1>9. e \in DeviceWrapper
  BY <1>1, <1>5, <1>6, <1>7, <1>8 DEF DeviceWrapper
<1>10. /\ e.pending = p /\ e.state = d.state /\ e.name = d.name /\ e.file = d.file
       /\ e.timeouts = d.timeouts
  BY <1>1 DEF DeviceWrapper
<1> HIDE DEF e
<1>11. DeviceOK(e)
  BY <1>9, <1>10 DEF DeviceOK
<1>12. PendingOK(e) /\ Awaiting(e) = Awaiting(d)
  BY <1>5, <1>10 DEF PendingOK, MayAwait, MayAwaitAt, Awaiting
<1> QED
  BY <1>4, <1>10, <1>11, <1>12 DEF e

\* A chunk that is sent again, or whose sender goes on, stays in the file.
LEMMA ChunkOK ==
  ASSUME NEW c \in FileTransferContext, c.off <= c.total
  PROVE  /\ Forget(c) \in FileTransferContext
         /\ Forget(c).off = c.off /\ Forget(c).total = c.total
         /\ Forget(c).state = c.state /\ Forget(c).chunk = c.chunk
         /\ Cancelled(c) \in FileTransferContext
         /\ Cancelled(c).off = c.off /\ Cancelled(c).total = c.total
         /\ Cancelled(c).state = "Cancel"
         /\ Advanced(c) \in FileTransferContext
         /\ Advanced(c).off <= Advanced(c).total
         /\ \/ Advanced(c).state = "Finalize" /\ Advanced(c).off = Advanced(c).total
            \/ Advanced(c).state = c.state
<1>1. Forget(c) \in FileTransferContext /\ Forget(c).off = c.off
        /\ Forget(c).total = c.total /\ Forget(c).state = c.state /\ Forget(c).chunk = c.chunk
  BY DEF Forget, FileTransferContext
<1>2. Cancelled(c) \in FileTransferContext /\ Cancelled(c).off = c.off
        /\ Cancelled(c).total = c.total /\ Cancelled(c).state = "Cancel"
  BY DEF Cancelled, FileTransferContext
<1> DEFINE off == c.off + ChunkLength(c)
           sent == (c.sent + 1) % CountMod
           p == IF off = c.total THEN "Finalize" ELSE c.state
           a == [c EXCEPT !.off = off, !.sent = sent, !.state = p]
<1>3. Advanced(c) = a
  BY DEF Advanced
<1>4. off \in Nat /\ off <= c.total
  BY ChunkFits DEF FileTransferContext
<1>5. sent \in Nat
  <2>1. c.sent + 1 \in Nat /\ CountMod \in Nat \ {0}
    BY LimitAssumption DEF FileTransferContext
  <2> QED
    BY <2>1, ModuloBound
<1>6. /\ p \in {"Request", "Sending", "Finalize", "Cancel"}
      /\ (p = "Finalize" /\ off = c.total) \/ p = c.state
  BY DEF FileTransferContext
<1> HIDE DEF off, sent, p
<1>7. a \in FileTransferContext
  BY <1>4, <1>5, <1>6 DEF FileTransferContext
<1>8. a.off = off /\ a.total = c.total /\ a.state = p
  BY DEF FileTransferContext
<1> HIDE DEF a
<1> QED
  BY <1>1, <1>2, <1>3, <1>4, <1>6, <1>7, <1>8

\* The file context of a device is replaced.
LEMMA FileOK ==
  ASSUME NEW d, DeviceOK(d), NEW c \in FileTransferContext, c.off <= c.total,
         c.state = "Finalize" => c.off = c.total
  PROVE  LET e == [d EXCEPT !.file = c] IN
         /\ DeviceOK(e) /\ e.name = d.name /\ e.state = d.state
         /\ e.pending = d.pending /\ e.file = c
<1>1. d \in DeviceWrapper
  BY DEF DeviceOK
<1>2. [d EXCEPT !.file = c] \in DeviceWrapper
  BY <1>1 DEF DeviceWrapper
<1> QED
  BY <1>1, <1>2 DEF DeviceOK, DeviceWrapper

\* The next call of a device is scheduled.
LEMMA WaitOK ==
  ASSUME NEW d, DeviceOK(d), PendingOK(d), NEW w \in Int
  PROVE  LET e == [d EXCEPT !.wait = w] IN
         /\ DeviceOK(e) /\ PendingOK(e) /\ e.name = d.name /\ e.state = d.state
         /\ e.pending = d.pending /\ e.file = d.file
<1>1. d \in DeviceWrapper
  BY DEF DeviceOK
<1>2. [d EXCEPT !.wait = w] \in DeviceWrapper
  BY <1>1 DEF DeviceWrapper
<1> QED
  BY <1>1, <1>2 DEF DeviceOK, PendingOK, MayAwait, MayAwaitAt, DeviceWrapper

\* A request of a kind that fits the state is awaited.
LEMMA AwaitOK ==
  ASSUME NEW d, DeviceOK(d), NEW k \in Nat, NEW type \in MessageType, type \in MayAwait(d)
  PROVE  LET e == [d EXCEPT !.pending = [num |-> k, type |-> type, age |-> 0]] IN
         /\ DeviceOK(e) /\ PendingOK(e) /\ e.name = d.name /\ e.state = d.state
         /\ e.file = d.file /\ Awaiting(e) /\ e.pending.age = 0
<1> DEFINE p == [num |-> k, type |-> type, age |-> 0]
           e == [d EXCEPT !.pending = p]
<1>1. d \in DeviceWrapper
  BY DEF DeviceOK
<1>2. p \in PendingTrans /\ p.type = type /\ p.age = 0
  BY DEF PendingTrans
<1> HIDE DEF p
<1>3. e \in DeviceWrapper
  BY <1>1, <1>2 DEF DeviceWrapper
<1>4. /\ e.pending = p /\ e.state = d.state /\ e.name = d.name /\ e.file = d.file
      /\ e.timeouts = d.timeouts
  BY <1>1 DEF DeviceWrapper
<1> HIDE DEF e
<1>5. DeviceOK(e)
  BY <1>3, <1>4 DEF DeviceOK
<1>6. type # "None"
  BY DEF MessageType
<1>7. PendingOK(e)
  BY <1>2, <1>4 DEF PendingOK, MayAwait, MayAwaitAt
<1> QED
  BY <1>2, <1>4, <1>5, <1>6, <1>7 DEF e, p, Awaiting

-----------------------------------------------------------------------------
(* The steps of a device, as DeviceLifecycle sees them.                     *)

\* A device in phase p, asked or not (a), may be in phase q, asked or not (b),
\* one step later.
LifeStep(p, a, q, b) ==
  \/ q = p /\ b = a
  \/ p = "Absent" /\ q = "InfoRequest" /\ ~ b
  \/ p \notin {"Absent", "Lost"} /\ q = p /\ b
  \/ a /\ q = p /\ ~ b
  \/ p = "InfoRequest" /\ a /\ q = "Running" /\ ~ b
  \/ p = "Probing" /\ a /\ q = "InfoRequest" /\ ~ b
  \/ p = "Running" /\ q = "FileTransfer" /\ (b = a \/ ~ b)
  \/ p = "FileTransfer" /\ q = "Running" /\ (b = a \/ ~ b)
  \/ p # "Lost" /\ a /\ q = "Lost" /\ ~ b
  \/ p = "Lost" /\ q = "Probing" /\ ~ b

\* e may come after d, and the invariants hold of it.
StepsTo(d, e) ==
  /\ DeviceOK(e) /\ PendingOK(e) /\ e.name = d.name
  /\ LifeStep(d.state, Awaiting(d), e.state, Awaiting(e))

\* The invariants of the hub's records and of its registry.
HubOK ==
  /\ hub = [u \in Nodes |-> hub[u]]
  /\ \A u \in Nodes : DeviceOK(hub[u]) /\ PendingOK(hub[u])
  /\ nameToUid \in [Names -> Nodes \cup {kReservedUID}]
  /\ RegistryOK

\* The invariants of all the rest.
RestOK ==
  /\ temporaryUid \in Nodes \cup {NoUid}
  /\ messageNumber \in 0 .. NumMod - 1
  /\ scan \subseteq Known /\ lag \in 0 .. MaxLag /\ (Idle => lag = 0)
  /\ uptime \in 0 .. Horizon /\ probes \in 0 .. MaxProbeAll
  /\ requests \subseteq Frame /\ replies \subseteq ReplyFrame
  /\ alive \subseteq Nodes

IInv == HubOK /\ RestOK

\* The invariants that are checked with TLC follow from the inductive one.
LEMMA IInvImplies == IInv => TypeOK /\ RegistryOK /\ PendingFitsState /\ OffsetFits
<1> SUFFICES ASSUME IInv PROVE TypeOK /\ RegistryOK /\ PendingFitsState /\ OffsetFits
  OBVIOUS
<1>1. hub \in [Nodes -> DeviceWrapper] /\ \A u \in Nodes : hub[u].timeouts < LostLimit
  BY DEF IInv, HubOK, DeviceOK
<1>2. TypeOK
  BY <1>1 DEF IInv, HubOK, RestOK, TypeOK
<1>3. PendingFitsState
  BY DEF IInv, HubOK, PendingOK, PendingFitsState, Awaiting
<1>4. OffsetFits
  BY DEF IInv, HubOK, DeviceOK, OffsetFits
<1> QED
  BY <1>2, <1>3, <1>4 DEF IInv, HubOK

\* One device steps, under its name.
LEMMA HubStep ==
  ASSUME HubOK, NEW u \in Nodes, NEW e, StepsTo(hub[u], e),
         hub' = [hub EXCEPT ![u] = e], nameToUid' = nameToUid
  PROVE  HubOK' /\ Known \subseteq Known'
<1>1. /\ hub' = [v \in Nodes |-> hub'[v]]
      /\ hub'[u] = e /\ \A v \in Nodes \ {u} : hub'[v] = hub[v]
  BY DEF HubOK
<1>2. \A v \in Nodes : hub'[v].name = hub[v].name
  BY <1>1 DEF StepsTo
<1>3. \A v \in Nodes : DeviceOK(hub'[v]) /\ PendingOK(hub'[v])
  BY <1>1 DEF HubOK, StepsTo
<1>4. RegistryOK'
  <2>1. ASSUME NEW n \in Names, nameToUid'[n] # kReservedUID
        PROVE  hub'[nameToUid'[n]].name = n
    <3>1. nameToUid[n] \in Nodes /\ hub[nameToUid[n]].name = n
      BY <2>1 DEF HubOK, RegistryOK
    <3> QED
      BY <1>2, <3>1
  <2>2. ASSUME NEW v \in Nodes, hub'[v].name # NoName
        PROVE  hub'[v].name = NameOf[v] /\ nameToUid'[NameOf[v]] = v
    BY <1>2, <2>2 DEF HubOK, RegistryOK
  <2>3. ASSUME NEW v \in Nodes, hub'[v].state \in {"Running", "FileTransfer"}
        PROVE  hub'[v].name # NoName
    BY <1>3, <2>3 DEF DeviceOK
  <2> QED
    BY <2>1, <2>2, <2>3 DEF RegistryOK
<1>5. Known \subseteq Known'
  <2>1. ASSUME NEW v \in Nodes, hub[v].state # "Absent" PROVE hub'[v].state # "Absent"
    BY <1>1, <2>1 DEF StepsTo, LifeStep
  <2> QED
    BY <2>1 DEF Known
<1> QED
  BY <1>1, <1>3, <1>4, <1>5 DEF HubOK

-----------------------------------------------------------------------------
(* The iterations of process.  Iteration says what each of them does to the *)
(* record of the device it comes to and to the bus; the invariants follow   *)
(* from it.                                                                 *)

\* The pending request when a frame of this type is sent.
Asked(type) == [num |-> NextNumber, type |-> type, age |-> 0]

\* What the switch may make of u's record when it sends nothing.
Settles(u, d) ==
  LET o == hub[u]
      c == Forget(o.file)
  IN  \/ d.state = o.state /\ d.file = o.file
      \/ o.state = "Lost" /\ d.state = "Probing" /\ d.file = o.file
      \/ /\ o.state = "FileTransfer" /\ o.file.state = "Sending" /\ ~ o.file.first
         /\ d.state = "FileTransfer"
         /\ \/ o.file.ack = "Wait" /\ d.file = c
            \/ o.file.ack = "Ok" /\ Advanced(c).state = "Finalize" /\ d.file = Advanced(c)
            \/ GivesUp(o.file.ack) /\ d.file = Cancelled(c)
      \/ /\ FileCancel(u) /\ o.state = "FileTransfer" /\ o.file.state = "Cancel"
         /\ d.file.ack = "None"
         /\ \/ d.state = "Running" /\ d.file = NewFile
            \/ d.state = "FileTransfer" /\ Started(d.file)

\* What it may make of the record o when it sends a frame of this type.
Issues(o, d, type, arg) ==
  LET c == Forget(o.file)
  IN  /\ d.state = o.state /\ (type \in FileTypes => o.state = "FileTransfer")
      /\ \/ type \notin FileTypes /\ d.file = o.file
         \/ type = "FileWriteRequest" /\ o.file.state = "Request" /\ d.file = o.file
         \/ type = "FileWriteFinalize" /\ o.file.state = "Finalize" /\ d.file = o.file
         \/ /\ type = "FileWriteChunk" /\ o.file.state = "Sending"
            /\ arg = ChunkLength(d.file)
            /\ \/ o.file.first /\ d.file = [o.file EXCEPT !.first = FALSE]
               \/ ~ o.file.first /\ o.file.ack = "Busy" /\ d.file = c
               \/ /\ ~ o.file.first /\ o.file.ack = "Ok"
                  /\ Advanced(c).state # "Finalize" /\ d.file = Advanced(c)

\* The device a frame of this type is sent to.
Addressed(u, dst, type) ==
  IF type = "DeviceInfoReq"
  THEN /\ dst = IF temporaryUid # NoUid THEN temporaryUid ELSE UidOf(hub[u].name)
       /\ temporaryUid' = NoUid
  ELSE dst = UidOf(hub[u].name) /\ temporaryUid' = temporaryUid

\* The next call of a device is at least so far away when this has been sent.
Pause(type) == IF type = "FileWriteRequest" THEN FileReqTime ELSE StepTime

\* The switch sends nothing and leaves d in place of u's record.
Silent(u, d, next) ==
  /\ UNCHANGED <<temporaryUid, messageNumber, requests, replies>>
  /\ d.pending = hub[u].pending
  /\ \/ d = hub[u] /\ next = hub[u].wait + lag
     \/ Due(u) /\ StepTime <= next /\ Settles(u, d)

\* The switch sends a frame, the answer to which is awaited from u.
Asking(u, d, next) ==
  \E dst \in Nat, type \in MessageType, arg \in Nat :
    /\ Due(u) /\ Pause(type) <= next
    /\ Transmit(dst, type, arg) /\ Addressed(u, dst, type)
    /\ d.pending = Asked(type) /\ Issues(hub[u], d, type, arg)

Switch(u, d, next) ==
  /\ DeviceOK(d) /\ PendingOK(d) /\ next \in Int
  /\ d.name = hub[u].name /\ d.timeouts = hub[u].timeouts
  /\ Silent(u, d, next) \/ Asking(u, d, next)

IterationFrame(u) ==
  /\ scan' = scan \ {u} /\ lag' = IF scan = {u} THEN 0 ELSE lag
  /\ UNCHANGED <<nameToUid, uptime, probes, alive>>

\* The switch and then the timeout check.
Iteration(u) ==
  /\ IterationFrame(u)
  /\ \E d, next, again :
       /\ Switch(u, d, next) /\ again \in Agains
       /\ hub' = [hub EXCEPT ![u] = CheckTimeout([d EXCEPT !.wait = next - lag], lag, again)]

\* Types of the constants that the iterations use.
LEMMA TimesAreInt ==
  /\ StepTime \in Int /\ FileReqTime \in Int /\ WaitTime \in Int
  /\ FinalTime \in Int /\ ProbeTime \in Int /\ NoUid \in Nat /\ kReservedUID \in Nat
  /\ FileReqTime <= StepTime /\ StepTime <= WaitTime /\ StepTime <= FinalTime
  /\ StepTime <= ProbeTime
BY TimingAssumption DEF NoUid, kReservedUID

\* Nothing is awaited of a device that is given up or was never heard of.
LEMMA NothingOpen ==
  ASSUME NEW d, PendingOK(d), d.state \in {"Lost", "Absent"}
  PROVE  ~ Awaiting(d)
<1>1. /\ d.state # "Probing" /\ d.state # "InfoRequest"
      /\ d.state # "Running" /\ d.state # "FileTransfer"
  OBVIOUS
<1>2. MayAwait(d) = {}
  BY <1>1 DEF MayAwait
<1> QED
  BY <1>2 DEF PendingOK, Awaiting

\* A device in service is reached under its name.
LEMMA OwnName ==
  ASSUME HubOK, NEW u \in Nodes, hub[u].state \in {"Running", "FileTransfer"}
  PROVE  UidOf(hub[u].name) = u /\ u # kReservedUID
<1>1. hub[u].name = NameOf[u] /\ nameToUid[NameOf[u]] = u /\ hub[u].name # NoName
  BY DEF HubOK, RegistryOK
<1> QED
  BY <1>1, BusAssumption DEF UidOf, kReservedUID

\* What the invariants say of the device that is visited.
LEMMA Visited ==
  ASSUME HubOK, RestOK, NEW u \in scan
  PROVE  /\ u \in Nodes /\ u \in Nat /\ DeviceOK(hub[u]) /\ PendingOK(hub[u])
         /\ hub[u] \in DeviceWrapper /\ hub[u].file \in FileTransferContext
         /\ hub = [hub EXCEPT ![u] = hub[u]] /\ UidOf(hub[u].name) \in Nat
         /\ hub[u].wait + lag \in Int /\ lag \in Nat
<1>1. u \in Nodes /\ DeviceOK(hub[u]) /\ PendingOK(hub[u])
  BY DEF HubOK, RestOK, Known
<1>2. u \in Nat
  BY <1>1, BusAssumption
<1>3. /\ hub[u] \in DeviceWrapper /\ hub[u].file \in FileTransferContext
      /\ hub[u].wait \in Int /\ hub[u].name \in Names \cup {NoName}
  BY <1>1 DEF DeviceOK, DeviceWrapper
<1>4. hub = [hub EXCEPT ![u] = hub[u]]
  BY <1>1 DEF HubOK
<1>5. UidOf(hub[u].name) \in Nat
  <2>1. Nodes \subseteq Nat /\ kReservedUID \in Nat
    BY BusAssumption DEF kReservedUID
  <2>2. nameToUid \in [Names -> Nodes \cup {kReservedUID}]
    BY DEF HubOK
  <2>3. CASE hub[u].name = NoName
    BY <2>1, <2>3 DEF UidOf
  <2>4. CASE hub[u].name # NoName
    BY <1>3, <2>1, <2>2, <2>4 DEF UidOf
  <2> QED
    BY <2>3, <2>4
<1>6. lag \in Nat
  BY TimingAssumption DEF RestOK
<1> QED
  BY <1>1, <1>2, <1>3, <1>4, <1>5, <1>6

\* An iteration that sends nothing.
LEMMA QuietIteration ==
  ASSUME HubOK, RestOK, NEW u \in scan, NEW d, DeviceOK(d), PendingOK(d),
         d.name = hub[u].name, d.timeouts = hub[u].timeouts, d.pending = hub[u].pending,
         NEW next \in Int, Quietly(u, d, next),
         \/ d = hub[u] /\ next = hub[u].wait + lag
         \/ Due(u) /\ StepTime <= next /\ Settles(u, d)
  PROVE  Iteration(u)
<1> DEFINE h == [hub EXCEPT ![u] = d]
<1>1. u \in Nodes
  BY DEF RestOK, Known
<1>2. h[u] = d /\ \A e : [h EXCEPT ![u] = e] = [hub EXCEPT ![u] = e]
  BY <1>1 DEF HubOK
<1>3. Leave(h, u, next) /\ UNCHANGED <<temporaryUid, messageNumber, requests, replies>>
  BY DEF Quietly
<1> HIDE DEF h
<1>4. PICK again \in Agains :
        hub' = [hub EXCEPT ![u] = CheckTimeout([d EXCEPT !.wait = next - lag], lag, again)]
  BY <1>2, <1>3 DEF Leave
<1>5. Switch(u, d, next)
  BY <1>3 DEF Switch, Silent
<1> QED
  BY <1>3, <1>4, <1>5 DEF Iteration, IterationFrame, Leave

\* An iteration that sends a frame, which is awaited from u itself.
LEMMA AskingIteration ==
  ASSUME HubOK, RestOK, NEW u \in scan, NEW d, DeviceOK(d),
         d.name = hub[u].name, d.timeouts = hub[u].timeouts, Due(u),
         NEW dst \in Nat, NEW type \in MessageType, NEW arg \in Nat, type \in MayAwait(d),
         Issues(hub[u], d, type, arg), Addressed(u, dst, type), Transmit(dst, type, arg),
         NEW next \in Int, Pause(type) <= next,
         NEW h, h = [hub EXCEPT ![u] = d], Leave(Await(h, u, type), u, next)
  PROVE  Iteration(u)
<1> DEFINE a == [d EXCEPT !.pending = Asked(type)]
           k == Await(h, u, type)
<1>1. u \in Nodes
  BY DEF RestOK, Known
<1>2. NextNumber \in Nat
  BY BusAssumption DEF NextNumber, RestOK
<1>3. DeviceOK(a) /\ PendingOK(a) /\ a.name = d.name /\ a.state = d.state /\ a.file = d.file
  BY <1>2, AwaitOK DEF Asked
<1>4. a.pending = Asked(type) /\ a.timeouts = d.timeouts
  BY DEF DeviceOK, DeviceWrapper
<1>5. h[u] = d /\ h = [v \in Nodes |-> h[v]]
  BY <1>1 DEF HubOK
<1>6. k = [hub EXCEPT ![u] = a]
  BY <1>1, <1>5 DEF Await, Asked, HubOK
<1> HIDE DEF a, k
<1>7. k[u] = a /\ \A e : [k EXCEPT ![u] = e] = [hub EXCEPT ![u] = e]
  BY <1>1, <1>6 DEF HubOK
<1>8. Leave(k, u, next)
  BY DEF k
<1>9. PICK again \in Agains :
        hub' = [hub EXCEPT ![u] = CheckTimeout([a EXCEPT !.wait = next - lag], lag, again)]
  BY <1>7, <1>8 DEF Leave
<1>10. Issues(hub[u], a, type, arg)
  BY <1>3 DEF Issues
<1>11. IterationFrame(u)
  BY <1>8 DEF Leave, IterationFrame
<1>12. Switch(u, a, next)
  BY <1>3, <1>4, <1>10 DEF Switch, Asking
<1> QED
  BY <1>9, <1>11, <1>12 DEF Iteration

\* The ...Impl functions look the device up by its name and find the one they began with.
LEMMA IssuingIteration ==
  ASSUME HubOK, RestOK, NEW u \in scan, NEW d, DeviceOK(d),
         d.name = hub[u].name, d.timeouts = hub[u].timeouts, Due(u),
         hub[u].state \in {"Running", "FileTransfer"},
         NEW type \in MessageType \ {"DeviceInfoReq"}, type \in MayAwait(d), NEW arg \in Nat,
         Issues(hub[u], d, type, arg),
         NEW next \in Int, Pause(type) <= next, Issue(u, d, type, arg, next)
  PROVE  Iteration(u)
<1> DEFINE h == [hub EXCEPT ![u] = d]
<1>1. u \in Nodes /\ u \in Nat
  BY Visited
<1>2. UidOf(d.name) = u /\ u # kReservedUID
  BY <1>1, OwnName
<1>3. /\ Transmit(u, type, arg) /\ Leave(Await(h, u, type), u, next)
      /\ temporaryUid' = temporaryUid
  BY <1>2 DEF Issue
<1>4. Addressed(u, u, type)
  BY <1>2, <1>3 DEF Addressed
<1> QED
  BY <1>1, <1>3, <1>4, AskingIteration

\* A device that is not due, probed, asked for its information or reported as lost.
LEMMA IdentifyingIteration ==
  ASSUME HubOK, RestOK, NEW u \in scan,
         VisitEarly(u) \/ VisitProbing(u) \/ VisitInfoRequest(u) \/ VisitLost(u)
  PROVE  Iteration(u)
<1>1. /\ u \in Nat /\ DeviceOK(hub[u]) /\ PendingOK(hub[u]) /\ hub[u] \in DeviceWrapper
      /\ hub = [hub EXCEPT ![u] = hub[u]] /\ UidOf(hub[u].name) \in Nat
      /\ hub[u].wait + lag \in Int
  BY Visited
<1>2. ASSUME NEW type \in {"Probe", "DeviceInfoReq"}
      PROVE  \A arg : Issues(hub[u], hub[u], type, arg) /\ Pause(type) <= ProbeTime
  BY TimesAreInt DEF Issues, FileTypes, Pause
<1>3. CASE VisitEarly(u)
  BY <1>1, <1>3, QuietIteration DEF VisitEarly
<1>4. CASE VisitProbing(u)
  <2>1. /\ hub[u].state = "Probing" /\ Due(u)
        /\ Leave(Await(hub, u, "Probe"), u, ProbeTime)
        /\ Transmit(UidOf(hub[u].name), "Probe", 0) /\ temporaryUid' = temporaryUid
    BY <1>4 DEF VisitProbing, Visiting
  <2>2. "Probe" \in MayAwait(hub[u]) /\ "Probe" \in MessageType
    BY <2>1 DEF MayAwait, MessageType
  <2>3. Addressed(u, UidOf(hub[u].name), "Probe")
    BY <2>1 DEF Addressed
  <2> QED
    BY <1>1, <1>2, <2>1, <2>2, <2>3, AskingIteration, TimesAreInt
<1>5. CASE VisitInfoRequest(u)
  <2> DEFINE to == IF temporaryUid # NoUid THEN temporaryUid ELSE UidOf(hub[u].name)
  <2>1. /\ hub[u].state = "InfoRequest" /\ Due(u)
        /\ Leave(Await(hub, u, "DeviceInfoReq"), u, ProbeTime)
        /\ Transmit(to, "DeviceInfoReq", 0) /\ temporaryUid' = NoUid
    BY <1>5 DEF VisitInfoRequest, Visiting
  <2>2. "DeviceInfoReq" \in MayAwait(hub[u]) /\ "DeviceInfoReq" \in MessageType
    BY <2>1 DEF MayAwait, MessageType
  <2>3. Addressed(u, to, "DeviceInfoReq")
    BY <2>1 DEF Addressed
  <2>4. to \in Nat
    BY <1>1, BusAssumption DEF RestOK, NoUid
  <2> HIDE DEF to
  <2> QED
    BY <1>1, <1>2, <2>1, <2>2, <2>3, <2>4, AskingIteration, TimesAreInt
<1>6. CASE VisitLost(u)
  <2> DEFINE d == [hub[u] EXCEPT !.state = "Probing"]
  <2>1. hub[u].state = "Lost" /\ Due(u) /\ Quietly(u, d, StepTime)
    BY <1>6 DEF VisitLost, Visiting
  <2>2. hub[u].pending.type = "None"
    BY <1>1, <2>1, NothingOpen DEF Awaiting
  <2>3. /\ d \in DeviceWrapper /\ d.state = "Probing" /\ d.name = hub[u].name
        /\ d.pending = hub[u].pending /\ d.file = hub[u].file
        /\ d.timeouts = hub[u].timeouts
    BY <1>1 DEF DeviceWrapper, DeviceState
  <2>4. DeviceOK(d)
    BY <1>1, <2>3 DEF DeviceOK, DeviceWrapper
  <2>5. PendingOK(d)
    BY <2>2, <2>3 DEF PendingOK
  <2> HIDE DEF d
  <2>6. Settles(u, d)
    BY <2>1, <2>3 DEF Settles
  <2> QED
    BY <2>1, <2>3, <2>4, <2>5, <2>6, QuietIteration, TimesAreInt
<1> QED
  BY <1>3, <1>4, <1>5, <1>6

\* A device in service.
LEMMA RunningIteration ==
  ASSUME HubOK, RestOK, NEW u \in scan, VisitRunning(u)
  PROVE  Iteration(u)
<1> DEFINE s == hub[u].telem
<1>1. /\ DeviceOK(hub[u]) /\ PendingOK(hub[u]) /\ hub[u] \in DeviceWrapper /\ lag \in Nat
  BY Visited
<1>2. hub[u].state = "Running" /\ Due(u)
  BY DEF VisitRunning, RunCommand, RunRequest, RunHealth, RunTelemetry, RunIdle, Visiting
<1>3. {"Command", "BlobRequest", "HealthReq"} \subseteq MessageType \ {"DeviceInfoReq"}
  BY DEF MessageType
<1>4. ASSUME NEW d \in DeviceWrapper, d.state = hub[u].state, d.name = hub[u].name,
             d.timeouts = hub[u].timeouts, d.file = hub[u].file, NEW arg \in Nat,
             NEW type \in {"Command", "BlobRequest", "HealthReq"},
             Issue(u, d, type, arg, StepTime)
      PROVE  Iteration(u)
  <2>1. DeviceOK(d)
    BY <1>1, <1>4 DEF DeviceOK
  <2>2. type \in MayAwait(d) /\ type \in MessageType \ {"DeviceInfoReq"}
    BY <1>2, <1>3, <1>4 DEF MayAwait
  <2>3. Issues(hub[u], d, type, arg) /\ Pause(type) <= StepTime
    BY <1>4, TimesAreInt DEF Issues, FileTypes, Pause
  <2> QED
    BY <1>2, <1>4, <2>1, <2>2, <2>3, IssuingIteration, TimesAreInt
<1>5. CASE RunCommand(u)
  <2> DEFINE d == [hub[u] EXCEPT !.cmds = @ - 1]
  <2>1. hub[u].cmds > 0 /\ hub[u].cmds \in Nat /\ Issue(u, d, "Command", 0, StepTime)
    BY <1>1, <1>5 DEF RunCommand, DeviceWrapper
  <2>2. hub[u].cmds - 1 \in Nat
    BY <2>1
  <2>3. /\ d \in DeviceWrapper /\ d.state = hub[u].state /\ d.name = hub[u].name
        /\ d.timeouts = hub[u].timeouts /\ d.file = hub[u].file
    BY <1>1, <2>2 DEF DeviceWrapper
  <2> HIDE DEF d
  <2> QED
    BY <1>4, <2>1, <2>3
<1>6. CASE RunRequest(u)
  <2> DEFINE d == [hub[u] EXCEPT !.reqs = @ - 1]
  <2>1. hub[u].reqs > 0 /\ hub[u].reqs \in Nat /\ Issue(u, d, "BlobRequest", 0, StepTime)
    BY <1>1, <1>6 DEF RunRequest, DeviceWrapper
  <2>2. hub[u].reqs - 1 \in Nat
    BY <2>1
  <2>3. /\ d \in DeviceWrapper /\ d.state = hub[u].state /\ d.name = hub[u].name
        /\ d.timeouts = hub[u].timeouts /\ d.file = hub[u].file
    BY <1>1, <2>2 DEF DeviceWrapper
  <2> HIDE DEF d
  <2> QED
    BY <1>4, <2>1, <2>3
<1>7. CASE RunHealth(u)
  <2> DEFINE d == [hub[u] EXCEPT !.healthAge = lag]
  <2>1. Issue(u, d, "HealthReq", 0, StepTime)
    BY <1>7 DEF RunHealth
  <2>2. /\ d \in DeviceWrapper /\ d.state = hub[u].state /\ d.name = hub[u].name
        /\ d.timeouts = hub[u].timeouts /\ d.file = hub[u].file
    BY <1>1 DEF DeviceWrapper
  <2> HIDE DEF d
  <2> QED
    BY <1>4, <2>1, <2>2
<1>8. CASE RunTelemetry(u)
  <2> DEFINE due == DueUnits(hub[u])
             t == [i \in DOMAIN s |-> IF i \in due THEN [s[i] EXCEPT !.age = lag] ELSE s[i]]
             d == [hub[u] EXCEPT !.telem = t]
  <2>1. PICK i \in due : Issue(u, d, "BlobRequest", i, StepTime)
    BY <1>8 DEF RunTelemetry
  <2>2. s \in Seq(TelemetryUnit)
    BY <1>1 DEF DeviceWrapper
  <2>3. t \in Seq(TelemetryUnit)
    <3>1. ASSUME NEW j \in DOMAIN s PROVE t[j] \in TelemetryUnit
      <4>1. s[j] \in TelemetryUnit
        BY <2>2, <3>1, LenProperties, ElementOfSeq
      <4> QED
        BY <1>1, <4>1 DEF TelemetryUnit
    <3>2. DOMAIN t = DOMAIN s /\ t = [j \in DOMAIN s |-> t[j]]
      OBVIOUS
    <3> HIDE DEF t
    <3> QED
      BY <2>2, <3>1, <3>2, MappedSeq
  <2>4. i \in Nat
    BY <2>1, <2>2, LenProperties DEF DueUnits
  <2> HIDE DEF t
  <2>5. /\ d \in DeviceWrapper /\ d.state = hub[u].state /\ d.name = hub[u].name
        /\ d.timeouts = hub[u].timeouts /\ d.file = hub[u].file
    BY <1>1, <2>3 DEF DeviceWrapper
  <2> HIDE DEF d
  <2> QED
    BY <1>4, <2>1, <2>4, <2>5
<1>9. CASE RunIdle(u)
  BY <1>1, <1>2, <1>9, QuietIteration, TimesAreInt DEF RunIdle, Settles
<1> QED
  BY <1>5, <1>6, <1>7, <1>8, <1>9 DEF VisitRunning

\* The frames of a transfer that do not depend on packetAck.
LEMMA TransferAsksIteration ==
  ASSUME HubOK, RestOK, NEW u \in scan,
         FileRequest(u) \/ FirstChunk(u) \/ FileFinalize(u)
  PROVE  Iteration(u)
<1> DEFINE c == hub[u].file
<1>1. DeviceOK(hub[u]) /\ hub[u] \in DeviceWrapper /\ c \in FileTransferContext
  BY Visited
<1>2. hub[u].state = "FileTransfer" /\ Due(u)
  BY DEF FileRequest, FirstChunk, FileFinalize, TransferAt, Visiting
<1>3. CASE FileRequest(u)
  <2>1. c.state = "Request" /\ Issue(u, hub[u], "FileWriteRequest", 0, FileReqTime)
    BY <1>3 DEF FileRequest, TransferAt
  <2>2. /\ "FileWriteRequest" \in MayAwait(hub[u])
        /\ "FileWriteRequest" \in MessageType \ {"DeviceInfoReq"}
    BY <1>2, <2>1 DEF MayAwait, MayAwaitAt, MessageType
  <2>3. /\ Issues(hub[u], hub[u], "FileWriteRequest", 0)
        /\ Pause("FileWriteRequest") <= FileReqTime
    BY <1>2, <2>1, TimesAreInt DEF Issues, Pause
  <2> QED
    BY <1>1, <1>2, <2>1, <2>2, <2>3, IssuingIteration, TimesAreInt
<1>4. CASE FirstChunk(u)
  <2> DEFINE b == [c EXCEPT !.first = FALSE]
             d == [hub[u] EXCEPT !.file = b]
  <2>1. /\ c.state = "Sending" /\ c.first
        /\ Issue(u, d, "FileWriteChunk", ChunkLength(b), StepTime)
    BY <1>4 DEF FirstChunk, TransferAt, IssueChunk
  <2>2. b \in FileTransferContext /\ b.state = c.state /\ b.off = c.off /\ b.total = c.total
    BY <1>1 DEF FileTransferContext
  <2>3. b = [c EXCEPT !.first = FALSE]
    OBVIOUS
  <2> HIDE DEF b
  <2>4. b.off <= b.total
    BY <1>1, <2>2 DEF DeviceOK
  <2>5. /\ DeviceOK(d) /\ d.name = hub[u].name /\ d.state = hub[u].state /\ d.file = b
        /\ d.timeouts = hub[u].timeouts
    BY <1>1, <2>1, <2>2, <2>4, FileOK DEF DeviceWrapper
  <2>6. ChunkLength(b) \in Nat
    BY <2>2, <2>4, ChunkFits
  <2> HIDE DEF d
  <2>7. /\ "FileWriteChunk" \in MayAwait(d)
        /\ "FileWriteChunk" \in MessageType \ {"DeviceInfoReq"}
    BY <1>2, <2>1, <2>2, <2>5 DEF MayAwait, MayAwaitAt, MessageType
  <2>8. Issues(hub[u], d, "FileWriteChunk", ChunkLength(b)) /\ Pause("FileWriteChunk") <= StepTime
    BY <1>2, <2>1, <2>3, <2>5, TimesAreInt DEF Issues, Pause
  <2> QED
    BY <1>2, <2>1, <2>5, <2>6, <2>7, <2>8, IssuingIteration, TimesAreInt
<1>5. CASE FileFinalize(u)
  <2>1. /\ c.state = "Finalize" /\ c.sent \in Nat
        /\ Issue(u, hub[u], "FileWriteFinalize", c.sent, FinalTime)
    BY <1>1, <1>5 DEF FileFinalize, TransferAt, FileTransferContext
  <2>2. /\ "FileWriteFinalize" \in MayAwait(hub[u])
        /\ "FileWriteFinalize" \in MessageType \ {"DeviceInfoReq"}
    BY <1>2, <2>1 DEF MayAwait, MayAwaitAt, MessageType
  <2>3. /\ Issues(hub[u], hub[u], "FileWriteFinalize", c.sent)
        /\ Pause("FileWriteFinalize") <= FinalTime
    BY <1>2, <2>1, TimesAreInt DEF Issues, Pause
  <2> QED
    BY <1>1, <1>2, <2>1, <2>2, <2>3, IssuingIteration, TimesAreInt
<1> QED
  BY <1>3, <1>4, <1>5

\* The branches on packetAck.
LEMMA NextChunkIteration ==
  ASSUME HubOK, RestOK, NEW u \in scan, NextChunk(u)
  PROVE  Iteration(u)
<1> DEFINE d == hub[u]
           c == Forget(d.file)
<1>1. /\ DeviceOK(d) /\ PendingOK(d) /\ d \in DeviceWrapper
      /\ d.file \in FileTransferContext
  BY Visited
<1>2. /\ d.state = "FileTransfer" /\ d.file.state = "Sending" /\ ~ d.file.first
      /\ d.file.off <= d.file.total /\ Due(u)
  BY <1>1 DEF NextChunk, TransferAt, Visiting, DeviceOK
<1>3. c \in FileTransferContext /\ c.off <= c.total /\ c.state = "Sending"
  BY <1>1, <1>2, ChunkOK
<1>4. /\ Advanced(c) \in FileTransferContext /\ Advanced(c).off <= Advanced(c).total
      /\ \/ Advanced(c).state = "Finalize" /\ Advanced(c).off = Advanced(c).total
         \/ Advanced(c).state = "Sending"
      /\ Cancelled(c) \in FileTransferContext /\ Cancelled(c).state = "Cancel"
      /\ Cancelled(c).off <= Cancelled(c).total
  BY <1>3, ChunkOK
<1>5. d.pending.type \in {"None", "FileWriteChunk"}
  BY <1>1, <1>2 DEF PendingOK, MayAwait, MayAwaitAt
<1>6. ASSUME NEW e \in FileTransferContext, e.off <= e.total,
             e.state # "Request", e.state = "Finalize" => e.off = e.total,
             \/ d.file.ack = "Wait" /\ e = c
             \/ d.file.ack = "Ok" /\ Advanced(c).state = "Finalize" /\ e = Advanced(c)
             \/ GivesUp(d.file.ack) /\ e = Cancelled(c),
             NEW next \in Int, StepTime <= next, Quietly(u, [d EXCEPT !.file = e], next)
      PROVE  Iteration(u)
  <2> DEFINE b == [d EXCEPT !.file = e]
  <2>1. /\ DeviceOK(b) /\ b.name = d.name /\ b.state = d.state /\ b.pending = d.pending
        /\ b.file = e /\ b.timeouts = d.timeouts
    BY <1>1, <1>6, FileOK DEF DeviceWrapper
  <2>2. Quietly(u, b, next)
    BY <1>6
  <2> HIDE DEF b
  <2>3. PendingOK(b)
    BY <1>2, <1>5, <1>6, <2>1 DEF PendingOK, MayAwait, MayAwaitAt
  <2>4. Settles(u, b)
    BY <1>2, <1>6, <2>1 DEF Settles
  <2> QED
    BY <1>2, <1>6, <2>1, <2>2, <2>3, <2>4, QuietIteration
<1>7. ASSUME NEW e \in FileTransferContext, e.off <= e.total, e.state = "Sending",
             \/ d.file.ack = "Busy" /\ e = c
             \/ d.file.ack = "Ok" /\ Advanced(c).state # "Finalize" /\ e = Advanced(c),
             IssueChunk(u, e)
      PROVE  Iteration(u)
  <2> DEFINE b == [d EXCEPT !.file = e]
  <2>1. /\ DeviceOK(b) /\ b.name = d.name /\ b.state = d.state /\ b.file = e
        /\ b.timeouts = d.timeouts
    BY <1>1, <1>7, FileOK DEF DeviceWrapper
  <2>2. Issue(u, b, "FileWriteChunk", ChunkLength(e), StepTime) /\ ChunkLength(e) \in Nat
    BY <1>7, ChunkFits DEF IssueChunk
  <2> HIDE DEF b
  <2>3. /\ "FileWriteChunk" \in MayAwait(b)
        /\ "FileWriteChunk" \in MessageType \ {"DeviceInfoReq"}
    BY <1>2, <1>7, <2>1 DEF MayAwait, MayAwaitAt, MessageType
  <2>4. Issues(d, b, "FileWriteChunk", ChunkLength(e)) /\ Pause("FileWriteChunk") <= StepTime
    BY <1>2, <1>7, <2>1, TimesAreInt DEF Issues, Pause
  <2> QED
    BY <1>2, <2>1, <2>2, <2>3, <2>4, IssuingIteration, TimesAreInt
<1>8. \/ d.file.ack = "Busy" /\ IssueChunk(u, c)
      \/ d.file.ack = "Wait" /\ Quietly(u, [d EXCEPT !.file = c], WaitTime)
      \/ /\ d.file.ack = "Ok" /\ Advanced(c).state = "Finalize"
         /\ Quietly(u, [d EXCEPT !.file = Advanced(c)], FinalTime)
      \/ d.file.ack = "Ok" /\ Advanced(c).state # "Finalize" /\ IssueChunk(u, Advanced(c))
      \/ GivesUp(d.file.ack) /\ Quietly(u, [d EXCEPT !.file = Cancelled(c)], StepTime)
  BY DEF NextChunk, Resends
<1> HIDE DEF c
<1>9. CASE d.file.ack = "Busy" /\ IssueChunk(u, c)
  BY <1>3, <1>7, <1>9
<1>10. CASE d.file.ack = "Wait" /\ Quietly(u, [d EXCEPT !.file = c], WaitTime)
  BY <1>3, <1>6, <1>10, TimesAreInt
<1>11. CASE /\ d.file.ack = "Ok" /\ Advanced(c).state = "Finalize"
            /\ Quietly(u, [d EXCEPT !.file = Advanced(c)], FinalTime)
  BY <1>4, <1>6, <1>11, TimesAreInt
<1>12. CASE /\ d.file.ack = "Ok" /\ Advanced(c).state # "Finalize"
            /\ IssueChunk(u, Advanced(c))
  BY <1>4, <1>7, <1>12
<1>13. CASE GivesUp(d.file.ack) /\ Quietly(u, [d EXCEPT !.file = Cancelled(c)], StepTime)
  BY <1>4, <1>6, <1>13, TimesAreInt
<1> QED
  BY <1>8, <1>9, <1>10, <1>11, <1>12, <1>13

\* The end of a cancelled transfer, where the observer may offer the next file.
LEMMA FileCancelIteration ==
  ASSUME HubOK, RestOK, NEW u \in scan, FileCancel(u)
  PROVE  Iteration(u)
<1> DEFINE d == hub[u]
           r == [d EXCEPT !.file = NewFile, !.state = "Running"]
<1>1. DeviceOK(d) /\ PendingOK(d) /\ d \in DeviceWrapper
  BY Visited
<1>2. d.state = "FileTransfer" /\ d.file.state = "Cancel" /\ Due(u)
  BY DEF FileCancel, TransferAt, Visiting
<1>3. PICK again \in Agains : Quietly(u, Callback(r, again), StepTime)
  BY DEF FileCancel
<1>4. d.pending.type \in {"None", "FileWriteChunk"}
  BY <1>1, <1>2 DEF PendingOK, MayAwait, MayAwaitAt
<1>5. NewFile \in FileTransferContext /\ NewFile.off <= NewFile.total /\ NewFile.ack = "None"
  BY DEF NewFile, FileTransferContext
<1>6. /\ r \in DeviceWrapper /\ r.state = "Running" /\ r.name = d.name
      /\ r.pending = d.pending /\ r.file = NewFile /\ r.timeouts = d.timeouts
  BY <1>1, <1>5 DEF DeviceWrapper, DeviceState
<1> HIDE DEF r
<1>7. DeviceOK(r)
  BY <1>1, <1>2, <1>5, <1>6 DEF DeviceOK
<1>8. PendingOK(r)
  BY <1>4, <1>6 DEF PendingOK, MayAwait
<1> DEFINE b == Callback(r, again)
<1>9. /\ DeviceOK(b) /\ b.pending = r.pending /\ b.name = r.name /\ b.timeouts = r.timeouts
      /\ b.file.ack = "None"
      /\ \/ b = r
         \/ b.state = "FileTransfer" /\ Started(b.file)
  BY <1>5, <1>6, <1>7, CallbackOK
<1>10. Quietly(u, b, StepTime)
  BY <1>3
<1> HIDE DEF b
<1>11. PendingOK(b)
  BY <1>6, <1>8, <1>9, StartKeepsPending DEF Started
<1>12. Settles(u, b)
  BY <1>2, <1>6, <1>9 DEF Settles
<1> QED
  BY <1>2, <1>6, <1>9, <1>10, <1>11, <1>12, QuietIteration, TimesAreInt

\* Every iteration is one.
LEMMA VisitIteration ==
  ASSUME HubOK, RestOK, NEW u \in scan, Visit(u)
  PROVE  Iteration(u)
BY IdentifyingIteration, RunningIteration, TransferAsksIteration, NextChunkIteration,
   FileCancelIteration
   DEF Visit, VisitTransfer

\* What the timeout check at the end of an iteration does to the record d that the switch
\* left, when the next call is in next ticks from aTime, k ticks ago.
Checked(d, next, k, e) ==
  /\ e.name = d.name /\ e.wait = next - k
  /\ \/ /\ e.state = d.state /\ e.pending = d.pending /\ e.file = d.file
        /\ e.timeouts = d.timeouts /\ (Awaiting(d) => d.pending.age - k < Timeout)
     \/ /\ Awaiting(d) /\ d.pending.age - k >= Timeout
        /\ e.pending = NoPending /\ TimesOut(d, e)

LEMMA CheckedOK ==
  ASSUME NEW d, DeviceOK(d), PendingOK(d), NEW next \in Int, NEW k \in Nat,
         NEW again \in Agains
  PROVE  LET e == CheckTimeout([d EXCEPT !.wait = next - k], k, again) IN
         DeviceOK(e) /\ PendingOK(e) /\ Checked(d, next, k, e)
<1> DEFINE w == [d EXCEPT !.wait = next - k]
           e == CheckTimeout(w, k, again)
<1>1. /\ DeviceOK(w) /\ PendingOK(w) /\ w.name = d.name /\ w.state = d.state
      /\ w.pending = d.pending /\ w.file = d.file
  BY WaitOK
<1>2. w.wait = next - k /\ w.timeouts = d.timeouts
  BY DEF DeviceOK, DeviceWrapper
<1> HIDE DEF w
<1>3. /\ DeviceOK(e) /\ PendingOK(e) /\ e.name = w.name /\ e.wait = w.wait
      /\ \/ e = w /\ (Awaiting(w) => w.pending.age - k < Timeout)
         \/ /\ Awaiting(w) /\ w.pending.age - k >= Timeout
            /\ e.pending = NoPending /\ TimesOut(w, e)
  BY <1>1, CheckTimeoutOK
<1> HIDE DEF e
<1>4. Awaiting(w) = Awaiting(d) /\ (TimesOut(w, e) => TimesOut(d, e))
  BY <1>1, <1>2 DEF Awaiting, TimesOut
<1>5. Checked(d, next, k, e)
  BY <1>1, <1>2, <1>3, <1>4 DEF Checked
<1> QED
  BY <1>3, <1>5 DEF e, w

\* A frame that is sent is not dropped in the same iteration.
LEMMA CheckedShape ==
  ASSUME NEW d, NEW next, NEW k \in Nat, NEW e, Checked(d, next, k, e)
  PROVE  /\ e.name = d.name
         /\ \/ e.state = d.state /\ e.pending = d.pending
            \/ /\ Awaiting(d) /\ d.pending.age # 0 /\ e.pending = NoPending
               /\ \/ e.state \in {d.state, "Lost"}
                  \/ d.state = "Running" /\ e.state = "FileTransfer"
<1>1. Timeout \in Nat /\ Timeout > 0
  BY TimingAssumption
<1>2. d.pending.age = 0 => ~ (d.pending.age - k >= Timeout)
  BY <1>1
<1> QED
  BY <1>2 DEF Checked, TimesOut

\* Every iteration, d being what the switch leaves and e what the timeout check makes of it.
LEMMA VisitSwitches ==
  ASSUME HubOK, RestOK, NEW u \in scan, Visit(u)
  PROVE  /\ IterationFrame(u)
         /\ \E d, next, e :
              /\ Switch(u, d, next) /\ Checked(d, next, lag, e)
              /\ DeviceOK(e) /\ PendingOK(e) /\ hub' = [hub EXCEPT ![u] = e]
<1>1. Iteration(u) /\ lag \in Nat
  BY VisitIteration, Visited
<1>2. PICK d, next, again :
        /\ Switch(u, d, next) /\ again \in Agains
        /\ hub' = [hub EXCEPT ![u] = CheckTimeout([d EXCEPT !.wait = next - lag], lag, again)]
  BY <1>1 DEF Iteration
<1> DEFINE e == CheckTimeout([d EXCEPT !.wait = next - lag], lag, again)
<1>3. DeviceOK(d) /\ PendingOK(d) /\ next \in Int
  BY <1>2 DEF Switch
<1>4. DeviceOK(e) /\ PendingOK(e) /\ Checked(d, next, lag, e)
  BY <1>1, <1>2, <1>3, CheckedOK
<1>5. hub' = [hub EXCEPT ![u] = e]
  BY <1>2
<1> HIDE DEF e
<1> QED
  BY <1>1, <1>2, <1>4, <1>5 DEF Iteration

\* What every iteration does to the variables other than the record of u.
VisitFrame(u) ==
  /\ scan' = scan \ {u} /\ lag' = IF scan = {u} THEN 0 ELSE lag
  /\ UNCHANGED <<nameToUid, uptime, probes, alive>>
  /\ temporaryUid' \in {temporaryUid, NoUid}
  /\ \/ UNCHANGED <<messageNumber, requests, replies>>
     \/ \E dst \in Nat, type \in MessageType, arg \in Nat : Transmit(dst, type, arg)

VisitEffect(u) ==
  /\ VisitFrame(u)
  /\ \E e : StepsTo(hub[u], e) /\ hub' = [hub EXCEPT ![u] = e]

\* In short.
LEMMA VisitOK ==
  ASSUME HubOK, RestOK, NEW u \in scan, Visit(u)
  PROVE  VisitEffect(u)
<1> DEFINE o == hub[u]
<1>1. PICK d, next, e :
        /\ Switch(u, d, next) /\ Checked(d, next, lag, e)
        /\ DeviceOK(e) /\ PendingOK(e) /\ hub' = [hub EXCEPT ![u] = e]
  BY VisitSwitches
<1>2. /\ IterationFrame(u) /\ lag \in Nat
      /\ DeviceOK(d) /\ PendingOK(d) /\ d.name = o.name
      /\ Silent(u, d, next) \/ Asking(u, d, next)
  BY <1>1, VisitSwitches, Visited DEF Switch
<1>3. /\ e.name = d.name
      /\ \/ e.state = d.state /\ e.pending = d.pending
         \/ /\ Awaiting(d) /\ d.pending.age # 0 /\ e.pending = NoPending
            /\ \/ e.state \in {d.state, "Lost"}
               \/ d.state = "Running" /\ e.state = "FileTransfer"
  BY <1>1, <1>2, CheckedShape
<1>4. /\ o.state = "Lost" \/ o.state = "Absent" => ~ Awaiting(o)
      /\ d.state = "Lost" \/ d.state = "Absent" => ~ Awaiting(d)
      /\ o.state # "Absent"
  BY <1>2, NothingOpen, Visited DEF RestOK, Known
<1>5. CASE Silent(u, d, next)
  <2>1. Awaiting(d) = Awaiting(o)
    BY <1>5 DEF Awaiting, Silent
  <2>2. \/ d.state = o.state
        \/ o.state = "Lost" /\ d.state = "Probing"
        \/ o.state = "FileTransfer" /\ d.state \in {"Running", "FileTransfer"}
    BY <1>5 DEF Silent, Settles
  <2>3. \/ e.state = d.state /\ Awaiting(e) = Awaiting(d)
        \/ /\ Awaiting(d) /\ ~ Awaiting(e)
           /\ \/ e.state \in {d.state, "Lost"}
              \/ d.state = "Running" /\ e.state = "FileTransfer"
    BY <1>3 DEF Awaiting, NoPending
  <2>4. LifeStep(o.state, Awaiting(o), e.state, Awaiting(e))
    BY <1>4, <2>1, <2>2, <2>3 DEF LifeStep
  <2>5. VisitFrame(u)
    BY <1>2, <1>5 DEF VisitFrame, IterationFrame, Silent
  <2> QED
    BY <1>1, <1>2, <1>3, <2>4, <2>5 DEF VisitEffect, StepsTo
<1>6. CASE Asking(u, d, next)
  <2>1. PICK dst \in Nat, type \in MessageType, arg \in Nat :
          /\ Transmit(dst, type, arg) /\ Addressed(u, dst, type)
          /\ d.pending = Asked(type) /\ d.state = o.state
    BY <1>6 DEF Asking, Issues
  <2>2. Awaiting(d) /\ d.pending.age = 0
    BY <2>1 DEF Awaiting, Asked, MessageType
  <2>3. e.state = d.state /\ Awaiting(e)
    BY <1>3, <2>2 DEF Awaiting
  <2>4. LifeStep(o.state, Awaiting(o), e.state, Awaiting(e))
    BY <1>4, <2>1, <2>2, <2>3 DEF LifeStep
  <2>5. temporaryUid' \in {temporaryUid, NoUid}
    BY <2>1 DEF Addressed
  <2>6. VisitFrame(u)
    BY <1>2, <2>1, <2>5 DEF VisitFrame, IterationFrame
  <2> QED
    BY <1>1, <1>2, <1>3, <2>4, <2>6 DEF VisitEffect, StepsTo
<1> QED
  BY <1>2, <1>5, <1>6

-----------------------------------------------------------------------------
(* The actions.  Each keeps the invariant, and each moves at most one       *)
(* device, as DeviceLifecycle sees it.                                      *)

LifeMoves ==
  \/ \A v \in Nodes : /\ hub'[v].state = hub[v].state
                      /\ Awaiting(hub'[v]) = Awaiting(hub[v])
  \/ \E u \in Nodes : \E e :
       /\ hub' = [hub EXCEPT ![u] = e]
       /\ LifeStep(hub[u].state, Awaiting(hub[u]), e.state, Awaiting(e))

\* A send function keeps the types of the bus.
LEMMA TransmitOK ==
  ASSUME RestOK, NEW dst \in Nat, NEW type \in MessageType, NEW arg \in Nat,
         Transmit(dst, type, arg)
  PROVE  /\ messageNumber' \in 0 .. NumMod - 1
         /\ requests' \subseteq Frame /\ replies' \subseteq ReplyFrame
<1>1. messageNumber' \in 0 .. NumMod - 1 /\ NextNumber \in Nat
  BY BusAssumption DEF Transmit, NextNumber, RestOK
<1>2. Reached(dst) \subseteq Nodes
  BY DEF Reached
<1>3. ASSUME NEW n \in Nodes
      PROVE  [to |-> n, dst |-> dst, type |-> type, num |-> NextNumber, arg |-> arg] \in Frame
  BY <1>1 DEF Frame
<1>4. requests' \subseteq Frame
  BY <1>2, <1>3 DEF Transmit, RestOK, Recent
<1>5. replies' \subseteq ReplyFrame
  BY DEF Transmit, RestOK, Recent
<1> QED
  BY <1>1, <1>4, <1>5

\* A step of one device that does not touch the rest of the state.
LEMMA DeviceStep ==
  ASSUME HubOK, NEW u \in Nodes, NEW e, StepsTo(hub[u], e),
         hub' = [hub EXCEPT ![u] = e], nameToUid' = nameToUid
  PROVE  HubOK' /\ Known \subseteq Known' /\ LifeMoves
<1>1. LifeMoves
  BY DEF LifeMoves, StepsTo
<1> QED
  BY <1>1, HubStep

\* A step that leaves the hub alone.
LEMMA SameHub ==
  ASSUME HubOK, hub' = hub, nameToUid' = nameToUid
  PROVE  HubOK' /\ Known' = Known /\ LifeMoves
BY DEF HubOK, RegistryOK, Known, LifeMoves

\* An iteration of process.
LEMMA VisitKeeps ==
  ASSUME IInv, NEW u \in scan, Visit(u)
  PROVE  IInv' /\ LifeMoves
<1>1. HubOK /\ RestOK
  BY DEF IInv
<1>2. PICK e : VisitFrame(u) /\ StepsTo(hub[u], e) /\ hub' = [hub EXCEPT ![u] = e]
  BY <1>1, VisitOK DEF VisitEffect
<1>3. u \in Nodes
  BY <1>1 DEF RestOK, Known
<1>4. HubOK' /\ Known \subseteq Known' /\ LifeMoves
  BY <1>1, <1>2, <1>3, DeviceStep DEF VisitFrame
<1>5. /\ messageNumber' \in 0 .. NumMod - 1
      /\ requests' \subseteq Frame /\ replies' \subseteq ReplyFrame
  <2>1. CASE UNCHANGED <<messageNumber, requests, replies>>
    BY <1>1, <2>1 DEF RestOK
  <2>2. CASE \E dst \in Nat, type \in MessageType, arg \in Nat : Transmit(dst, type, arg)
    BY <1>1, <2>2, TransmitOK
  <2> QED
    BY <1>2, <2>1, <2>2 DEF VisitFrame
<1>6. lag' \in 0 .. MaxLag /\ (Idle' => lag' = 0)
  <2>1. 0 \in 0 .. MaxLag
    BY TimingAssumption
  <2>2. CASE scan = {u}
    BY <1>2, <2>1, <2>2 DEF VisitFrame
  <2>3. CASE scan # {u}
    BY <1>1, <1>2, <2>3 DEF VisitFrame, RestOK, Idle
  <2> QED
    BY <2>2, <2>3
<1>7. RestOK'
  BY <1>1, <1>2, <1>4, <1>5, <1>6 DEF VisitFrame, RestOK
<1> QED
  BY <1>4, <1>7 DEF IInv

\* The bus, the devices and the entry of process.
LEMMA EnvironmentKeeps ==
  ASSUME IInv,
         \/ \E f \in requests : LoseRequest(f) \/ \E code \in Codes : NodeReceive(f, code)
         \/ \E r \in replies : LoseReply(r)
         \/ \E n \in Nodes : PowerOff(n) \/ PowerOn(n)
         \/ BeginPass
  PROVE  IInv' /\ LifeMoves
<1>1. HubOK /\ RestOK
  BY DEF IInv
<1>2. UNCHANGED <<hub, nameToUid, temporaryUid, messageNumber, lag, uptime, probes>>
  BY DEF LoseRequest, NodeReceive, LoseReply, PowerOff, PowerOn, BeginPass, hubVars, timeVars
<1>3. HubOK' /\ Known' = Known /\ LifeMoves
  BY <1>1, <1>2, SameHub
<1>4. scan' \subseteq Known' /\ (Idle' => lag' = 0)
  BY <1>1, <1>2, <1>3
     DEF LoseRequest, NodeReceive, LoseReply, PowerOff, PowerOn, BeginPass, timeVars,
         RestOK, Idle
<1>5. requests' \subseteq Frame /\ alive' \subseteq Nodes
  BY <1>1 DEF LoseRequest, NodeReceive, LoseReply, PowerOff, PowerOn, BeginPass, RestOK
<1>6. replies' \subseteq ReplyFrame
  <2>1. ASSUME NEW f \in requests, NEW code \in Codes, NodeReceive(f, code)
        PROVE  replies' \subseteq ReplyFrame
    <3>1. f \in Frame /\ code \in Result
      BY <1>1, BusAssumption DEF RestOK
    <3>2. f.to \in Nodes /\ f.type \in MessageType /\ f.num \in Nat
      BY <3>1 DEF Frame
    <3>3. ASSUME NEW a \in Reply(f.type, code)
          PROVE  a.type \in MessageType /\ a.code \in Result
      BY <3>1 DEF Reply, MessageType, Result, ApplicationDecides
    <3>4. ASSUME NEW a \in Reply(f.type, code)
          PROVE  [from |-> f.to, type |-> a.type, num |-> f.num, code |-> a.code,
                  re |-> f.type] \in ReplyFrame
      BY <3>2, <3>3 DEF ReplyFrame
    <3> QED
      BY <1>1, <2>1, <3>4 DEF NodeReceive, RestOK
  <2>2. CASE replies' \subseteq replies
    BY <1>1, <2>2 DEF RestOK
  <2>3. (\E f \in requests, code \in Codes : NodeReceive(f, code)) \/ replies' \subseteq replies
    BY DEF LoseRequest, LoseReply, PowerOff, PowerOn, BeginPass
  <2> QED
    BY <2>1, <2>2, <2>3
<1>7. RestOK'
  BY <1>1, <1>2, <1>4, <1>5, <1>6 DEF RestOK
<1> QED
  BY <1>3, <1>7 DEF IInv

\* probeAll: MaxDeviceCount - 1 frames, whose numbers wrap.
LEMMA ProbeAllKeeps ==
  ASSUME IInv, ProbeAll
  PROVE  IInv' /\ LifeMoves
<1>1. HubOK /\ RestOK
  BY DEF IInv
<1> DEFINE k == MaxDeviceCount - 1
           Number(i) == (messageNumber + i) % NumMod
           Dst(b, i) == IF b THEN kReservedUID ELSE i
           Frames(b, i) == {[to |-> n, dst |-> Dst(b, i), type |-> "Probe",
                             num |-> Number(i), arg |-> 0] : n \in Reached(Dst(b, i))}
<1>2. PICK b \in Broadcasts :
        /\ probes < MaxProbeAll /\ probes' = probes + 1
        /\ messageNumber' = Number(k)
        /\ requests' = Recent(requests, k) \cup UNION {Frames(b, i) : i \in 1 .. k}
        /\ replies' = Recent(replies, k)
        /\ UNCHANGED <<hub, nameToUid, temporaryUid, timeVars, alive>>
  BY DEF ProbeAll
<1>3. HubOK' /\ Known' = Known /\ LifeMoves
  BY <1>1, <1>2, SameHub
<1>4. k \in Nat /\ NumMod \in Nat \ {0} /\ messageNumber \in Nat
  BY <1>1, BusAssumption DEF RestOK
<1>5. ASSUME NEW i \in Nat PROVE Number(i) \in 0 .. NumMod - 1
  BY <1>4
<1>6. messageNumber' \in 0 .. NumMod - 1
  BY <1>2, <1>4, <1>5
<1>7. ASSUME NEW i \in 1 .. k PROVE Frames(b, i) \subseteq Frame
  <2>1. i \in Nat /\ Number(i) \in Nat
    BY <1>4, <1>5
  <2>2. Dst(b, i) \in Nat
    BY <2>1 DEF kReservedUID
  <2>3. Reached(Dst(b, i)) \subseteq Nodes
    BY DEF Reached
  <2>4. "Probe" \in MessageType
    BY DEF MessageType
  <2> HIDE DEF Number, Dst
  <2>5. ASSUME NEW n \in Nodes
        PROVE  [to |-> n, dst |-> Dst(b, i), type |-> "Probe", num |-> Number(i),
                arg |-> 0] \in Frame
    BY <2>1, <2>2, <2>4 DEF Frame
  <2> QED
    BY <2>3, <2>5
<1> HIDE DEF Frames
<1>8. requests' \subseteq Frame /\ replies' \subseteq ReplyFrame
  BY <1>1, <1>2, <1>7 DEF RestOK, Recent
<1>9. probes' \in 0 .. MaxProbeAll
  BY <1>1, <1>2, BusAssumption DEF RestOK
<1>10. RestOK'
  BY <1>1, <1>2, <1>3, <1>6, <1>8, <1>9 DEF RestOK, timeVars, Idle
<1> QED
  BY <1>3, <1>10 DEF IInv

\* A call that concerns one device.
LEMMA CallKeeps ==
  ASSUME IInv, NEW name \in Names, Registered(name),
         NEW e, StepsTo(hub[UidOf(name)], e), Update(name, e)
  PROVE  IInv' /\ LifeMoves
<1>1. HubOK /\ RestOK
  BY DEF IInv
<1>2. UidOf(name) \in Nodes
  BY <1>1, InputAssumption DEF Registered, UidOf, HubOK
<1>3. /\ hub' = [hub EXCEPT ![UidOf(name)] = e]
      /\ UNCHANGED <<nameToUid, temporaryUid, messageNumber, scan, lag, uptime, probes,
                     requests, replies, alive>>
  BY DEF Update, timeVars
<1>4. HubOK' /\ Known \subseteq Known' /\ LifeMoves
  BY <1>1, <1>2, <1>3, DeviceStep
<1>5. RestOK'
  BY <1>1, <1>3, <1>4 DEF RestOK, Idle
<1> QED
  BY <1>4, <1>5 DEF IInv

\* What a call makes of the device it names: its queues are changed, or a file is started.
Called(d, e) ==
  /\ DeviceOK(e) /\ PendingOK(e) /\ e.name = d.name /\ e.pending = d.pending
  /\ e.timeouts = d.timeouts /\ e.wait = d.wait
  /\ \/ e.state = d.state /\ e.file = d.file
     \/ /\ d.state = "Running" /\ e.state = "FileTransfer"
        /\ Started(e.file) /\ e.file.ack = d.file.ack

LEMMA QueuesOK ==
  ASSUME NEW d, DeviceOK(d), PendingOK(d), NEW e \in DeviceWrapper, e.state = d.state,
         e.name = d.name, e.pending = d.pending, e.timeouts = d.timeouts, e.file = d.file,
         e.wait = d.wait
  PROVE  Called(d, e)
<1>1. DeviceOK(e)
  BY DEF DeviceOK
<1>2. PendingOK(e)
  BY DEF PendingOK, MayAwait
<1> QED
  BY <1>1, <1>2 DEF Called

\* The device that a call names.
LEMMA NamedDevice ==
  ASSUME HubOK, NEW name \in Names, Registered(name)
  PROVE  /\ UidOf(name) \in Nodes /\ hub[UidOf(name)] \in DeviceWrapper
         /\ DeviceOK(hub[UidOf(name)]) /\ PendingOK(hub[UidOf(name)])
<1>1. UidOf(name) \in Nodes
  BY InputAssumption DEF Registered, UidOf, HubOK
<1> QED
  BY <1>1 DEF HubOK, DeviceOK

\* Every call of the application but probeAll.
LEMMA CallOK ==
  ASSUME HubOK, RestOK, Application
  PROVE  \/ ProbeAll
         \/ \E name \in Names : /\ Registered(name)
                                /\ \E e : Called(hub[UidOf(name)], e) /\ Update(name, e)
<1>1. ASSUME NEW name \in Names, SendCmdToDevice(name)
      PROVE  /\ Registered(name)
             /\ \E e : Called(hub[UidOf(name)], e) /\ Update(name, e)
  <2> DEFINE d == hub[UidOf(name)]
             e == [d EXCEPT !.cmds = @ + 1]
  <2>1. Registered(name) /\ Update(name, e)
    BY <1>1 DEF SendCmdToDevice
  <2>2. DeviceOK(d) /\ PendingOK(d) /\ d \in DeviceWrapper
    BY <2>1, NamedDevice
  <2>3. /\ e \in DeviceWrapper /\ e.state = d.state /\ e.name = d.name
        /\ e.pending = d.pending /\ e.timeouts = d.timeouts /\ e.file = d.file
        /\ e.wait = d.wait
    BY <2>2 DEF DeviceWrapper
  <2> HIDE DEF e
  <2> QED
    BY <2>1, <2>2, <2>3, QueuesOK
<1>2. ASSUME NEW name \in Names, SendBlobRequestToDevice(name)
      PROVE  /\ Registered(name)
             /\ \E e : Called(hub[UidOf(name)], e) /\ Update(name, e)
  <2> DEFINE d == hub[UidOf(name)]
             e == [d EXCEPT !.reqs = @ + 1]
  <2>1. Registered(name) /\ Update(name, e)
    BY <1>2 DEF SendBlobRequestToDevice
  <2>2. DeviceOK(d) /\ PendingOK(d) /\ d \in DeviceWrapper
    BY <2>1, NamedDevice
  <2>3. /\ e \in DeviceWrapper /\ e.state = d.state /\ e.name = d.name
        /\ e.pending = d.pending /\ e.timeouts = d.timeouts /\ e.file = d.file
        /\ e.wait = d.wait
    BY <2>2 DEF DeviceWrapper
  <2> HIDE DEF e
  <2> QED
    BY <2>1, <2>2, <2>3, QueuesOK
<1>3. ASSUME NEW name \in Names, NEW period \in Periods, CreateSchedRequest(name, period)
      PROVE  /\ Registered(name)
             /\ \E e : Called(hub[UidOf(name)], e) /\ Update(name, e)
  <2> DEFINE d == hub[UidOf(name)]
             unit == [period |-> period, age |-> Lower(uptime, period + MaxLag)]
             t == Append(d.telem, unit)
             e == [d EXCEPT !.telem = t]
  <2>1. Registered(name) /\ Update(name, e)
    BY <1>3 DEF CreateSchedRequest
  <2>2. DeviceOK(d) /\ PendingOK(d) /\ d \in DeviceWrapper
    BY <2>1, NamedDevice
  <2>3. period \in Nat /\ period + MaxLag \in Nat /\ uptime \in Nat
    BY InputAssumption, TimingAssumption DEF RestOK
  <2>4. Lower(uptime, period + MaxLag) \in Nat
    BY <2>3 DEF Lower
  <2>5. unit \in TelemetryUnit
    BY <2>3, <2>4 DEF TelemetryUnit
  <2> HIDE DEF unit
  <2>6. d.telem \in Seq(TelemetryUnit)
    BY <2>2 DEF DeviceWrapper
  <2>7. t \in Seq(TelemetryUnit)
    BY <2>5, <2>6, AppendProperties
  <2> HIDE DEF t
  <2>8. /\ e \in DeviceWrapper /\ e.state = d.state /\ e.name = d.name
        /\ e.pending = d.pending /\ e.timeouts = d.timeouts /\ e.file = d.file
        /\ e.wait = d.wait
    BY <2>2, <2>7 DEF DeviceWrapper
  <2> HIDE DEF e
  <2> QED
    BY <2>1, <2>2, <2>8, QueuesOK
<1>4. ASSUME NEW name \in Names, NEW f \in Files, SendFile(name, f)
      PROVE  /\ Registered(name)
             /\ \E e : Called(hub[UidOf(name)], e) /\ Update(name, e)
  <2> DEFINE d == hub[UidOf(name)]
             e == StartFile(d, f)
  <2>1. Registered(name) /\ Update(name, e)
    BY <1>4 DEF SendFile
  <2>2. DeviceOK(d) /\ PendingOK(d)
    BY <2>1, NamedDevice
  <2>3. /\ DeviceOK(e) /\ e.name = d.name /\ e.pending = d.pending
        /\ e.timeouts = d.timeouts /\ e.wait = d.wait /\ e.file.ack = d.file.ack
        /\ \/ e = d
           \/ /\ d.state = "Running" /\ e.state = "FileTransfer"
              /\ e.file.state = "Request" /\ Started(e.file)
    BY <2>2, StartFileOK
  <2> HIDE DEF e
  <2>4. PendingOK(e)
    BY <2>2, <2>3, StartKeepsPending
  <2> QED
    BY <2>1, <2>3, <2>4 DEF Called
<1> QED
  BY <1>1, <1>2, <1>3, <1>4 DEF Application

LEMMA ApplicationKeeps ==
  ASSUME IInv, Application
  PROVE  IInv' /\ LifeMoves
<1>1. ASSUME NEW d, NEW e, Called(d, e) PROVE StepsTo(d, e)
  BY <1>1 DEF Called, StepsTo, LifeStep, Awaiting
<1> QED
  BY <1>1, CallOK, CallKeeps, ProbeAllKeeps DEF IInv

\* An answer is taken from the bus.
LEMMA ReceiveOK ==
  ASSUME RestOK, NEW r \in replies, Receive(r)
  PROVE  /\ r.from \in Nodes /\ r.code \in Result
         /\ Known \subseteq Known' /\ temporaryUid' \in Nodes \cup {NoUid} => RestOK'
<1>1. r \in ReplyFrame
  BY DEF RestOK
<1>2. r.from \in Nodes /\ r.code \in Result
  BY <1>1 DEF ReplyFrame
<1>3. /\ replies' \subseteq replies
      /\ UNCHANGED <<messageNumber, scan, lag, uptime, probes, requests, alive>>
  BY DEF Receive, timeVars
<1>4. ASSUME Known \subseteq Known', temporaryUid' \in Nodes \cup {NoUid}
      PROVE  RestOK'
  BY <1>3, <1>4 DEF RestOK, Idle
<1> QED
  BY <1>2, <1>4

\* r ends the request that is pending with the device d.
Completes(d, r) ==
  /\ Matches(d, r)
  /\ \/ r.type = "Ack"
     \/ r.type = "BlobAnswer" /\ d.pending.type = "BlobRequest"
     \/ r.type = "HealthAnw" /\ d.pending.type = "HealthReq"
     \/ r.type = "DeviceInfoAnw" /\ d.state = "InfoRequest"

\* It makes e of d then.
Completed(d, r, e) ==
  /\ Completes(d, r) /\ e.pending = NoPending
  /\ e.timeouts = d.timeouts /\ e.wait = d.wait
  /\ \/ r.type = "Ack" /\ e.name = d.name /\ AckEffect(d, r.code, e)
     \/ /\ r.type \in {"BlobAnswer", "HealthAnw"}
        /\ e.name = d.name /\ e.state = d.state /\ e.file = d.file
     \/ /\ r.type = "DeviceInfoAnw"
        /\ e.name = NameOf[r.from] /\ e.state = "Running" /\ e.file = d.file

\* What the answer r makes of the device d that it comes from: a device is made known, the
\* pending request ends, or nothing happens.
Handled(d, r, e) ==
  /\ DeviceOK(e) /\ PendingOK(e)
  /\ \/ d.state = "Absent" /\ r.type = "Ack" /\ e = NewDevice(uptime)
     \/ ~ Completes(d, r) /\ (d.state = "Absent" => r.type # "Ack") /\ e = d
     \/ Completed(d, r, e)

LEMMA NameGiven ==
  ASSUME NEW u \in Nodes
  PROVE  NameOf[u] \in Names /\ NameOf[u] # NoName
  BY BusAssumption, InputAssumption

LEMMA HandleOK ==
  ASSUME HubOK, RestOK, NEW r \in replies, Handle(r)
  PROVE  /\ Receive(r) /\ r.from \in Nodes /\ r.code \in Result
         /\ temporaryUid' \in Nodes \cup {NoUid}
         /\ nameToUid' = IF r.type = "DeviceInfoAnw" /\ Completes(hub[r.from], r)
                         THEN [nameToUid EXCEPT ![NameOf[r.from]] = r.from] ELSE nameToUid
         /\ \E e : Handled(hub[r.from], r, e) /\ hub' = [hub EXCEPT ![r.from] = e]
<1> DEFINE u == r.from
           d == hub[u]
           s == [d EXCEPT !.pending = NoPending]
<1>1. Receive(r)
  BY DEF Handle, HandleAck, HandleBlobAnswer, HandleDeviceInfoAnswer, HandleDeviceHealth
<1>2. u \in Nodes /\ r.code \in Result
  BY <1>1, ReceiveOK
<1>3. DeviceOK(d) /\ PendingOK(d) /\ d \in DeviceWrapper /\ uptime \in Nat
  BY <1>2, BusAssumption DEF HubOK, RestOK, DeviceOK
<1>4. /\ temporaryUid' \in Nodes \cup {NoUid}
      /\ nameToUid' = IF r.type = "DeviceInfoAnw" /\ Completes(hub[r.from], r)
                      THEN [nameToUid EXCEPT ![NameOf[r.from]] = r.from] ELSE nameToUid
  BY <1>2 DEF RestOK, Handle, HandleAck, HandleBlobAnswer, HandleDeviceInfoAnswer,
              HandleDeviceHealth, Expected, RegistryWith, Completes
<1>5. ASSUME NEW e, Handled(d, r, e), hub' = [hub EXCEPT ![u] = e]
      PROVE  \E x : Handled(hub[r.from], r, x) /\ hub' = [hub EXCEPT ![r.from] = x]
  BY <1>5
<1>6. ASSUME NEW again \in Agains, HandleAck(r, again)
      PROVE  \E e : Handled(d, r, e) /\ hub' = [hub EXCEPT ![u] = e]
  <2> DEFINE e == IF d.state = "Absent" THEN NewDevice(uptime)
                  ELSE IF Matches(d, r) THEN Acked(d, r.code, again)
                  ELSE d
  <2>1. hub' = [hub EXCEPT ![u] = e] /\ r.type = "Ack"
    BY <1>6 DEF HandleAck
  <2>2. CASE d.state = "Absent"
    <3>1. DeviceOK(e) /\ PendingOK(e) /\ e = NewDevice(uptime)
      BY <1>3, <2>2, NewDeviceOK DEF PendingOK, NoPending
    <3> QED
      BY <2>1, <2>2, <3>1 DEF Handled
  <2>3. CASE d.state # "Absent" /\ Matches(d, r)
    <3>1. e = Acked(d, r.code, again) /\ Completes(d, r)
      BY <2>1, <2>3 DEF Completes
    <3>2. /\ DeviceOK(e) /\ PendingOK(e) /\ e.name = d.name /\ e.pending = NoPending
          /\ e.timeouts = d.timeouts /\ e.wait = d.wait /\ AckEffect(d, r.code, e)
      BY <1>2, <1>3, <3>1, AckedOK
    <3> HIDE DEF e
    <3> QED
      BY <2>1, <3>1, <3>2 DEF Handled, Completed
  <2>4. CASE d.state # "Absent" /\ ~ Matches(d, r)
    BY <1>3, <2>1, <2>4 DEF Handled, Completes
  <2> QED
    BY <2>2, <2>3, <2>4
<1>7. /\ DeviceOK(s) /\ PendingOK(s) /\ s.name = d.name /\ s.state = d.state
      /\ s.pending = NoPending /\ s.file = d.file /\ s.timeouts = d.timeouts
      /\ s.wait = d.wait
  BY <1>3, SettledOK DEF DeviceWrapper
<1>8. ASSUME HandleBlobAnswer(r) \/ HandleDeviceHealth(r)
      PROVE  \E e : Handled(d, r, e) /\ hub' = [hub EXCEPT ![u] = e]
  <2>1. d = [d EXCEPT !.pending = @]
    BY <1>3 DEF DeviceWrapper
  <2>2. /\ r.type \in {"BlobAnswer", "HealthAnw"}
        /\ \/ Completes(d, r) /\ hub' = [hub EXCEPT ![u].pending = NoPending]
           \/ ~ Completes(d, r) /\ hub' = [hub EXCEPT ![u].pending = @]
    BY <1>8 DEF HandleBlobAnswer, HandleDeviceHealth, Completes
  <2>3. \/ Completes(d, r) /\ hub' = [hub EXCEPT ![u] = s]
        \/ ~ Completes(d, r) /\ hub' = [hub EXCEPT ![u] = d]
    BY <1>2, <2>1, <2>2
  <2> HIDE DEF s
  <2> QED
    BY <1>3, <1>7, <2>2, <2>3 DEF Handled, Completed
<1>9. ASSUME HandleDeviceInfoAnswer(r)
      PROVE  \E e : Handled(d, r, e) /\ hub' = [hub EXCEPT ![u] = e]
  <2> DEFINE e == [d EXCEPT !.pending = NoPending, !.name = NameOf[u], !.state = "Running"]
  <2>1. /\ r.type = "DeviceInfoAnw" /\ Completes(d, r) = Expected(d, r)
        /\ hub' = [hub EXCEPT ![u] = IF Expected(d, r) THEN e ELSE d]
    BY <1>9 DEF HandleDeviceInfoAnswer, Completes, Expected
  <2>2. CASE ~ Expected(d, r)
    BY <1>3, <2>1, <2>2 DEF Handled
  <2>3. CASE Expected(d, r)
    <3>1. NameOf[u] \in Names /\ NameOf[u] # NoName
      BY <1>2, NameGiven
    <3>2. NoPending \in PendingTrans /\ NoPending.type = "None"
      BY DEF NoPending, PendingTrans
    <3>3. /\ e \in DeviceWrapper /\ e.pending = NoPending /\ e.name = NameOf[u]
          /\ e.state = "Running" /\ e.timeouts = d.timeouts /\ e.file = d.file
          /\ e.wait = d.wait
      BY <1>3, <3>1, <3>2 DEF DeviceWrapper, DeviceState
    <3> HIDE DEF e
    <3>4. DeviceOK(e) /\ PendingOK(e)
      BY <1>3, <3>1, <3>2, <3>3 DEF DeviceOK, PendingOK
    <3> QED
      BY <2>1, <2>3, <3>3, <3>4 DEF Handled, Completed
  <2> QED
    BY <2>2, <2>3
<1> QED
  BY <1>1, <1>2, <1>4, <1>6, <1>8, <1>9 DEF Handle

\* A device is entered into the registry under its own name.  Names are unique, so that no
\* other device loses its entry.
LEMMA RegisteredOK ==
  ASSUME HubOK, NEW u \in Nodes, NEW e, DeviceOK(e), PendingOK(e), e.name = NameOf[u],
         e.state = "Running", hub' = [hub EXCEPT ![u] = e],
         nameToUid' = [nameToUid EXCEPT ![NameOf[u]] = u]
  PROVE  HubOK' /\ Known \subseteq Known'
<1>1. NameOf[u] \in Names /\ NameOf[u] # NoName
  BY NameGiven
<1>2. /\ hub' = [v \in Nodes |-> hub'[v]] /\ hub'[u] = e
      /\ \A v \in Nodes \ {u} : hub'[v] = hub[v]
  BY DEF HubOK
<1>3. /\ nameToUid' \in [Names -> Nodes \cup {kReservedUID}]
      /\ nameToUid'[NameOf[u]] = u
      /\ \A n \in Names \ {NameOf[u]} : nameToUid'[n] = nameToUid[n]
  BY <1>1 DEF HubOK
<1>4. \A v \in Nodes : DeviceOK(hub'[v]) /\ PendingOK(hub'[v])
  BY <1>2 DEF HubOK
<1>5. RegistryOK'
  <2>1. ASSUME NEW n \in Names, nameToUid'[n] # kReservedUID
        PROVE  hub'[nameToUid'[n]].name = n
    <3>1. CASE n = NameOf[u]
      BY <1>2, <1>3, <3>1
    <3>2. CASE n # NameOf[u]
      <4>1. nameToUid'[n] = nameToUid[n] /\ nameToUid[n] \in Nodes
        BY <1>3, <2>1, <3>2 DEF HubOK
      <4>2. hub[nameToUid[n]].name = n
        BY <2>1, <4>1 DEF HubOK, RegistryOK
      <4>3. nameToUid[n] # u
        BY <3>2, <4>2, InputAssumption DEF HubOK, RegistryOK
      <4> QED
        BY <1>2, <4>1, <4>2, <4>3
    <3> QED
      BY <3>1, <3>2
  <2>2. ASSUME NEW v \in Nodes, hub'[v].name # NoName
        PROVE  hub'[v].name = NameOf[v] /\ nameToUid'[NameOf[v]] = v
    <3>1. CASE v = u
      BY <1>2, <1>3, <3>1
    <3>2. CASE v # u
      <4>1. hub[v].name = NameOf[v] /\ nameToUid[NameOf[v]] = v /\ hub'[v] = hub[v]
        BY <1>2, <2>2, <3>2 DEF HubOK, RegistryOK
      <4>2. NameOf[v] \in Names /\ NameOf[v] # NameOf[u]
        BY <3>2, BusAssumption
      <4> QED
        BY <1>3, <4>1, <4>2
    <3> QED
      BY <3>1, <3>2
  <2>3. ASSUME NEW v \in Nodes, hub'[v].state \in {"Running", "FileTransfer"}
        PROVE  hub'[v].name # NoName
    BY <1>4, <2>3 DEF DeviceOK
  <2> QED
    BY <2>1, <2>2, <2>3 DEF RegistryOK
<1>6. HubOK'
  BY <1>2, <1>3, <1>4, <1>5 DEF HubOK
<1> QED
  BY <1>2, <1>6 DEF Known

LEMMA HandleKeeps ==
  ASSUME IInv, NEW r \in replies, Handle(r)
  PROVE  IInv' /\ LifeMoves
<1> DEFINE u == r.from
           d == hub[u]
<1>1. HubOK /\ RestOK /\ uptime \in Nat
  BY BusAssumption DEF IInv, RestOK
<1>2. /\ Receive(r) /\ u \in Nodes
      /\ temporaryUid' \in Nodes \cup {NoUid}
      /\ nameToUid' = IF r.type = "DeviceInfoAnw" /\ Completes(d, r)
                      THEN [nameToUid EXCEPT ![NameOf[u]] = u] ELSE nameToUid
  BY <1>1, HandleOK
<1>3. PICK e : Handled(d, r, e) /\ hub' = [hub EXCEPT ![u] = e]
  BY <1>1, HandleOK
<1>4. DeviceOK(d) /\ PendingOK(d) /\ DeviceOK(e) /\ PendingOK(e)
  BY <1>1, <1>2, <1>3 DEF HubOK, Handled
<1>5. ASSUME HubOK', Known \subseteq Known', LifeMoves PROVE IInv' /\ LifeMoves
  BY <1>1, <1>2, <1>5, ReceiveOK DEF IInv
<1>6. ASSUME StepsTo(d, e), nameToUid' = nameToUid PROVE IInv' /\ LifeMoves
  BY <1>1, <1>2, <1>3, <1>5, <1>6, DeviceStep
<1>7. CASE d.state = "Absent" /\ r.type = "Ack" /\ e = NewDevice(uptime)
  <2>1. d.name = NoName
    BY <1>4, <1>7 DEF DeviceOK
  <2>2. e.name = NoName /\ e.pending = NoPending /\ e.state = "InfoRequest"
    BY <1>1, <1>7, NewDeviceOK
  <2>3. StepsTo(d, e)
    BY <1>4, <1>7, <2>1, <2>2 DEF StepsTo, LifeStep, Awaiting, NoPending
  <2> QED
    BY <1>2, <1>6, <1>7, <2>3
<1>8. CASE ~ Completes(d, r) /\ e = d
  <2>1. StepsTo(d, e)
    BY <1>4, <1>8 DEF StepsTo, LifeStep
  <2> QED
    BY <1>2, <1>6, <1>8, <2>1
<1>9. CASE Completed(d, r, e)
  <2>1. Awaiting(d) /\ ~ Awaiting(e) /\ Completes(d, r)
    BY <1>9 DEF Completed, Completes, Matches, Awaiting, NoPending
  <2>2. CASE r.type = "Ack" /\ e.name = d.name /\ AckEffect(d, r.code, e)
    <3>1. LifeStep(d.state, Awaiting(d), e.state, Awaiting(e))
      BY <2>1, <2>2 DEF AckEffect, LifeStep
    <3> QED
      BY <1>2, <1>4, <1>6, <2>2, <3>1 DEF StepsTo
  <2>3. CASE /\ r.type \in {"BlobAnswer", "HealthAnw"}
             /\ e.name = d.name /\ e.state = d.state
    <3>1. LifeStep(d.state, Awaiting(d), e.state, Awaiting(e))
      BY <2>1, <2>3 DEF LifeStep
    <3> QED
      BY <1>2, <1>4, <1>6, <2>3, <3>1 DEF StepsTo
  <2>4. CASE /\ r.type = "DeviceInfoAnw"
             /\ e.name = NameOf[u] /\ e.state = "Running"
    <3>1. d.state = "InfoRequest"
      BY <2>1, <2>4 DEF Completes
    <3>2. HubOK' /\ Known \subseteq Known'
      BY <1>1, <1>2, <1>3, <1>4, <2>1, <2>4, RegisteredOK
    <3>3. LifeMoves
      BY <1>2, <1>3, <2>1, <2>4, <3>1 DEF LifeMoves, LifeStep
    <3> QED
      BY <1>5, <3>2, <3>3
  <2> QED
    BY <1>9, <2>2, <2>3, <2>4 DEF Completed
<1> QED
  BY <1>3, <1>7, <1>8, <1>9 DEF Handled

\* The clock.
LEMMA TickKeeps ==
  ASSUME IInv, Tick
  PROVE  IInv' /\ LifeMoves
<1>1. HubOK /\ RestOK
  BY DEF IInv
<1> DEFINE e(v) == IF hub[v].state = "Absent" THEN hub[v] ELSE Aged(hub[v])
<1>2. /\ hub' = [v \in Nodes |-> e(v)] /\ uptime' = Older(uptime, Horizon)
      /\ Idle \/ lag < MaxLag
      /\ lag' = IF Idle THEN 0 ELSE lag + 1
      /\ UNCHANGED <<nameToUid, temporaryUid, messageNumber, scan, probes,
                     requests, replies, alive>>
  BY DEF Tick
<1>3. ASSUME NEW v \in Nodes
      PROVE  /\ DeviceOK(e(v)) /\ PendingOK(e(v)) /\ e(v).name = hub[v].name
             /\ e(v).state = hub[v].state /\ Awaiting(e(v)) = Awaiting(hub[v])
  <2>1. DeviceOK(hub[v]) /\ PendingOK(hub[v])
    BY <1>1 DEF HubOK
  <2>2. CASE hub[v].state = "Absent"
    BY <2>1, <2>2
  <2>3. CASE hub[v].state # "Absent"
    <3>1. e(v) = Aged(hub[v])
      BY <2>3
    <3> QED
      BY <2>1, <3>1, AgedOK
  <2> QED
    BY <2>2, <2>3
<1> HIDE DEF e
<1>4. /\ hub' = [v \in Nodes |-> hub'[v]]
      /\ \A v \in Nodes : hub'[v] = e(v)
  BY <1>2
<1>5. LifeMoves
  BY <1>3, <1>4 DEF LifeMoves
<1>6. Known' = Known
  BY <1>3, <1>4 DEF Known
<1>7. RegistryOK'
  <2>1. \A v \in Nodes : hub'[v].name = hub[v].name /\ hub'[v].state = hub[v].state
    BY <1>3, <1>4
  <2>2. ASSUME NEW n \in Names, nameToUid[n] # kReservedUID PROVE nameToUid[n] \in Nodes
    BY <1>1, <2>2 DEF HubOK
  <2> QED
    BY <1>1, <1>2, <2>1, <2>2 DEF HubOK, RegistryOK
<1>8. HubOK'
  BY <1>1, <1>2, <1>3, <1>4, <1>7 DEF HubOK
<1>9. lag' \in 0 .. MaxLag /\ (Idle' => lag' = 0)
  <2>1. CASE Idle
    BY <1>2, <2>1, TimingAssumption
  <2>2. CASE ~ Idle
    BY <1>1, <1>2, <2>2, TimingAssumption DEF RestOK, Idle
  <2> QED
    BY <2>1, <2>2
<1>10. uptime' \in 0 .. Horizon
  BY <1>1, <1>2, BusAssumption DEF RestOK, Older, Lower
<1>11. RestOK'
  BY <1>1, <1>2, <1>6, <1>9, <1>10 DEF RestOK
<1> QED
  BY <1>5, <1>8, <1>11 DEF IInv

-----------------------------------------------------------------------------
(* The theorems.                                                            *)

\* The hub as it is constructed.
LEMMA InitOK == Init => IInv
<1> SUFFICES ASSUME Init PROVE IInv
  OBVIOUS
<1>1. hub = [u \in Nodes |-> AbsentDevice]
  BY DEF Init
<1>2. PendingOK(AbsentDevice)
  BY AbsentDeviceOK DEF PendingOK, NoPending
<1>3. \A u \in Nodes : DeviceOK(hub[u]) /\ PendingOK(hub[u])
  BY <1>1, <1>2, AbsentDeviceOK
<1>4. nameToUid = [n \in Names |-> kReservedUID]
  BY DEF Init
<1>5. RegistryOK
  BY <1>1, <1>4, AbsentDeviceOK DEF RegistryOK
<1>6. HubOK
  BY <1>1, <1>3, <1>4, <1>5 DEF HubOK
<1>7. 0 \in 0 .. MaxLag /\ uptime \in 0 .. Horizon /\ probes \in 0 .. MaxProbeAll
  BY TimingAssumption, BusAssumption DEF Init
<1>8. messageNumber \in 0 .. NumMod - 1
  BY BusAssumption DEF Init
<1>9. RestOK
  BY <1>7, <1>8 DEF Init, RestOK, Idle
<1> QED
  BY <1>6, <1>9 DEF IInv

\* Every step.
LEMMA StepOK ==
  ASSUME IInv, [Next]_vars
  PROVE  IInv' /\ LifeMoves
<1>1. CASE Application
  BY <1>1, ApplicationKeeps
<1>2. CASE Environment
  BY <1>2, EnvironmentKeeps, TickKeeps DEF Environment
<1>3. CASE \E r \in replies : Handle(r)
  BY <1>3, HandleKeeps
<1>4. CASE BeginPass
  BY <1>4, EnvironmentKeeps
<1>5. CASE \E u \in scan : Visit(u)
  BY <1>5, VisitKeeps
<1>6. CASE UNCHANGED vars
  <2>1. HubOK' /\ Known' = Known /\ LifeMoves
    BY <1>6, SameHub DEF IInv, vars
  <2>2. RestOK'
    BY <1>6, <2>1 DEF IInv, RestOK, Idle, vars
  <2> QED
    BY <2>1, <2>2 DEF IInv
<1> QED
  BY <1>1, <1>2, <1>3, <1>4, <1>5, <1>6 DEF Next

\* The inductive invariant holds: the records, the registry and the rest of the state
\* stay consistent, whatever the bus does to the frames.
THEOREM Invariant == Spec => []IInv
<1>1. Init => IInv
  BY InitOK
<1>2. IInv /\ [Next]_vars => IInv'
  BY StepOK
<1> QED
  BY <1>1, <1>2, PTL DEF Spec

\* Every variable keeps its type, and no device is kept that missed LostLimit answers.
THEOREM TypeCorrect == Spec => []TypeOK
BY Invariant, IInvImplies, PTL

\* What is sent to a device under its name reaches that device, however the answers of
\* the devices and the information requests, which the hub sends to the UID it remembers
\* last (temporaryUid), cross each other.
THEOREM RegistryCorrect == Spec => []RegistryOK
BY Invariant, IInvImplies, PTL

\* The request that is pending is one that the state of the device can have issued, so
\* that handleAck and the timeout check, which look at the state, end the right thing.
THEOREM PendingCorrect == Spec => []PendingFitsState
BY Invariant, IInvImplies, PTL

\* The hub never reads beyond the end of the file it sends, and finalizes it only when
\* all of it was acknowledged, although a chunk's length is cut to a byte.
THEOREM OffsetCorrect == Spec => []OffsetFits
BY Invariant, IInvImplies, PTL

\* No device is known at first.
LEMMA LifeInit == Init => Lifecycle!Init
<1> SUFFICES ASSUME Init PROVE Lifecycle!Init
  OBVIOUS
<1>1. \A u \in Nodes : hub[u].state = "Absent" /\ ~ Awaiting(hub[u])
  BY AbsentDeviceOK DEF Init, Awaiting, NoPending
<1> QED
  BY <1>1 DEF Lifecycle!Init, Awaiting

\* One device moves as DeviceLifecycle allows it.
LEMMA LifeNext ==
  ASSUME IInv, LifeMoves
  PROVE  [Lifecycle!Next]_(Lifecycle!vars)
<1> DEFINE phase == [v \in Nodes |-> hub[v].state]
           asked == [v \in Nodes |-> Awaiting(hub[v])]
           phaseN == [v \in Nodes |-> hub'[v].state]
           askedN == [v \in Nodes |-> Awaiting(hub'[v])]
<1>1. CASE \A v \in Nodes : /\ hub'[v].state = hub[v].state
                            /\ Awaiting(hub'[v]) = Awaiting(hub[v])
  <2>1. phaseN = phase /\ askedN = asked
    BY <1>1
  <2> QED
    BY <2>1 DEF Lifecycle!vars
<1>2. ASSUME NEW u \in Nodes, NEW e, hub' = [hub EXCEPT ![u] = e],
             LifeStep(hub[u].state, Awaiting(hub[u]), e.state, Awaiting(e))
      PROVE  [Lifecycle!Next]_(Lifecycle!vars)
  <2> DEFINE p == hub[u].state
             a == Awaiting(hub[u])
             q == e.state
             b == Awaiting(e)
  <2>1. hub'[u] = e /\ \A v \in Nodes \ {u} : hub'[v] = hub[v]
    BY <1>2 DEF IInv, HubOK
  <2>2. a \in BOOLEAN /\ b \in BOOLEAN
    BY DEF Awaiting
  <2>3. phaseN = [phase EXCEPT ![u] = q]
    BY <2>1
  <2>4. askedN = [asked EXCEPT ![u] = b]
    BY <2>1
  <2>5. phase[u] = p /\ asked[u] = a
    OBVIOUS
  <2>6. LifeStep(p, a, q, b)
    BY <1>2
  <2> QED
    BY <2>2, <2>3, <2>4, <2>5, <2>6
       DEF LifeStep, Lifecycle!Next, Lifecycle!vars, Lifecycle!To, Lifecycle!Appear,
           Lifecycle!Ask, Lifecycle!Settle, Lifecycle!Identify, Lifecycle!Reappear,
           Lifecycle!BeginFile, Lifecycle!EndFile, Lifecycle!Lose, Lifecycle!Reprobe
<1> QED
  BY <1>1, <1>2 DEF LifeMoves

\* The hub implements DeviceLifecycle: no device gets into service without having answered
\* a question about its identity that was put to it in that phase, however late, lost or
\* mixed up the answers on the bus are.
THEOREM LifecycleKept == Spec => KeepsLifecycle
<1>1. Init => Lifecycle!Init
  BY LifeInit
<1>2. IInv /\ [Next]_vars => [Lifecycle!Next]_(Lifecycle!vars)
  BY StepOK, LifeNext
<1> QED
  BY <1>1, <1>2, Invariant, PTL DEF Spec, KeepsLifecycle, Lifecycle!Spec

=============================================================================
