-------------------------- MODULE FileAcks_proofs --------------------------
(***************************************************************************)
(* packetAck is the answer to the last chunk, from the second chunk of a   *)
(* transfer on.  sendFile does not reset packetAck, so that the first      *)
(* chunk may find there what an earlier transfer left: while a chunk is    *)
(* pending and packetAck holds an answer, nothing was acknowledged yet.    *)
(***************************************************************************)
EXTENDS DeviceHub_proofs

\* The first chunk is the one at the beginning of the file, and an answer beside a
\* pending chunk is found there only.
AckFits(d) ==
  /\ d.file.first => d.file.off = 0
  /\ d.pending.type = "FileWriteChunk" /\ d.file.ack # "None" => d.file.off = 0

AllAcksFit == \A v \in Nodes : AckFits(hub[v])

-----------------------------------------------------------------------------
(* One device.                                                              *)

\* A transfer begins, if the device is in service, and what is pending stays or ends.
LEMMA StartKeepsAck ==
  ASSUME NEW d, NEW e, AckFits(d), e.pending \in {d.pending, NoPending},
         e.file = d.file \/ e.file.off = 0
  PROVE  AckFits(e)
BY DEF AckFits, NoPending

\* What the handler of an acknowledgement makes of its device.
LEMMA AckedKeepsAck ==
  ASSUME NEW d, DeviceOK(d), PendingOK(d), NEW code \in Result, NEW again \in Agains,
         AckFits(d)
  PROVE  AckFits(Acked(d, code, again))
<1> DEFINE e == Acked(d, code, again)
<1>1. e.pending = NoPending /\ AckEffect(d, code, e)
  BY AckedOK
<1>2. d.file \in FileTransferContext
  BY DEF DeviceOK, DeviceWrapper
<1> HIDE DEF e
<1>3. e.file.off = 0 \/ (e.file.off = d.file.off /\ e.file.first = d.file.first)
  BY <1>1, <1>2 DEF AckEffect, Started, FileTransferContext
<1>4. AckFits(e)
  BY <1>1, <1>3 DEF AckFits, NoPending
<1> QED
  BY <1>4 DEF e

\* The switch of processDevice.  A chunk that is sent later than the first is sent
\* with packetAck forgotten.
LEMMA SwitchKeepsAck ==
  ASSUME NEW u, NEW o, o = hub[u], DeviceOK(o), AckFits(o),
         NEW d, NEW next, Switch(u, d, next)
  PROVE  AckFits(d)
<1>1. o.file \in FileTransferContext /\ (Silent(u, d, next) \/ Asking(u, d, next))
  BY DEF Switch, DeviceOK, DeviceWrapper
<1>2. /\ LET c == Forget(o.file) IN c.ack = "None" /\ c.first = o.file.first
      /\ LET c == Advanced(Forget(o.file)) IN c.ack = "None" /\ c.first = o.file.first
      /\ LET c == Cancelled(Forget(o.file)) IN c.ack = "None" /\ c.first = o.file.first
      /\ LET c == [o.file EXCEPT !.first = FALSE] IN ~ c.first /\ c.off = o.file.off
  BY <1>1 DEF Forget, Advanced, Cancelled, FileTransferContext
<1>3. NewFile.off = 0
  BY DEF NewFile
<1>4. CASE Silent(u, d, next)
  <2>1. d = o \/ d.file = o.file \/ d.file.off = 0 \/ (d.file.ack = "None" /\ ~ d.file.first)
    BY <1>2, <1>3, <1>4 DEF Silent, Settles, Started
  <2> QED
    BY <1>4, <2>1 DEF Silent, AckFits
<1>5. CASE Asking(u, d, next)
  <2>1. PICK type, arg : d.pending = Asked(type) /\ Issues(o, d, type, arg)
    BY <1>5 DEF Asking
  <2>2. CASE type # "FileWriteChunk"
    <3>1. d.file = o.file /\ d.pending.type # "FileWriteChunk"
      BY <2>1, <2>2 DEF Issues, Asked
    <3> QED
      BY <3>1 DEF AckFits
  <2>3. CASE type = "FileWriteChunk"
    <3>1. ~ d.file.first /\ (d.file.ack = "None" \/ d.file.off = 0)
      BY <1>2, <2>1, <2>3 DEF Issues, FileTypes, AckFits
    <3> QED
      BY <3>1 DEF AckFits
  <2> QED
    BY <2>2, <2>3
<1> QED
  BY <1>1, <1>4, <1>5

\* u's record changes to one that fits.
AckStep(u) == \E e : AckFits(e) /\ hub' = [hub EXCEPT ![u] = e]

\* Every iteration, the timeout check with it.
LEMMA VisitKeepsAck ==
  ASSUME HubOK, RestOK, NEW u \in scan, AckFits(hub[u]), Visit(u)
  PROVE  AckStep(u)
<1>1. PICK d, next, e : /\ Switch(u, d, next) /\ Checked(d, next, lag, e)
                        /\ hub' = [hub EXCEPT ![u] = e]
  BY VisitSwitches
<1>2. AckFits(d)
  BY <1>1, Visited, SwitchKeepsAck
<1>3. \/ e.pending = d.pending /\ e.file = d.file
      \/ /\ e.pending = NoPending
         /\ \/ e.file.off = 0
            \/ e.file.off = d.file.off /\ e.file.first = d.file.first
            \/ e.file = d.file
  BY <1>1 DEF Checked, TimesOut
<1>4. AckFits(e)
  BY <1>2, <1>3 DEF AckFits, NoPending
<1> QED
  BY <1>1, <1>4 DEF AckStep

-----------------------------------------------------------------------------
(* The actions, and the theorem.                                            *)

\* One device steps, the others stay as they are.
LEMMA OneAckFits ==
  ASSUME HubOK, AllAcksFit, NEW u \in Nodes, NEW e, AckFits(e),
         hub' = [hub EXCEPT ![u] = e]
  PROVE  AllAcksFit'
<1>1. hub'[u] = e /\ \A v \in Nodes \ {u} : hub'[v] = hub[v]
  BY DEF HubOK
<1> QED
  BY <1>1 DEF AllAcksFit

\* The calls of the application.
LEMMA ApplicationKeepsAck ==
  ASSUME IInv, AllAcksFit, Application
  PROVE  AllAcksFit'
<1>1. HubOK
  BY DEF IInv
<1>2. ASSUME NEW name \in Names, Registered(name)
      PROVE  LET d == hub[UidOf(name)] IN
             UidOf(name) \in Nodes /\ DeviceOK(d) /\ d \in DeviceWrapper /\ AckFits(d)
  <2>1. UidOf(name) \in Nodes
    BY <1>1, <1>2, InputAssumption DEF Registered, UidOf, HubOK
  <2> QED
    BY <1>1, <2>1 DEF HubOK, DeviceOK, AllAcksFit
<1>3. ASSUME NEW name \in Names, NEW e, Registered(name), Update(name, e),
             e.pending = hub[UidOf(name)].pending,
             e.file = hub[UidOf(name)].file \/ e.file.off = 0
      PROVE  AllAcksFit'
  <2>1. AckFits(e)
    BY <1>2, <1>3, StartKeepsAck
  <2> QED
    BY <1>1, <1>2, <1>3, <2>1, OneAckFits DEF Update
<1>4. CASE ProbeAll
  BY <1>4 DEF ProbeAll, AllAcksFit
<1>5. ASSUME NEW name \in Names, SendCmdToDevice(name) PROVE AllAcksFit'
  <2> DEFINE d == hub[UidOf(name)]
             e == [d EXCEPT !.cmds = @ + 1]
  <2>1. Registered(name) /\ Update(name, e)
    BY <1>5 DEF SendCmdToDevice
  <2>2. e.pending = d.pending /\ e.file = d.file
    BY <1>2, <2>1 DEF DeviceWrapper
  <2> HIDE DEF e
  <2> QED
    BY <1>3, <2>1, <2>2
<1>6. ASSUME NEW name \in Names, SendBlobRequestToDevice(name) PROVE AllAcksFit'
  <2> DEFINE d == hub[UidOf(name)]
             e == [d EXCEPT !.reqs = @ + 1]
  <2>1. Registered(name) /\ Update(name, e)
    BY <1>6 DEF SendBlobRequestToDevice
  <2>2. e.pending = d.pending /\ e.file = d.file
    BY <1>2, <2>1 DEF DeviceWrapper
  <2> HIDE DEF e
  <2> QED
    BY <1>3, <2>1, <2>2
<1>7. ASSUME NEW name \in Names, NEW period \in Periods, CreateSchedRequest(name, period)
      PROVE  AllAcksFit'
  <2> DEFINE d == hub[UidOf(name)]
             unit == [period |-> period, age |-> Lower(uptime, period + MaxLag)]
             e == [d EXCEPT !.telem = Append(@, unit)]
  <2>1. Registered(name) /\ Update(name, e)
    BY <1>7 DEF CreateSchedRequest
  <2>2. e.pending = d.pending /\ e.file = d.file
    BY <1>2, <2>1 DEF DeviceWrapper
  <2> HIDE DEF e
  <2> QED
    BY <1>3, <2>1, <2>2
<1>8. ASSUME NEW name \in Names, NEW f \in Files, SendFile(name, f) PROVE AllAcksFit'
  <2> DEFINE d == hub[UidOf(name)]
             e == StartFile(d, f)
  <2>1. Registered(name) /\ Update(name, e)
    BY <1>8 DEF SendFile
  <2>2. e.pending = d.pending /\ (e.file = d.file \/ e.file.off = 0)
    BY <1>2, <2>1, StartFileOK DEF Started
  <2> HIDE DEF e
  <2> QED
    BY <1>3, <2>1, <2>2
<1> QED
  BY <1>4, <1>5, <1>6, <1>7, <1>8 DEF Application

\* The answers that reach the hub.
LEMMA HandleKeepsAck ==
  ASSUME IInv, AllAcksFit, NEW r \in replies, Handle(r)
  PROVE  AllAcksFit'
<1> DEFINE u == r.from
           d == hub[u]
<1>1. HubOK /\ RestOK
  BY DEF IInv
<1>2. u \in Nodes /\ r.code \in Result
  BY <1>1, ReceiveOK DEF Handle, HandleAck, HandleBlobAnswer, HandleDeviceInfoAnswer,
                         HandleDeviceHealth
<1>3. DeviceOK(d) /\ PendingOK(d) /\ d \in DeviceWrapper /\ AckFits(d)
  BY <1>1, <1>2 DEF HubOK, DeviceOK, AllAcksFit
<1>4. ASSUME NEW e, hub' = [hub EXCEPT ![u] = e] \/ hub' = [hub EXCEPT ![u] = d], AckFits(e)
      PROVE  AllAcksFit'
  BY <1>1, <1>2, <1>3, <1>4, OneAckFits
<1>5. ASSUME NEW again \in Agains, HandleAck(r, again) PROVE AllAcksFit'
  <2> DEFINE e == IF d.state = "Absent" THEN NewDevice(uptime)
                  ELSE IF Matches(d, r) THEN Acked(d, r.code, again)
                  ELSE d
  <2>1. hub' = [hub EXCEPT ![u] = e]
    BY <1>5 DEF HandleAck
  <2>2. AckFits(NewDevice(uptime))
    BY DEF NewDevice, NewFile, NoPending, AckFits
  <2>3. AckFits(Acked(d, r.code, again))
    BY <1>2, <1>3, AckedKeepsAck
  <2>4. AckFits(e)
    BY <1>3, <2>2, <2>3
  <2> HIDE DEF e
  <2> QED
    BY <1>4, <2>1, <2>4
<1>6. CASE HandleBlobAnswer(r) \/ HandleDeviceHealth(r)
  <2> DEFINE e == [d EXCEPT !.pending = NoPending]
  <2>1. hub' = [hub EXCEPT ![u] = e] \/ hub' = [hub EXCEPT ![u] = d]
    BY <1>1, <1>2, <1>3, <1>6 DEF HandleBlobAnswer, HandleDeviceHealth, HubOK, DeviceWrapper
  <2>2. e.pending = NoPending /\ e.file = d.file
    BY <1>3 DEF DeviceWrapper
  <2> HIDE DEF e
  <2> QED
    BY <1>3, <1>4, <2>1, <2>2, StartKeepsAck
<1>7. CASE HandleDeviceInfoAnswer(r)
  <2> DEFINE e == [d EXCEPT !.pending = NoPending, !.name = NameOf[u], !.state = "Running"]
  <2>1. hub' = [hub EXCEPT ![u] = e] \/ hub' = [hub EXCEPT ![u] = d]
    BY <1>7 DEF HandleDeviceInfoAnswer
  <2>2. e.pending = NoPending /\ e.file = d.file
    BY <1>3 DEF DeviceWrapper
  <2> HIDE DEF e
  <2> QED
    BY <1>3, <1>4, <2>1, <2>2, StartKeepsAck
<1> QED
  BY <1>5, <1>6, <1>7 DEF Handle

\* The clock.
LEMMA TickKeepsAck ==
  ASSUME IInv, AllAcksFit, Tick
  PROVE  AllAcksFit'
<1>1. ASSUME NEW v \in Nodes PROVE AckFits(Aged(hub[v]))
  <2> DEFINE e == Aged(hub[v])
  <2>1. DeviceOK(hub[v]) /\ PendingOK(hub[v]) /\ AckFits(hub[v])
    BY DEF IInv, HubOK, AllAcksFit
  <2>2. e.file = hub[v].file
    BY <2>1, AgedOK
  <2>3. e.pending.type = hub[v].pending.type
    BY <2>1 DEF Aged, OlderPending, DeviceOK, DeviceWrapper, PendingTrans
  <2> HIDE DEF e
  <2>4. AckFits(e)
    BY <2>1, <2>2, <2>3 DEF AckFits
  <2> QED
    BY <2>4 DEF e
<1>2. \A v \in Nodes : hub'[v] = hub[v] \/ hub'[v] = Aged(hub[v])
  BY DEF Tick
<1>3. \A v \in Nodes : AckFits(hub'[v])
  BY <1>1, <1>2 DEF AllAcksFit
<1> QED
  BY <1>3 DEF AllAcksFit

\* Every step.
LEMMA StepKeepsAck ==
  ASSUME IInv, AllAcksFit, [Next]_vars
  PROVE  AllAcksFit'
<1>1. HubOK /\ RestOK
  BY DEF IInv
<1>2. CASE hub' = hub
  BY <1>2 DEF AllAcksFit
<1>3. CASE Environment
  <2>1. Tick \/ hub' = hub
    BY <1>3 DEF Environment, LoseRequest, NodeReceive, LoseReply, PowerOff, PowerOn, hubVars
  <2> QED
    BY <1>2, <2>1, TickKeepsAck
<1>4. ASSUME NEW u \in scan, Visit(u) PROVE AllAcksFit'
  <2>1. u \in Nodes /\ AckFits(hub[u])
    BY <1>1 DEF RestOK, Known, AllAcksFit
  <2>2. PICK e : AckFits(e) /\ hub' = [hub EXCEPT ![u] = e]
    BY <1>1, <1>4, <2>1, VisitKeepsAck DEF AckStep
  <2> QED
    BY <1>1, <2>1, <2>2, OneAckFits
<1>5. CASE BeginPass \/ UNCHANGED vars
  BY <1>2, <1>5 DEF BeginPass, hubVars, vars
<1> QED
  BY <1>3, <1>4, <1>5, ApplicationKeepsAck, HandleKeepsAck DEF Next

\* No chunk is pending at first.
LEMMA InitAcksFit ==
  ASSUME Init
  PROVE  AllAcksFit
BY DEF Init, AllAcksFit, AbsentDevice, NewDevice, NewFile, NoPending, AckFits

\* From the second chunk of a transfer on nothing is in packetAck while the last chunk is
\* unanswered: no answer to an earlier chunk, of this transfer or of one before, decides
\* what becomes of it, although sendFile leaves packetAck as it was, however long a pass
\* of process takes and however late frames come.
THEOREM AckCorrect == Spec => []AckIsOfLastChunk
<1> DEFINE Inv == IInv /\ AllAcksFit
<1>1. Init => Inv
  BY InitOK, InitAcksFit
<1>2. Inv /\ [Next]_vars => Inv'
  BY StepOK, StepKeepsAck
<1>3. Inv => AckIsOfLastChunk
  <2> SUFFICES ASSUME Inv, NEW u \in Nodes, hub[u].pending.type = "FileWriteChunk",
                      hub[u].file.off > 0
               PROVE  hub[u].file.ack = "None"
    BY DEF AckIsOfLastChunk
  <2> QED
    BY DEF AllAcksFit, AckFits
<1> QED
  BY <1>1, <1>2, <1>3, PTL DEF Spec

=============================================================================
