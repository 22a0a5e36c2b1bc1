----------------------------- MODULE DeviceHub -----------------------------
(***************************************************************************)
(* The hub (include/UtilitaryRS/DeviceHub.hpp) on a bus with its devices.  *)
(*                                                                         *)
(* The hub is single threaded: the application calls process(aTime), the   *)
(* sending functions and update() one after another.  process visits the   *)
(* devices in the order of their UIDs; BeginPass is its entry and one      *)
(* Visit... action is one iteration of its loop, and no other call runs    *)
(* before the pass is over.  Only time goes on during a pass, because      *)
(* writing a frame takes time.                                             *)
(*                                                                         *)
(* The bus carries frames in order and may lose them.  A frame is          *)
(* delivered or lost before its number is used again, that is within       *)
(* NumMod - 1 further transmissions (255 in the code).  The frames of      *)
(* process that only say Ack to a device are not kept: a device does       *)
(* nothing with an Ack.                                                    *)
(***************************************************************************)
EXTENDS HubDevice, RsHandler

CONSTANTS
  Nodes,           \* UIDs of the devices on the bus
  NameOf,          \* the name each of them reports
  MaxDeviceCount,  \* template parameter: probeAll visits 1 .. MaxDeviceCount-1
  NumMod,          \* messageNumber is a uint8_t
  FirstNumbers,    \* what the constructor may leave in it
  Horizon,         \* uptime counts no further
  CallbackFiles,   \* the files an observer sends from within a callback
  Broadcasts,      \* values of probeAll's aBroadcast that the application uses
  MaxProbeAll,     \* bound on the number of probeAll calls
  MaxQueue,        \* bound on commandQueue and on requestQueue
  MaxTelem,        \* bound on telemSched
  Codes,           \* results the devices' applications return
  Lossy,           \* may the bus lose frames?
  Timely,          \* is all that can be done in a tick done in it?
  Mortal           \* the devices that may be switched off and on

ASSUME BusAssumption ==
  /\ Nodes \subseteq 1 .. 254
  /\ NameOf \in [Nodes -> Names]
  /\ \A m, n \in Nodes : NameOf[m] = NameOf[n] => m = n
  /\ NumMod \in Nat \ {0} /\ MaxDeviceCount \in 1 .. NumMod
  /\ FirstNumbers \subseteq 0 .. NumMod - 1
  /\ MaxProbeAll \in Nat /\ MaxQueue \in Nat /\ MaxTelem \in Nat
  /\ Horizon \in Nat /\ HealthTime + MaxLag <= Horizon
  /\ \A p \in Periods : p + MaxLag <= Horizon
  /\ CallbackFiles \subseteq Files
  /\ Broadcasts \subseteq BOOLEAN
  /\ Codes \subseteq Result /\ Lossy \in BOOLEAN /\ Timely \in BOOLEAN
  /\ Mortal \subseteq Nodes
  /\ Lossy \/ \A f \in Files : f.total > 0 /\ f.chunk \in 1 .. ByteMod - 1

VARIABLES
  hub,            \* the map from UIDs to devices
  nameToUid,      \* kReservedUID for a name that is not a key of the map
  temporaryUid,   \* NoUid when it has no value
  messageNumber,  \* the number of the last frame sent
  scan,           \* the devices the running pass of process has yet to visit
  lag,            \* ticks since the running pass read the time
  uptime,         \* the clock, as far as it matters
  probes,         \* calls of probeAll so far
  requests,       \* frames on their way to the devices
  replies,        \* frames on their way to the hub
  alive           \* the devices that are switched on

hubVars == <<hub, nameToUid, temporaryUid, messageNumber>>
timeVars == <<scan, lag, uptime>>
vars == <<hub, nameToUid, temporaryUid, messageNumber, scan, lag, uptime,
          probes, requests, replies, alive>>

NoUid == 0

Known == {u \in Nodes : hub[u].state # "Absent"}

\* getUIDFromName; no device has the empty name.
UidOf(name) == IF name = NoName THEN kReservedUID ELSE nameToUid[name]

-----------------------------------------------------------------------------
(* Frames.  to is the device the frame reaches, dst the receiver UID in    *)
(* its header; re is the type of the request a reply answers, recorded for *)
(* the properties only.                                                    *)

Frame == [to : Nodes, dst : Nat, type : MessageType, num : Nat, arg : Nat]

ReplyFrame == [from : Nodes, type : MessageType, num : Nat,
               code : Result, re : MessageType]

Reached(dst) == IF dst = kReservedUID THEN Nodes ELSE Nodes \cap {dst}

\* How many frames were sent after the one with this number.
Age(num) == (messageNumber - num) % NumMod

\* (mutant) The number is not advanced.
SameNumber == messageNumber

NextNumber == (messageNumber + 1) % NumMod

\* The frames of a set that are not too old when k more have been sent.
Recent(frames, k) == {f \in frames : Age(f.num) + k < NumMod}

\* One of the send functions of RsHandler.
Transmit(dst, type, arg) ==
  /\ messageNumber' = NextNumber
  /\ requests' = Recent(requests, 1) \cup
       {[to |-> n, dst |-> dst, type |-> type, num |-> NextNumber, arg |-> arg]
          : n \in Reached(dst)}
  /\ replies' = Recent(replies, 1)

\* updateDevicePending, for the frame that is being sent to u.
Await(h, u, type) ==
  [h EXCEPT ![u].pending = [num |-> NextNumber, type |-> type, age |-> 0]]

-----------------------------------------------------------------------------
(* The calls of the application.                                           *)

Idle == scan = {}

ProbeAll ==
  \E broadcast \in Broadcasts :
    LET k == MaxDeviceCount - 1
        Number(i) == (messageNumber + i) % NumMod
        Dst(i) == IF broadcast THEN kReservedUID ELSE i
    IN  /\ Idle /\ probes < MaxProbeAll
        /\ probes' = probes + 1
        /\ messageNumber' = Number(k)
        /\ requests' = Recent(requests, k) \cup
             UNION {{[to |-> n, dst |-> Dst(i), type |-> "Probe",
                      num |-> Number(i), arg |-> 0] : n \in Reached(Dst(i))}
                      : i \in 1 .. k}
        /\ replies' = Recent(replies, k)
        /\ UNCHANGED <<hub, nameToUid, temporaryUid, timeVars, alive>>

\* The device of this name is given the new record d.
Update(name, d) ==
  /\ hub' = [hub EXCEPT ![UidOf(name)] = d]
  /\ UNCHANGED <<nameToUid, temporaryUid, messageNumber, timeVars, probes,
                 requests, replies, alive>>

\* The device a call names, when the call gets past its checks.
Registered(name) == Idle /\ UidOf(name) # kReservedUID

SendCmdToDevice(name) ==
  LET d == hub[UidOf(name)]
  IN  /\ Registered(name) /\ d.state = "Running" /\ d.cmds < MaxQueue
      /\ Update(name, [d EXCEPT !.cmds = @ + 1])

SendBlobRequestToDevice(name) ==
  LET d == hub[UidOf(name)]
  IN  /\ Registered(name) /\ d.state = "Running" /\ d.reqs < MaxQueue
      /\ Update(name, [d EXCEPT !.reqs = @ + 1])

CreateSchedRequest(name, period) ==
  LET d == hub[UidOf(name)]
      entry == [period |-> period, age |-> Lower(uptime, period + MaxLag)]
  IN  /\ Registered(name) /\ Len(d.telem) < MaxTelem
      /\ Update(name, [d EXCEPT !.telem = Append(@, entry)])

SendFile(name, f) ==
  LET d == hub[UidOf(name)]
  IN  /\ Registered(name) /\ d.state = "Running"
      /\ Update(name, StartFile(d, f))

-----------------------------------------------------------------------------
(* The bus and the devices.                                                *)

\* f is the oldest frame on its way to its device, or from it.
NextRequest(f) == \A g \in requests : g.to = f.to => Age(g.num) <= Age(f.num)
NextReply(r) == \A s \in replies : s.from = r.from => Age(s.num) <= Age(r.num)

\* Not so a chunk without data: the receiving parser waits for a payload and
\* takes bytes of the frames that follow for it, so that they are lost too.
Parsable(f) == ~ (f.type = "FileWriteChunk" /\ f.arg = 0)

\* RsHandler::process on a device, whose application returns code.
NodeReceive(f, code) ==
  /\ NextRequest(f) /\ f.to \in alive /\ Parsable(f)
  /\ requests' = requests \ {f}
  /\ replies' = replies \cup
       {[from |-> f.to, type |-> a.type, num |-> f.num, code |-> a.code, re |-> f.type]
          : a \in Reply(f.type, code)}
  /\ UNCHANGED <<hubVars, timeVars, probes, alive>>

LoseRequest(f) ==
  /\ NextRequest(f) /\ (Lossy \/ f.to \notin alive \/ ~ Parsable(f))
  /\ requests' = requests \ {f}
  /\ UNCHANGED <<hubVars, timeVars, probes, replies, alive>>

LoseReply(r) ==
  /\ Lossy /\ NextReply(r)
  /\ replies' = replies \ {r}
  /\ UNCHANGED <<hubVars, timeVars, probes, requests, alive>>

PowerOff(n) ==
  /\ n \in Mortal \cap alive
  /\ alive' = alive \ {n}
  /\ UNCHANGED <<hubVars, timeVars, probes, requests, replies>>

PowerOn(n) ==
  /\ n \in Mortal \ alive
  /\ alive' = alive \cup {n}
  /\ UNCHANGED <<hubVars, timeVars, probes, requests, replies>>

\* process(aTime) would call the switch of processDevice for u.
Due(u) == hub[u].wait + lag <= 0

Expired(u) == Awaiting(hub[u]) /\ hub[u].pending.age - lag >= Timeout

\* Timely: the bus delivers, and the application calls process, in time.
Tick ==
  /\ Idle \/ lag < MaxLag
  /\ Timely => /\ requests = {} /\ replies = {}
               /\ \A u \in Known : ~ Due(u) /\ ~ Expired(u)
  /\ hub' = [u \in Nodes |-> IF hub[u].state = "Absent" THEN hub[u] ELSE Aged(hub[u])]
  /\ uptime' = Older(uptime, Horizon)
  /\ lag' = IF Idle THEN 0 ELSE lag + 1
  /\ UNCHANGED <<nameToUid, temporaryUid, messageNumber, scan, probes,
                 requests, replies, alive>>

-----------------------------------------------------------------------------
(* The hub receives a reply: RsHandler::process and the handler it calls.  *)

Agains == {{}} \cup {{f} : f \in CallbackFiles}

Receive(r) ==
  /\ Idle /\ NextReply(r)
  /\ replies' = replies \ {r}
  /\ UNCHANGED <<messageNumber, timeVars, probes, requests, alive>>

\* (mutant) Any answer ends the pending request.
MatchesAny(d, r) == Awaiting(d)

\* pending->messageNumber == aMessageNumber
Matches(d, r) == Awaiting(d) /\ d.pending.num = r.num

HandleAck(r, again) ==
  LET u == r.from
      d == hub[u]
  IN  /\ r.type = "Ack" /\ Receive(r)
      /\ hub' = [hub EXCEPT ![u] = IF d.state = "Absent" THEN NewDevice(uptime)
                                   ELSE IF Matches(d, r) THEN Acked(d, r.code, again)
                                   ELSE d]
      /\ temporaryUid' = IF d.state = "Absent" THEN u ELSE temporaryUid
      /\ UNCHANGED nameToUid

HandleBlobAnswer(r) ==
  LET d == hub[r.from]
  IN  /\ r.type = "BlobAnswer" /\ Receive(r)
      /\ hub' = [hub EXCEPT ![r.from].pending =
                   IF Matches(d, r) /\ d.pending.type = "BlobRequest"
                   THEN NoPending ELSE @]
      /\ UNCHANGED <<nameToUid, temporaryUid>>

\* (mutant) The number of the answer is not looked at.
ExpectedAnyway(d, r) == d.state = "InfoRequest"

Expected(d, r) == Matches(d, r) /\ d.state = "InfoRequest"

\* (mutant) The name is entered for the device that was remembered last.
RegistryOfTemporary(u) ==
  [nameToUid EXCEPT ![NameOf[u]] = IF temporaryUid # NoUid THEN temporaryUid ELSE u]

\* nameToUid[dev->name] = aTranceiverUID
RegistryWith(u) == [nameToUid EXCEPT ![NameOf[u]] = u]

HandleDeviceInfoAnswer(r) ==
  LET u == r.from
      d == hub[u]
      expected == Expected(d, r)
  IN  /\ r.type = "DeviceInfoAnw" /\ Receive(r)
      /\ hub' = [hub EXCEPT ![u] =
                   IF expected
                   THEN [d EXCEPT !.pending = NoPending, !.name = NameOf[u],
                                  !.state = "Running"]
                   ELSE d]
      /\ nameToUid' = IF expected THEN RegistryWith(u) ELSE nameToUid
      /\ UNCHANGED temporaryUid

HandleDeviceHealth(r) ==
  LET d == hub[r.from]
  IN  /\ r.type = "HealthAnw" /\ Receive(r)
      /\ hub' = [hub EXCEPT ![r.from].pending =
                   IF Matches(d, r) /\ d.pending.type = "HealthReq"
                   THEN NoPending ELSE @]
      /\ UNCHANGED <<nameToUid, temporaryUid>>

-----------------------------------------------------------------------------
(* process(aTime).  A pass with nothing to do changes nothing: it is left   *)
(* out.                                                                     *)

BeginPass ==
  /\ Idle /\ \E u \in Known : Due(u) \/ Expired(u)
  /\ scan' = Known
  /\ UNCHANGED <<hubVars, lag, uptime, probes, requests, replies, alive>>

\* The pass comes to u, which is in the given state.
Visiting(u, state) ==
  /\ u \in scan /\ \A v \in scan : u <= v
  /\ hub[u].state = state /\ Due(u)

\* The end of the iteration for u: the next call in next ticks from aTime,
\* then the timeout check.  h is the hub as the switch left it.
Leave(h, u, next) ==
  /\ \E again \in Agains :
       hub' = [h EXCEPT ![u] = CheckTimeout([@ EXCEPT !.wait = next - lag], lag, again)]
  /\ scan' = scan \ {u}
  /\ lag' = IF scan = {u} THEN 0 ELSE lag
  /\ UNCHANGED <<nameToUid, uptime, probes, alive>>

\* An iteration that sends nothing and leaves d in place of u's record.
Quietly(u, d, next) ==
  /\ Leave([hub EXCEPT ![u] = d], u, next)
  /\ UNCHANGED <<temporaryUid, messageNumber, requests, replies>>

\* The ...Impl functions: u's record becomes d, the frame goes to the device
\* registered under its name and is awaited from that one.
Issue(u, d, type, arg, next) ==
  LET h == [hub EXCEPT ![u] = d]
      devUid == UidOf(d.name)
  IN  IF devUid = kReservedUID
      THEN Quietly(u, d, next)
      ELSE /\ Transmit(devUid, type, arg)
           /\ Leave(Await(h, devUid, type), u, next)
           /\ UNCHANGED temporaryUid

\* An iteration that does not reach the switch.
VisitEarly(u) ==
  /\ u \in scan /\ \A v \in scan : u <= v
  /\ ~ Due(u)
  /\ Quietly(u, hub[u], hub[u].wait + lag)

VisitProbing(u) ==
  /\ Visiting(u, "Probing")
  /\ Transmit(UidOf(hub[u].name), "Probe", 0)
  /\ Leave(Await(hub, u, "Probe"), u, ProbeTime)
  /\ UNCHANGED temporaryUid

\* (mutant) temporaryUid is not reset.
VisitInfoRequestSticky(u) ==
  LET to == IF temporaryUid # NoUid THEN temporaryUid ELSE UidOf(hub[u].name)
  IN  /\ Visiting(u, "InfoRequest")
      /\ Transmit(to, "DeviceInfoReq", 0)
      /\ Leave(Await(hub, u, "DeviceInfoReq"), u, ProbeTime)
      /\ UNCHANGED temporaryUid

VisitInfoRequest(u) ==
  LET to == IF temporaryUid # NoUid THEN temporaryUid ELSE UidOf(hub[u].name)
  IN  /\ Visiting(u, "InfoRequest")
      /\ Transmit(to, "DeviceInfoReq", 0)
      /\ Leave(Await(hub, u, "DeviceInfoReq"), u, ProbeTime)
      /\ temporaryUid' = NoUid

\* (mutant) A lost device is not probed again.
VisitLostForGood(u) == Visiting(u, "Lost") /\ Quietly(u, hub[u], StepTime)

VisitLost(u) ==
  /\ Visiting(u, "Lost")         \* deviceLostEv
  /\ Quietly(u, [hub[u] EXCEPT !.state = "Probing"], StepTime)

(* Running: the first of these that has something to do. *)

HealthDue(d) == d.healthAge - lag >= HealthTime

DueUnits(d) == {i \in DOMAIN d.telem : d.telem[i].age - lag >= d.telem[i].period}

RunCommand(u) ==
  /\ Visiting(u, "Running") /\ hub[u].cmds > 0
  /\ Issue(u, [hub[u] EXCEPT !.cmds = @ - 1], "Command", 0, StepTime)

\* (mutant) The request stays in the queue.
RunRequestAgain(u) ==
  /\ Visiting(u, "Running") /\ hub[u].cmds = 0 /\ hub[u].reqs > 0
  /\ Issue(u, hub[u], "BlobRequest", 0, StepTime)

RunRequest(u) ==
  /\ Visiting(u, "Running") /\ hub[u].cmds = 0 /\ hub[u].reqs > 0
  /\ Issue(u, [hub[u] EXCEPT !.reqs = @ - 1], "BlobRequest", 0, StepTime)

RunHealth(u) ==
  /\ Visiting(u, "Running") /\ hub[u].cmds = 0 /\ hub[u].reqs = 0
  /\ HealthDue(hub[u])
  /\ Issue(u, [hub[u] EXCEPT !.healthAge = lag], "HealthReq", 0, StepTime)

\* Every unit that is due is marked as updated, the last of them is sent.
RunTelemetry(u) ==
  LET d == hub[u]
      due == DueUnits(d)
      marked == [d EXCEPT !.telem = [i \in DOMAIN @ |->
                                       IF i \in due THEN [@[i] EXCEPT !.age = lag] ELSE @[i]]]
  IN  /\ Visiting(u, "Running") /\ d.cmds = 0 /\ d.reqs = 0
      /\ ~ HealthDue(d)
      /\ \E i \in due : /\ \A j \in due : j <= i
                        /\ Issue(u, marked, "BlobRequest", i, StepTime)

\* (mutant) lastUpdateTime is set for every unit that is looked at.
RunIdleMarking(u) ==
  LET d == hub[u]
  IN  /\ Visiting(u, "Running") /\ d.cmds = 0 /\ d.reqs = 0
      /\ ~ HealthDue(d) /\ DueUnits(d) = {}
      /\ Quietly(u, [d EXCEPT !.telem = [i \in DOMAIN @ |-> [@[i] EXCEPT !.age = lag]]],
                 StepTime)

RunIdle(u) ==
  LET d == hub[u]
  IN  /\ Visiting(u, "Running") /\ d.cmds = 0 /\ d.reqs = 0
      /\ ~ HealthDue(d) /\ DueUnits(d) = {}
      /\ Quietly(u, d, StepTime)

(* FileTransfer: one disjunct per branch on fileTransContext.              *)

TransferAt(u, state) == Visiting(u, "FileTransfer") /\ hub[u].file.state = state

\* u's file context becomes c, and its next chunk is sent.
IssueChunk(u, c) ==
  Issue(u, [hub[u] EXCEPT !.file = c], "FileWriteChunk", ChunkLength(c), StepTime)

FileRequest(u) ==
  /\ TransferAt(u, "Request")
  /\ Issue(u, hub[u], "FileWriteRequest", 0, FileReqTime)

FirstChunk(u) ==
  LET c == hub[u].file
  IN  /\ TransferAt(u, "Sending") /\ c.first
      /\ IssueChunk(u, [c EXCEPT !.first = FALSE])

\* (mutant) An unanswered chunk is sent again.
ResendsUnanswered(ack) == ack \in {"Busy", "None"}

Resends(ack) == ack = "Busy"

GivesUp(ack) == ack \notin {"Busy", "Wait", "Ok"}

\* What a later iteration in state Sending makes of the last packetAck.
NextChunk(u) ==
  LET d == hub[u]
      c == Forget(d.file)
      Become(e, next) == Quietly(u, [d EXCEPT !.file = e], next)
  IN  /\ TransferAt(u, "Sending") /\ ~ d.file.first
      /\ \/ Resends(d.file.ack) /\ IssueChunk(u, c)
         \/ d.file.ack = "Wait" /\ Become(c, WaitTime)
         \/ /\ d.file.ack = "Ok" /\ Advanced(c).state = "Finalize"
            /\ Become(Advanced(c), FinalTime)
         \/ /\ d.file.ack = "Ok" /\ Advanced(c).state # "Finalize"
            /\ IssueChunk(u, Advanced(c))
         \/ GivesUp(d.file.ack) /\ Become(Cancelled(c), StepTime)

FileFinalize(u) ==
  /\ TransferAt(u, "Finalize")
  /\ Issue(u, hub[u], "FileWriteFinalize", hub[u].file.sent, FinalTime)

FileCancel(u) ==
  /\ TransferAt(u, "Cancel")
  /\ \E again \in Agains :       \* fileWriteResultEv
       Quietly(u, Callback([hub[u] EXCEPT !.file = NewFile, !.state = "Running"], again),
               StepTime)

VisitRunning(u) == RunCommand(u) \/ RunRequest(u) \/ RunHealth(u)
                     \/ RunTelemetry(u) \/ RunIdle(u)

VisitTransfer(u) == FileRequest(u) \/ FirstChunk(u) \/ NextChunk(u)
                      \/ FileFinalize(u) \/ FileCancel(u)

Visit(u) == VisitEarly(u) \/ VisitProbing(u) \/ VisitInfoRequest(u)
              \/ VisitLost(u) \/ VisitRunning(u) \/ VisitTransfer(u)

-----------------------------------------------------------------------------

\* The constructor does not set messageNumber, and the clock may have been
\* running for long.
Init ==
  /\ hub = [u \in Nodes |-> AbsentDevice]
  /\ nameToUid = [n \in Names |-> kReservedUID]
  /\ temporaryUid = NoUid
  /\ messageNumber \in FirstNumbers
  /\ scan = {} /\ lag = 0 /\ uptime \in {0, Horizon}
  /\ probes = 0
  /\ requests = {} /\ replies = {}
  /\ alive = Nodes

Application ==
  \/ ProbeAll
  \/ \E name \in Names :
       \/ SendCmdToDevice(name)
       \/ SendBlobRequestToDevice(name)
       \/ \E period \in Periods : CreateSchedRequest(name, period)
       \/ \E f \in Files : SendFile(name, f)

Handle(r) == (\E again \in Agains : HandleAck(r, again)) \/ HandleBlobAnswer(r)
               \/ HandleDeviceInfoAnswer(r) \/ HandleDeviceHealth(r)

Environment ==
  \/ \E f \in requests : LoseRequest(f) \/ \E code \in Codes : NodeReceive(f, code)
  \/ \E r \in replies : LoseReply(r)
  \/ \E n \in Nodes : PowerOff(n) \/ PowerOn(n)
  \/ Tick

Next ==
  \/ Application
  \/ Environment
  \/ \E r \in replies : Handle(r)
  \/ BeginPass
  \/ \E u \in scan : Visit(u)

Spec == Init /\ [][Next]_vars

\* The clock goes on, the bus carries or drops what was sent, the
\* application keeps reading the bus and calling process, and no device is
\* busy for ever.
Fairness ==
  /\ WF_vars(Tick)
  /\ WF_vars(BeginPass) /\ WF_vars(\E u \in scan : Visit(u))
  /\ WF_vars(\E f \in requests : LoseRequest(f) \/ \E code \in Codes : NodeReceive(f, code))
  /\ WF_vars(\E r \in replies : Handle(r))
  /\ \A n \in Nodes : SF_vars(\E f \in requests : \E code \in Codes \ {"Busy"} :
                               f.to = n /\ NodeReceive(f, code))

FairSpec == Spec /\ Fairness

-----------------------------------------------------------------------------
(* Properties.                                                             *)

\* The types of all variables; the stamps, the queues and the counters stay
\* within what the code can tell apart.
TypeOK ==
  /\ hub \in [Nodes -> DeviceWrapper]
  /\ \A u \in Nodes : hub[u].timeouts < LostLimit
  /\ nameToUid \in [Names -> Nodes \cup {kReservedUID}]
  /\ temporaryUid \in Nodes \cup {NoUid}
  /\ messageNumber \in 0 .. NumMod - 1
  /\ scan \subseteq Known /\ lag \in 0 .. MaxLag /\ (Idle => lag = 0)
  /\ uptime \in 0 .. Horizon /\ probes \in 0 .. MaxProbeAll
  /\ requests \subseteq Frame /\ replies \subseteq ReplyFrame
  /\ alive \subseteq Nodes

\* A name leads to the device that reported it and a device that reported
\* one is found by it, so that what is sent to a device by its name reaches
\* that device; no device is in service without a name.
RegistryOK ==
  /\ \A n \in Names : nameToUid[n] # kReservedUID =>
                        hub[nameToUid[n]].name = n
  /\ \A u \in Nodes :
       /\ hub[u].name # NoName => hub[u].name = NameOf[u] /\ nameToUid[NameOf[u]] = u
       /\ hub[u].state \in {"Running", "FileTransfer"} => hub[u].name # NoName

\* The requests that may be unanswered while a transfer, or a device, is in
\* this state.
MayAwaitAt(state) ==
  CASE state = "Request"  -> {"Command", "BlobRequest", "HealthReq",
                              "FileWriteRequest", "FileWriteChunk"}
    [] state = "Finalize" -> {"FileWriteFinalize", "FileWriteChunk"}
    [] OTHER              -> {"FileWriteChunk"}

MayAwait(d) ==
  CASE d.state = "Probing"      -> {"Probe"}
    [] d.state = "InfoRequest"  -> {"DeviceInfoReq"}
    [] d.state = "Running"      -> {"Command", "BlobRequest", "HealthReq", "FileWriteChunk"}
    [] d.state = "FileTransfer" -> MayAwaitAt(d.file.state)
    [] OTHER                    -> {}

\* handleAck and the timeout check act on the state of the device, not on
\* the request that ends: the two always fit.
PendingFitsState ==
  \A u \in Nodes : Awaiting(hub[u]) => hub[u].pending.type \in MayAwait(hub[u])

\* What the hub takes for the answer to a request answers that request: the
\* numbers of the frames on the bus tell them apart, although they are
\* counted modulo NumMod and old answers may be late.
AnswersFit ==
  \A r \in replies : Matches(hub[r.from], r) => r.re = hub[r.from].pending.type

\* No frame is given the number of a request that is pending with its device.
NumbersFree ==
  \A f \in requests' \ requests :
    Awaiting(hub[f.to]) => f.num # hub[f.to].pending.num

\* A request is answered, given up or replaced before its number is used again
\* for the same device: AnswersFit rests on it.
NumbersStayFree == [][NumbersFree]_vars

\* No chunk beyond the end of the file is sent and the file is finalized
\* only when all of it was acknowledged.
OffsetFits ==
  \A u \in Nodes : LET c == hub[u].file IN
    /\ c.off <= c.total
    /\ hub[u].state = "FileTransfer" /\ c.state = "Finalize" => c.off = c.total

\* From the second chunk of a transfer on, packetAck is empty while the last
\* chunk is unanswered: no answer to an earlier one decides what becomes of it.
\* (The first may meet an answer that sendFile left there: LeftOver.)
AckIsOfLastChunk ==
  \A u \in Nodes : LET d == hub[u] IN
    d.state = "FileTransfer" /\ d.pending.type = "FileWriteChunk" /\ d.file.off > 0
      => d.file.ack = "None"

\* packetAck holds the answer to a chunk of an earlier transfer, and the first
\* chunk of this one is unanswered.
LeftOver(d) ==
  /\ ~ d.file.first /\ d.file.off = 0
  /\ d.pending.type = "FileWriteChunk" /\ d.file.ack # "None"

ChunksUnderWay(u) ==
  {f.num : f \in {g \in requests : g.to = u /\ g.type = "FileWriteChunk"}}
    \cup {r.num : r \in {q \in replies : q.from = u /\ q.re = "FileWriteChunk"}}

SendsAlone ==
  \A f \in requests' \ requests :
    f.type = "FileWriteChunk" /\ ~ LeftOver(hub[f.to]) => ChunksUnderWay(f.to) = {}

\* Chunks are sent one at a time: neither an older chunk, of this transfer or of
\* one before, nor an answer to one is still under way when another is sent, so
\* that the device takes them in order and their answers, which name no offset,
\* cannot be confused.  Only the chunk that a left-over answer calls for may
\* follow the first one too soon.
StopAndWait == [][SendsAlone]_vars

\* On a bus that loses nothing no device that is never switched off is taken
\* for lost, although the first information requests may go to the wrong
\* device, or to one that is off, and time out.
NoFalseLoss == \A u \in Nodes \ Mortal : hub[u].state # "Lost"

\* The hub keeps the promise of DeviceLifecycle for each of its devices,
\* whatever the bus loses or delays.
Lifecycle == INSTANCE DeviceLifecycle
  WITH Devices <- Nodes,
       phase <- [u \in Nodes |-> hub[u].state],
       asked <- [u \in Nodes |-> Awaiting(hub[u])]

KeepsLifecycle == Lifecycle!Spec

InService(u) == hub[u].state \in {"Running", "FileTransfer"}

\* A device that stays silent is taken out of service for good: health requests
\* go on, their timeouts are counted, and no answer of old brings it back.
SilentLeavesService ==
  \A n \in Nodes : <>[](n \notin alive) => <>[]~ InService(n)

\* A device that is back for good is taken into service again, for good: the
\* probes, sent to its name or to all, and the identification that follows
\* them need no help of the application.
ReturnsToService ==
  \A n \in Nodes : <>[](n \in alive) /\ <>(n \in Known) => <>[]InService(n)

\* After a probeAll each device that stays switched on comes into service,
\* however the answers and the single temporaryUid get mixed up.
DiscoveryCompletes ==
  \A n \in Nodes : [](n \in alive) => ((probes > 0) ~> InService(n))

NoTransfer(u) == hub[u].state # "FileTransfer"

\* When the application stops sending files a queued command is sent, and when
\* it also leaves the command queue empty a queued request: transfers go
\* before commands, commands before requests.
QueuesDrain ==
  \A u \in Nodes :
    <>[]NoTransfer(u) =>
      /\ (hub[u].cmds > 0) ~> (hub[u].cmds = 0)
      /\ <>[](hub[u].cmds = 0) => (hub[u].reqs > 0) ~> (hub[u].reqs = 0)

Polled(u, i) == \E f \in requests : f.to = u /\ f.type = "BlobRequest" /\ f.arg = i

\* A scheduled request is sent again and again when transfers stop and the
\* queues are left empty for good (createSchedRequest promises a period of
\* polling).
UnitsArePolled ==
  \A u \in Nodes : \A i \in 1 .. MaxTelem :
    <>[](NoTransfer(u) /\ hub[u].cmds = 0 /\ hub[u].reqs = 0) =>
      [](i \in DOMAIN hub[u].telem => <>Polled(u, i))

Requesting(u) == hub[u].state = "FileTransfer" /\ hub[u].file.state = "Request"

UnderTransfer(u) == hub[u].state = "FileTransfer" /\ hub[u].file.state # "Request"

\* Every transfer ends, whatever the device answers, although another may begin at
\* once from within a callback (a device that is switched off is left to the run
\* UnansweredFileRequest).
TransfersEnd ==
  \A u \in Nodes : /\ Requesting(u) ~> ~ Requesting(u)
                   /\ UnderTransfer(u) ~> ~ UnderTransfer(u)

-----------------------------------------------------------------------------
(* What comments say and the code does not keep.                           *)

\* RsHandler.hpp:199, the count in FileWriteFinalize is the number of chunks.
FinalizeCountsChunks ==
  \A f \in requests : LET c == hub[f.to].file IN
    f.type = "FileWriteFinalize" /\ f.num = hub[f.to].pending.num =>
      f.arg = (c.total + c.chunk - 1) \div c.chunk

\* DeviceHub.hpp:123-124, broadcast is prohibited on buses without arbitration:
\* an application that never asks for it causes none.
NoBroadcast == TRUE \in Broadcasts \/ \A f \in requests : f.dst # kReservedUID

\* What is pending was sent before the transfer began.
SentBefore(d) ==
  \/ d.pending.type \in {"Command", "BlobRequest", "HealthReq"}
  \/ d.pending.type = "FileWriteChunk" /\ d.file.first

\* DeviceHub.hpp:160, the transfer is given up "if we messed up": what was sent
\* before a transfer began neither cancels it, by its timeout, nor acknowledges a
\* chunk of it, by its answer.
OldRequestsSpareTransfer ==
  [][\A u \in Nodes :
       hub[u].state = "FileTransfer" /\ SentBefore(hub[u]) =>
         hub'[u].file.state # "Cancel" /\ hub'[u].file.ack = hub[u].file.ack]_vars

\* DeviceHub.hpp:586, "wait a little": a device that answered a chunk with Wait
\* is given time, its transfer is not cancelled for it.
WaitIsNotFatal ==
  [][\A u \in Nodes : LET c == hub[u].file IN
       hub[u].state = "FileTransfer" /\ c.state = "Sending" /\ ~ c.first
         /\ ~ Awaiting(hub[u]) /\ c.ack = "None"
       => hub'[u].file.state # "Cancel"]_vars

=============================================================================
