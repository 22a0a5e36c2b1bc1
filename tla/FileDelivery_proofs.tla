------------------------- MODULE FileDelivery_proofs ------------------------
(***************************************************************************)
(* The hub whose files are followed into the stores of the devices is the  *)
(* hub of DeviceHub: what is proved of that one holds of it.  With it, and *)
(* with the order of the frames (FrameOrder_proofs), a file is followed    *)
(* from offer to verdict: every step is one that FilePromise allows, and   *)
(* on a good bus (Timely_proofs) one that leads to a verdict of Ok.        *)
(***************************************************************************)
EXTENDS FileDelivery, Timely_proofs

\* A step of the composition is one of the hub and its bus, or a restart that
\* they do not see.
LEMMA DeliveryStep ==
  ASSUME [DeliveryNext]_allVars PROVE [Next]_vars
<1>1. ASSUME NEW f \in requests, NEW code \in Codes, Deliver(f, code) PROVE Next
  BY <1>1 DEF Deliver, Next, Environment
<1>2. ASSUME NEW n \in Nodes, Restart(n) PROVE UNCHANGED vars
  BY <1>2 DEF Restart
<1>3. ASSUME NEW name \in Names, NEW f \in Files, Offer(name, f) PROVE Next
  BY <1>3 DEF Offer, Next, Application
<1>4. ASSUME NEW r \in replies, Answered(r) PROVE Next
  BY <1>4 DEF Answered, Next, Handle
<1>5. ASSUME NEW u \in scan, Cancel(u) PROVE Next
  BY <1>5 DEF Cancel, Next, Visit, VisitTransfer
<1>6. ASSUME Other PROVE Next
  BY <1>6 DEF Other, Next, Application, Environment, Handle
<1>7. ASSUME UNCHANGED allVars PROVE UNCHANGED vars
  BY <1>7 DEF allVars
<1> QED
  BY <1>1, <1>2, <1>3, <1>4, <1>5, <1>6, <1>7 DEF DeliveryNext

\* FileDelivery implements DeviceHub: the device side only settles what the
\* hub and the bus leave open.
THEOREM DeliveryIsHub == DeliverySpec => Spec
<1>1. DeliveryInit => Init
  BY DEF DeliveryInit
<1>2. [DeliveryNext]_allVars => [Next]_vars
  BY DeliveryStep
<1> QED
  BY <1>1, <1>2, PTL DEF DeliverySpec, Spec

\* DeviceHub.hpp:588-598, in the presence of a device that stores the file:
\* no chunk beyond its end is sent and Finalize is reached only at its end.
THEOREM DeliveryOffset == DeliverySpec => []OffsetFits
  BY DeliveryIsHub, OffsetCorrect, PTL

-----------------------------------------------------------------------------
(* The files that are offered to the devices.                               *)

FileOrNone == Totals \cup {NoFile}

\* What the hub and the frames under way say of files is true of one of them.
CarriedOK ==
  /\ cargo = [num \in Numbers |-> cargo[num]]
  /\ \A f \in requests : f.type \in FileTypes => cargo[f.num].total \in Totals
  /\ \A u \in Nodes : Offered(hub[u]) \in FileOrNone

\* So is what a device found right.
StoreOK ==
  /\ store = [n \in Nodes |-> store[n]] /\ found = [n \in Nodes |-> found[n]]
  /\ \A n \in Nodes :
       /\ store[n] = [buf |-> store[n].buf, expected |-> store[n].expected]
       /\ found[n] \in FileOrNone

\* A device's verdict is Ok or Error.
VerdictsOK ==
  \A r \in replies : r.re = "FileWriteFinalize" =>
    r.type = "Ack" /\ r.code \in {"Ok", "Error"}

\* The request that is pending at the end of a transfer is about the file that was
\* offered, and when it was answered with Ok the device has found that file right.
FinalOK ==
  \A u \in Nodes :
    LET p == hub[u].pending
        t == hub[u].file.total
    IN  p.type = "FileWriteFinalize" =>
          /\ \A f \in requests : f.to = u /\ f.num = p.num => cargo[f.num].total = t
          /\ \A r \in replies :
               r.from = u /\ r.num = p.num /\ r.code = "Ok" => found[u] = t

DeliveryInv == OrderInv /\ PendingTold /\ CarriedOK /\ StoreOK /\ VerdictsOK /\ FinalOK

\* At most one offer is made or withdrawn.
Begins(u) == Offered(hub[u]) = NoFile /\ Offered(hub'[u]) \in Totals
Ends(u) == Offered(hub[u]) # NoFile /\ Offered(hub'[u]) = NoFile
OthersStay(u) == \A v \in Nodes \ {u} : Offered(hub'[v]) = Offered(hub[v])

Plain ==
  \/ \A v \in Nodes : Offered(hub'[v]) = Offered(hub[v])
  \/ \E u \in Nodes : OthersStay(u) /\ (Begins(u) \/ Ends(u))

\* No file has the length NoFile.
LEMMA NoFileIsNone == NoFile \notin Totals /\ Totals \subseteq Nat
BY InputAssumption DEF NoFile, Totals

LEMMA OfferedIs ==
  ASSUME CarriedOK, NEW u \in Nodes, hub[u].state = "FileTransfer", DeviceOK(hub[u])
  PROVE  /\ Offered(hub[u]) = hub[u].file.total /\ hub[u].file.total \in Totals
         /\ Offered(hub[u]) # NoFile
BY NoFileIsNone DEF CarriedOK, Offered, FileOrNone, DeviceOK, DeviceWrapper,
     FileTransferContext, NoFile

\* One device steps.
LEMMA OneOffer ==
  ASSUME HubOK, NEW u \in Nodes, NEW e, hub' = [hub EXCEPT ![u] = e],
         LET o == Offered(hub[u]) IN
           \/ Offered(e) = o
           \/ o = NoFile /\ Offered(e) \in Totals
           \/ o # NoFile /\ Offered(e) = NoFile
  PROVE  Plain
<1>1. hub'[u] = e /\ \A v \in Nodes \ {u} : hub'[v] = hub[v]
  BY DEF HubOK
<1> QED
  BY <1>1 DEF Plain, OthersStay, Begins, Ends

\* An iteration of process that does not end a cancelled transfer.
LEMMA TurnOffers ==
  ASSUME HubOK, NEW u \in Nodes, Turn(u), ~ FileCancel(u)
  PROVE  Plain
<1>1. PICK b, e :
        /\ hub' = [hub EXCEPT ![u] = e] /\ CheckedTurn(b, e)
        /\ QuietTurn(u, b) \/ \E dst, type : AskTurn(u, b, dst, type)
  BY DEF Turn
<1>2. Offered(b) = Offered(hub[u])
  BY <1>1 DEF QuietTurn, AskTurn, Offered
<1>3. \/ Offered(e) = Offered(b)
      \/ Offered(b) = NoFile /\ Offered(e) \in Totals
      \/ Offered(b) # NoFile /\ Offered(e) = NoFile
  BY <1>1 DEF CheckedTurn, Offered
<1> QED
  BY <1>1, <1>2, <1>3, OneOffer

\* sendFile
LEMMA SendFileOffers ==
  ASSUME HubOK, NEW name \in Names, NEW f \in Files, SendFile(name, f)
  PROVE  Plain
<1> DEFINE d == hub[UidOf(name)]
           e == StartFile(d, f)
<1>1. Registered(name) /\ d.state = "Running" /\ hub' = [hub EXCEPT ![UidOf(name)] = e]
  BY DEF SendFile, Update
<1>2. UidOf(name) \in Nodes /\ DeviceOK(d)
  BY <1>1, NamedDevice
<1>3. e = d \/ (e.state = "FileTransfer" /\ e.file.total \in Totals)
  BY <1>2, StartFileOK DEF Started, Totals
<1> HIDE DEF e
<1>4. Offered(d) = NoFile /\ (Offered(e) = Offered(d) \/ Offered(e) \in Totals)
  BY <1>1, <1>3 DEF Offered
<1> QED
  BY <1>1, <1>2, <1>4, OneOffer

\* The answer to the pending request of a device.  Its callback may offer a file to a
\* device in service, which has no FileWriteFinalize pending.
LEMMA AckedOffers ==
  ASSUME NEW d, DeviceOK(d), PendingOK(d), NEW code, NEW again \in Agains
  PROVE  LET e == Acked(d, code, again) IN
         \/ Offered(e) = Offered(d)
         \/ Offered(d) = NoFile /\ Offered(e) \in Totals
         \/ /\ d.state = "FileTransfer" /\ d.pending.type = "FileWriteFinalize"
            /\ Offered(e) = NoFile
<1> DEFINE b == Callback(d, again)
           o == Outcome(b, code)
           e == [o EXCEPT !.pending = NoPending]
<1>1. /\ DeviceOK(b) /\ b.pending = d.pending
      /\ b = d \/ (d.state = "Running" /\ b.state = "FileTransfer" /\ b.file.total \in Totals)
  BY CallbackOK DEF Started, Totals
<1>2. Acked(d, code, again) = e
  BY DEF Acked
<1>3. b.state # d.state => b.pending.type # "FileWriteFinalize"
  BY <1>1 DEF PendingOK, MayAwait
<1> HIDE DEF b
<1>4. b \in DeviceWrapper /\ b.file \in FileTransferContext
  BY <1>1 DEF DeviceOK, DeviceWrapper
<1>5. \/ Offered(o) = Offered(b)
      \/ /\ b.state = "FileTransfer" /\ b.pending.type = "FileWriteFinalize"
         /\ Offered(o) = NoFile
  BY <1>4 DEF Outcome, Offered, DeviceWrapper, FileTransferContext
<1>6. Offered(e) = Offered(o)
  BY <1>4 DEF Outcome, Offered, DeviceWrapper, FileTransferContext
<1> HIDE DEF o
<1> QED
  BY <1>1, <1>2, <1>3, <1>5, <1>6 DEF Offered

\* handleAck, when it does not end a transfer.
LEMMA AckOffers ==
  ASSUME IInv, NEW r \in replies, NEW again \in Agains, HandleAck(r, again),
         LET d == hub[r.from] IN
         ~ (/\ Matches(d, r) /\ d.state = "FileTransfer"
            /\ d.pending.type = "FileWriteFinalize")
  PROVE  Plain
<1> DEFINE d == hub[r.from]
           e == IF d.state = "Absent" THEN NewDevice(uptime)
                ELSE IF Matches(d, r) THEN Acked(d, r.code, again)
                ELSE d
<1>1. HubOK /\ r.from \in Nodes /\ DeviceOK(d) /\ PendingOK(d)
  BY ReceiveOK DEF IInv, HubOK, HandleAck
<1>2. hub' = [hub EXCEPT ![r.from] = e]
  BY DEF HandleAck
<1>3. \/ Offered(e) = Offered(d)
      \/ Offered(d) = NoFile /\ Offered(e) \in Totals
  <2>1. CASE d.state = "Absent"
    BY <2>1 DEF NewDevice, Offered
  <2>2. CASE d.state # "Absent" /\ Matches(d, r)
    BY <1>1, <2>2, AckedOffers
  <2>3. CASE d.state # "Absent" /\ ~ Matches(d, r)
    BY <2>3
  <2> QED
    BY <2>1, <2>2, <2>3
<1> HIDE DEF e
<1> QED
  BY <1>1, <1>2, <1>3, OneOffer

\* The steps of which the store and the observer see nothing.
LEMMA OtherOffers ==
  ASSUME OrderInv, Other
  PROVE  Plain
<1>1. HubOK /\ RestOK /\ IInv
  BY DEF OrderInv, IInv
<1>2. ASSUME NEW u \in Nodes, NEW e, hub' = [hub EXCEPT ![u] = e],
             (e.state = hub[u].state /\ e.file = hub[u].file)
               \/ {e.state, hub[u].state} \subseteq {"InfoRequest", "Running"}
      PROVE  Plain
  BY <1>1, <1>2, OneOffer DEF Offered
<1>3. CASE hub' = hub
  BY <1>3 DEF Plain
<1>4. ASSUME NEW name \in Names, NEW e, Registered(name), Update(name, e),
             e.state = hub[UidOf(name)].state, e.file = hub[UidOf(name)].file
      PROVE  Plain
  BY <1>1, <1>2, <1>4, NamedDevice DEF Update
<1>5. ASSUME NEW name \in Names, SendCmdToDevice(name) PROVE Plain
  <2> DEFINE d == hub[UidOf(name)]
             e == [d EXCEPT !.cmds = @ + 1]
  <2>1. Registered(name) /\ Update(name, e)
    BY <1>5 DEF SendCmdToDevice
  <2>2. e.state = d.state /\ e.file = d.file
    BY <1>1, <2>1, NamedDevice DEF DeviceWrapper
  <2> HIDE DEF e
  <2> QED
    BY <1>4, <2>1, <2>2
<1>6. ASSUME NEW name \in Names, SendBlobRequestToDevice(name) PROVE Plain
  <2> DEFINE d == hub[UidOf(name)]
             e == [d EXCEPT !.reqs = @ + 1]
  <2>1. Registered(name) /\ Update(name, e)
    BY <1>6 DEF SendBlobRequestToDevice
  <2>2. e.state = d.state /\ e.file = d.file
    BY <1>1, <2>1, NamedDevice DEF DeviceWrapper
  <2> HIDE DEF e
  <2> QED
    BY <1>4, <2>1, <2>2
<1>7. ASSUME NEW name \in Names, NEW period \in Periods, CreateSchedRequest(name, period)
      PROVE  Plain
  <2> DEFINE d == hub[UidOf(name)]
             unit == [period |-> period, age |-> Lower(uptime, period + MaxLag)]
             e == [d EXCEPT !.telem = Append(@, unit)]
  <2>1. Registered(name) /\ Update(name, e)
    BY <1>7 DEF CreateSchedRequest
  <2>2. e.state = d.state /\ e.file = d.file
    BY <1>1, <2>1, NamedDevice DEF DeviceWrapper
  <2> HIDE DEF e
  <2> QED
    BY <1>4, <2>1, <2>2
<1>8. ASSUME NEW r \in replies,
             HandleBlobAnswer(r) \/ HandleDeviceInfoAnswer(r) \/ HandleDeviceHealth(r)
      PROVE  Plain
  <2> DEFINE u == r.from
             d == hub[u]
             p == [d EXCEPT !.pending = NoPending]
             a == [d EXCEPT !.pending = NoPending, !.name = NameOf[u], !.state = "Running"]
  <2>1. u \in Nodes /\ d \in DeviceWrapper
    BY <1>1, <1>8, ReceiveOK DEF HandleBlobAnswer, HandleDeviceInfoAnswer,
                                 HandleDeviceHealth, HubOK, DeviceOK
  <2>2. /\ p.state = d.state /\ p.file = d.file /\ a.state = "Running"
    BY <2>1 DEF DeviceWrapper
  <2>3. \/ hub' = [hub EXCEPT ![u] = d] \/ hub' = [hub EXCEPT ![u] = p]
        \/ hub' = [hub EXCEPT ![u] = a] /\ d.state = "InfoRequest"
    BY <1>1, <1>8, <2>1 DEF HandleBlobAnswer, HandleDeviceInfoAnswer, HandleDeviceHealth,
                            Expected, HubOK, DeviceWrapper
  <2> HIDE DEF p, a
  <2> QED
    BY <1>2, <2>1, <2>2, <2>3
<1>9. CASE Tick
  <2>1. ASSUME NEW v \in Nodes PROVE Offered(hub'[v]) = Offered(hub[v])
    <3>1. DeviceOK(hub[v]) /\ PendingOK(hub[v])
      BY <1>1 DEF HubOK
    <3>2. LET a == Aged(hub[v]) IN a.state = hub[v].state /\ a.file = hub[v].file
      BY <3>1, AgedOK
    <3>3. hub'[v] = Aged(hub[v]) \/ hub'[v] = hub[v]
      BY <1>9 DEF Tick
    <3> QED
      BY <3>2, <3>3 DEF Offered
  <2> QED
    BY <2>1 DEF Plain
<1>10. ASSUME NEW u \in scan, Visit(u), ~ TransferAt(u, "Cancel") PROVE Plain
  <2>1. u \in Nodes /\ Turn(u) /\ ~ FileCancel(u)
    BY <1>1, <1>10, VisitTurn DEF RestOK, Known, FileCancel
  <2> QED
    BY <1>1, <2>1, TurnOffers
<1> QED
  BY <1>3, <1>5, <1>6, <1>7, <1>8, <1>9, <1>10
     DEF Other, ProbeAll, LoseRequest, LoseReply, BeginPass, hubVars

-----------------------------------------------------------------------------
(* What goes with the frames.                                               *)

\* The next number is another one.
LEMMA NextIsOther ==
  ASSUME RestOK
  PROVE  NextNumber # messageNumber
<1>1. 1 \in 0 .. NumMod /\ messageNumber \in Numbers /\ NumMod \in Nat
  BY BusAssumption DEF RestOK, Numbers
<1>2. NextNumber = After(1)
  BY DEF NextNumber, After
<1> QED
  BY <1>1, <1>2, AfterIs, CargoAssumption DEF Numbers

\* A frame that stays on the bus has not the number of the one sent last.
LEMMA StayingIsOther ==
  ASSUME RestOK, BusOK, NEW n \in 0 .. NumMod, NEW new, Sends(n, new),
         NEW f \in Recent(requests, n), messageNumber' # messageNumber
  PROVE  f.num # messageNumber'
<1>1. /\ messageNumber \in Numbers /\ messageNumber' = After(n) /\ NumMod \in Nat \ {0}
      /\ f \in requests /\ f.num \in Numbers /\ Age(f.num) + n < NumMod
  BY BusAssumption DEF RestOK, Numbers, Sends, Recent, BusOK
<1>2. n # 0
  BY <1>1, AfterIs DEF Numbers
<1>3. Age(f.num) \in Nat
  BY <1>1, AgeIs DEF Numbers
<1> DEFINE B(k) == (messageNumber' - k) % NumMod
<1>4. B(f.num) = Age(f.num) + n
  <2>1. PICK k : k = f.num
    OBVIOUS
  <2>2. Age(k)' = Age(k) + n
    BY <1>1, <2>1, AgeGrows
  <2>3. Age(k)' = B(k)
    BY DEF Age
  <2> QED
    BY <2>1, <2>2, <2>3
<1>5. messageNumber' \in Int
  BY <1>1, AfterIs DEF Numbers
<1>6. messageNumber' - messageNumber' = 0 /\ 0 % NumMod = 0
  BY <1>1, <1>5
<1>7. B(messageNumber') = 0
  BY <1>6
<1> HIDE DEF B
<1> QED
  BY <1>2, <1>3, <1>4, <1>7

\* A file frame carries what it was loaded with when it was sent, which was of the file
\* offered to its device.
LEMMA CargoIs ==
  ASSUME OrderInv', CarriedOK, Load, NEW f \in requests', f.type \in FileTypes
  PROVE  cargo'[f.num] = IF SentNow(f.num)
                         THEN CargoOf((CHOOSE g \in requests' : g.num = f.num).to)
                         ELSE cargo[f.num]
<1>1. f.num \in Numbers /\ UnderWay(f.num)'
  BY DEF OrderInv, BusOK, UnderWay
<1> QED
  BY <1>1 DEF Load, CarriedOK

LEMMA RestsLoaded ==
  ASSUME OrderInv, OrderInv', CarriedOK, Load,
         NEW f \in requests', f.type \in FileTypes, BusRests(f.to)
  PROVE  f \in requests /\ ~ SentNow(f.num) /\ cargo'[f.num] = cargo[f.num]
<1>1. RestOK /\ BusOK
  BY DEF OrderInv, IInv
<1>2. CASE Shrinks
  BY <1>2, CargoIs DEF Shrinks, SentNow
<1>3. ASSUME NEW g, NEW answers, Arrives(g, answers)
      PROVE  f \in requests /\ ~ SentNow(f.num)
  BY <1>3 DEF Arrives, SentNow
<1>4. ASSUME NEW n \in 0 .. NumMod, NEW new, Sends(n, new),
             \A g \in new : g.to = f.to => g.type \notin FileTypes
      PROVE  f \in requests /\ ~ SentNow(f.num)
  <2>1. f \in Recent(requests, n)
    BY <1>4 DEF Sends
  <2> QED
    BY <1>1, <1>4, <2>1, StayingIsOther DEF SentNow, Recent
<1> QED
  BY <1>2, <1>3, <1>4, CargoIs DEF BusRests

LEMMA SentLoaded ==
  ASSUME OrderInv, OrderInv', CarriedOK, Load,
         NEW f \in requests', f.type \in FileTypes,
         NEW dst, NEW type, NEW arg, Sends(1, Frames(dst, type, arg)),
         type \in FileTypes => dst = f.to
  PROVE  \/ f \in requests /\ ~ SentNow(f.num) /\ cargo'[f.num] = cargo[f.num]
         \/ /\ f \in Frames(dst, type, arg) /\ f.num = NextNumber /\ f.type = type
            /\ SentNow(f.num) /\ cargo'[f.num] = CargoOf(f.to)
<1>1. RestOK /\ BusOK /\ f.to \in Nodes
  BY DEF OrderInv, IInv, RestOK, Frame
<1>2. messageNumber' = NextNumber /\ messageNumber' # messageNumber
  BY <1>1, NextIsOther DEF Sends, After, NextNumber
<1>3. /\ requests' = Recent(requests, 1) \cup Frames(dst, type, arg)
      /\ \A g \in Recent(requests, 1) : g.num # NextNumber
  <2>1. PICK k : k = NextNumber
    OBVIOUS
  <2>2. \A g \in Recent(requests, 1) : g.num # k
    BY <1>1, <2>1, AskedYoungest
  <2> QED
    BY <2>1, <2>2 DEF Sends
<1>4. CASE f \in Recent(requests, 1)
  BY <1>2, <1>3, <1>4, CargoIs DEF SentNow, Recent
<1>5. CASE f \in Frames(dst, type, arg)
  <2>1. f.type = type /\ f.num = NextNumber /\ dst = f.to
    BY <1>5 DEF Frames
  <2>2. SentNow(f.num)
    BY <1>2, <2>1 DEF SentNow
  <2>3. ASSUME NEW g \in requests', g.num = f.num PROVE g.to = f.to
    <3>1. g \in Frames(dst, type, arg)
      BY <1>3, <2>1, <2>3
    <3>2. g.to \in Reached(dst)
      BY <3>1 DEF Frames
    <3>3. dst # kReservedUID
      BY <1>1, <2>1, BusAssumption DEF kReservedUID
    <3> QED
      BY <2>1, <3>2, <3>3 DEF Reached
  <2>4. (CHOOSE g \in requests' : g.num = f.num).to = f.to
    BY <2>3
  <2> QED
    BY <1>5, <2>1, <2>2, <2>4, CargoIs
<1> QED
  BY <1>3, <1>4, <1>5

LEMMA Loaded ==
  ASSUME OrderInv, OrderInv', Shape, CarriedOK, Load,
         NEW f \in requests', f.type \in FileTypes
  PROVE  /\ ~ SentNow(f.num) => f \in requests /\ cargo'[f.num] = cargo[f.num]
         /\ SentNow(f.num) => /\ cargo'[f.num].total = hub'[f.to].file.total
                              /\ hub'[f.to].file.total \in Totals
<1>1. HubOK /\ f.to \in Nodes
  BY DEF OrderInv, IInv, RestOK, Frame
<1>2. CASE Rests(f.to)
  BY <1>2, RestsLoaded DEF Rests
<1>3. CASE Asks(f.to)
  <2>1. PICK dst, type, arg :
          /\ Sends(1, Frames(dst, type, arg))
          /\ type \in FileTypes => /\ dst = f.to /\ hub[f.to].state = "FileTransfer"
                                   /\ hub'[f.to].file.total = hub[f.to].file.total
    BY <1>3 DEF Asks
  <2>2. CASE f \in requests /\ ~ SentNow(f.num) /\ cargo'[f.num] = cargo[f.num]
    BY <2>2
  <2>3. CASE f.type = type /\ SentNow(f.num) /\ cargo'[f.num] = CargoOf(f.to)
    <3>1. hub[f.to].file.total \in Totals
      BY <1>1, <2>1, <2>3, OfferedIs DEF HubOK
    <3> QED
      BY <2>1, <2>3, <3>1 DEF CargoOf
  <2> QED
    BY <2>1, <2>2, <2>3, SentLoaded
<1> QED
  BY <1>1, <1>2, <1>3 DEF Shape

LEMMA CarriedKept ==
  ASSUME OrderInv, OrderInv', Shape, CarriedOK, Load,
         \A u \in Nodes : Offered(hub'[u]) \in FileOrNone
  PROVE  CarriedOK'
<1>1. cargo' = [num \in Numbers |-> cargo'[num]]
  BY DEF Load, CarriedOK
<1>2. ASSUME NEW f \in requests', f.type \in FileTypes
      PROVE  cargo'[f.num].total \in Totals
  BY <1>2, Loaded DEF CarriedOK
<1> QED
  BY <1>1, <1>2 DEF CarriedOK

\* What is on its way of the request at the end of a transfer is about its file.
LEMMA FinalFrames ==
  ASSUME OrderInv, OrderInv', PendingTold', Shape, CarriedOK, FinalOK, Load,
         NEW v \in Nodes, hub'[v].pending.type = "FileWriteFinalize",
         NEW f \in requests', f.to = v, f.num = hub'[v].pending.num
  PROVE  cargo'[f.num].total = hub'[v].file.total
<1>1. HubOK /\ RestOK /\ Awaiting(hub'[v])
  BY DEF OrderInv, IInv, Awaiting
<1>2. f.type = "FileWriteFinalize" /\ f.type \in FileTypes
  BY <1>1 DEF PendingTold, FileTypes
<1>3. CASE SentNow(f.num)
  BY <1>2, <1>3, Loaded
<1>4. CASE ~ SentNow(f.num)
  <2>1. f \in requests /\ cargo'[f.num] = cargo[f.num]
    BY <1>2, <1>4, Loaded
  <2>2. CASE Rests(v)
    BY <1>1, <2>1, <2>2 DEF Rests, FinalOK
  <2>3. CASE Asks(v)
    <3>1. PICK dst, type, arg : /\ Sends(1, Frames(dst, type, arg))
                                /\ hub'[v].pending = Asked(type)
      BY <1>1, <2>3 DEF Asks
    <3>2. f.num = NextNumber /\ messageNumber' = NextNumber
      BY <3>1 DEF Asked, Sends, After, NextNumber
    <3> QED
      BY <1>1, <1>4, <3>2, NextIsOther DEF SentNow
  <2> QED
    BY <2>2, <2>3 DEF Shape
<1> QED
  BY <1>3, <1>4

\* No device answers: the answers on their way are still about what is pending.
LEMMA FinalAnswers ==
  ASSUME OrderInv, Shape, FinalOK, replies' \subseteq replies,
         \A n \in Nodes : found'[n] = found[n],
         NEW v \in Nodes, hub'[v].pending.type = "FileWriteFinalize",
         NEW r \in replies', r.from = v, r.num = hub'[v].pending.num, r.code = "Ok"
  PROVE  found'[v] = hub'[v].file.total
<1>1. RestOK /\ BusOK /\ Awaiting(hub'[v])
  BY DEF OrderInv, IInv, Awaiting
<1>2. CASE Rests(v)
  BY <1>1, <1>2 DEF Rests, FinalOK
<1>3. CASE Asks(v)
  <2>1. PICK dst, type, arg : /\ Sends(1, Frames(dst, type, arg))
                              /\ hub'[v].pending = Asked(type)
    BY <1>1, <1>3 DEF Asks
  <2>2. PICK k : k = NextNumber
    OBVIOUS
  <2>3. r \in Recent(replies, 1) /\ r.num = k
    BY <2>1, <2>2 DEF Sends, Asked
  <2> QED
    BY <1>1, <2>1, <2>2, <2>3, AskedYoungest
<1> QED
  BY <1>2, <1>3 DEF Shape

-----------------------------------------------------------------------------
(* What the devices do.                                                     *)

LEMMA StoreAfterOK ==
  ASSUME CarriedOK, StoreOK, NEW f \in requests, f.to \in Nodes, NEW code
  PROVE  LET s == StoreAfter(f, code) IN
         /\ s = [buf |-> s.buf, expected |-> s.expected]
         /\ f.type \notin FileTypes => s = store[f.to]
<1> DEFINE s == store[f.to]
           c == cargo[f.num]
<1>1. s = [buf |-> s.buf, expected |-> s.expected]
  BY DEF StoreOK
<1> HIDE DEF s, c
<1>2. StoreAfter(f, code) =
        CASE code = "Ok" /\ f.type = "FileWriteRequest"  -> Begun(c.total)
          [] code = "Ok" /\ f.type = "FileWriteChunk"    ->
               Extended(s, Bytes(c.total, c.off, c.off + f.arg))
          [] OTHER                                       -> s
  BY DEF StoreAfter, s, c
<1>3. CASE code = "Ok" /\ f.type = "FileWriteRequest"
  BY <1>2, <1>3 DEF Begun, FileTypes
<1>4. CASE code = "Ok" /\ f.type = "FileWriteChunk"
  BY <1>1, <1>2, <1>4 DEF Extended, FileTypes
<1>5. CASE code # "Ok" \/ f.type \notin {"FileWriteRequest", "FileWriteChunk"}
  BY <1>1, <1>2, <1>5 DEF s
<1> QED
  BY <1>3, <1>4, <1>5 DEF FileTypes, s

LEMMA FoundAfterOK ==
  ASSUME CarriedOK, StoreOK, NEW f \in requests, f.to \in Nodes, NEW code
  PROVE  LET t == FoundAfter(f, code) IN
         /\ t \in FileOrNone
         /\ f.type \notin FileTypes => t = found[f.to]
         /\ f.type = "FileWriteFinalize" /\ code = "Ok" => t = cargo[f.num].total
<1>1. found[f.to] \in FileOrNone /\ NoFile \in FileOrNone
  BY DEF StoreOK, FileOrNone
<1>2. f.type \in FileTypes => cargo[f.num].total \in FileOrNone
  BY DEF CarriedOK, FileOrNone
<1> QED
  BY <1>1, <1>2 DEF FoundAfter, FileTypes

\* What a device answers.
LEMMA AnswerIs ==
  ASSUME NEW f \in requests, NEW code, Deliver(f, code), NEW r \in replies', r \notin replies
  PROVE  /\ r.from = f.to /\ r.num = f.num /\ r.re = f.type
         /\ f.type = "FileWriteFinalize" =>
              r.type = "Ack" /\ r.code = code /\ code \in {"Ok", "Error"}
<1>1. PICK a \in Reply(f.type, code) :
        r = [from |-> f.to, type |-> a.type, num |-> f.num, code |-> a.code, re |-> f.type]
  BY DEF Deliver, NodeReceive
<1>2. f.type = "FileWriteFinalize" =>
        a = [type |-> "Ack", code |-> code] /\ code \in {"Ok", "Error"}
  BY DEF Reply, ApplicationDecides, Deliver, Answers
<1> QED
  BY <1>1, <1>2

\* A device that gets a file frame has not answered the request that is pending: the
\* verdict on a transfer is the last that changes its store.
LEMMA VerdictStands ==
  ASSUME OrderInv, NEW f \in requests, NEW r \in replies, r.from = f.to,
         Awaiting(hub[f.to]), r.num = hub[f.to].pending.num
  PROVE  f.type \notin FileTypes
<1>1. /\ f.to \in Nodes /\ f.num \in Numbers /\ r.num \in Numbers
      /\ messageNumber \in Numbers /\ Age(f.num) < Age(r.num)
  BY DEF OrderInv, IInv, RestOK, Frame, BusOK, Numbers
<1>2. Age(f.num) \in Int /\ Age(r.num) \in Int
  BY <1>1, AgeIs DEF Numbers
<1>3. f.type \in FileTypes => Age(r.num) <= Age(f.num)
  BY <1>1 DEF OrderInv, PendingLast, Abroad
<1> QED
  BY <1>1, <1>2, <1>3

LEMMA DeliverKeeps ==
  ASSUME DeliveryInv, OrderInv', PendingTold', Shape, Load,
         NEW f \in requests, NEW code, Deliver(f, code)
  PROVE  DeliveryInv'
<1> DEFINE s == StoreAfter(f, code)
           g == FoundAfter(f, code)
<1>1. /\ f.to \in Nodes /\ hub' = hub
      /\ store' = [store EXCEPT ![f.to] = s] /\ found' = [found EXCEPT ![f.to] = g]
  BY DEF DeliveryInv, OrderInv, IInv, RestOK, Frame, Deliver, NodeReceive, hubVars
<1>2. /\ s = [buf |-> s.buf, expected |-> s.expected]
      /\ g \in FileOrNone
      /\ f.type \notin FileTypes => g = found[f.to]
      /\ f.type = "FileWriteFinalize" /\ code = "Ok" => g = cargo[f.num].total
  BY <1>1, StoreAfterOK, FoundAfterOK DEF DeliveryInv
<1> HIDE DEF s, g
<1>3. /\ store'[f.to] = s /\ \A n \in Nodes \ {f.to} : store'[n] = store[n]
      /\ found'[f.to] = g /\ \A n \in Nodes \ {f.to} : found'[n] = found[n]
  BY <1>1 DEF DeliveryInv, StoreOK
<1>4. StoreOK'
  <2>1. store' = [n \in Nodes |-> store'[n]] /\ found' = [n \in Nodes |-> found'[n]]
    BY <1>1 DEF DeliveryInv, StoreOK
  <2> QED
    BY <1>2, <1>3, <2>1 DEF DeliveryInv, StoreOK
<1>5. VerdictsOK'
  BY AnswerIs DEF DeliveryInv, VerdictsOK
<1>6. CarriedOK'
  BY <1>1, CarriedKept DEF DeliveryInv, CarriedOK
<1>7. ASSUME NEW v \in Nodes, hub'[v].pending.type = "FileWriteFinalize",
             NEW r \in replies', r.from = v, r.num = hub'[v].pending.num, r.code = "Ok"
      PROVE  found'[v] = hub'[v].file.total
  <2>1. /\ hub[v].pending.type = "FileWriteFinalize" /\ Awaiting(hub[v])
        /\ r.num = hub[v].pending.num
    BY <1>1, <1>7 DEF Awaiting
  <2>2. CASE r \in replies
    <3>1. found[v] = hub[v].file.total
      BY <1>7, <2>1, <2>2 DEF DeliveryInv, FinalOK
    <3>2. f.to = v => g = found[v]
      BY <1>2, <1>7, <2>1, <2>2, VerdictStands DEF DeliveryInv
    <3> QED
      BY <1>1, <1>3, <3>1, <3>2
  <2>3. CASE r \notin replies
    <3>1. f.to = v /\ f.num = hub[v].pending.num
      BY <1>7, <2>1, <2>3, AnswerIs
    <3>2. f.type = "FileWriteFinalize"
      BY <2>1, <3>1 DEF DeliveryInv, PendingTold
    <3>3. code = "Ok"
      BY <1>7, <2>3, <3>2, AnswerIs
    <3>4. cargo[f.num].total = hub[v].file.total
      BY <2>1, <3>1 DEF DeliveryInv, FinalOK
    <3> QED
      BY <1>1, <1>2, <1>3, <3>1, <3>2, <3>3, <3>4
  <2> QED
    BY <2>2, <2>3
<1>8. FinalOK'
  BY <1>7, FinalFrames DEF DeliveryInv, FinalOK
<1> QED
  BY <1>4, <1>5, <1>6, <1>8 DEF DeliveryInv

\* Every other step leaves the answers on their way and the files that are kept alone.
LEMMA OthersKeep ==
  ASSUME DeliveryInv, OrderInv', PendingTold', Shape, Load, replies' \subseteq replies,
         StoreOK', \A n \in Nodes : found'[n] = found[n],
         \A u \in Nodes : Offered(hub'[u]) \in FileOrNone
  PROVE  DeliveryInv'
<1>1. VerdictsOK'
  BY DEF DeliveryInv, VerdictsOK
<1>2. CarriedOK'
  BY CarriedKept DEF DeliveryInv
<1>3. FinalOK'
  BY FinalFrames, FinalAnswers DEF DeliveryInv, FinalOK
<1> QED
  BY <1>1, <1>2, <1>3 DEF DeliveryInv

\* A device is switched off and on.
LEMMA RestartStore ==
  ASSUME StoreOK, NEW n \in Nodes, Restart(n)
  PROVE  StoreOK' /\ found' = found
<1>1. store' = [store EXCEPT ![n] = EmptyStore] /\ found' = found
  BY DEF Restart
<1>2. EmptyStore = [buf |-> EmptyStore.buf, expected |-> EmptyStore.expected]
  BY DEF EmptyStore
<1>3. /\ store'[n] = EmptyStore /\ \A v \in Nodes \ {n} : store'[v] = store[v]
      /\ store' = [v \in Nodes |-> store'[v]]
  BY <1>1 DEF StoreOK
<1> QED
  BY <1>1, <1>2, <1>3 DEF StoreOK

\* The hub and its application take no part in what the devices answer and store.
LEMMA HubSide ==
  ASSUME OrderInv,
         \/ \E name \in Names : \E f \in Files : Offer(name, f)
         \/ \E r \in replies : Answered(r)
         \/ \E u \in scan : Cancel(u)
         \/ Other
  PROVE  replies' \subseteq replies /\ HubAlone
<1>1. IInv /\ HubOK /\ RestOK
  BY DEF OrderInv, IInv
<1>2. ASSUME NEW name \in Names, NEW f \in Files, Offer(name, f)
      PROVE  replies' \subseteq replies /\ HubAlone
  BY <1>2 DEF Offer, SendFile, Update
<1>3. ASSUME NEW r \in replies, Answered(r)
      PROVE  replies' \subseteq replies /\ HubAlone
  BY <1>3 DEF Answered, HandleAck, Receive
<1>4. ASSUME NEW u \in scan, Visit(u) PROVE replies' \subseteq replies
  BY <1>1, <1>4, VisitTurn DEF Turn, Transmit, Recent
<1>5. ASSUME NEW u \in scan, Cancel(u)
      PROVE  replies' \subseteq replies /\ HubAlone
  BY <1>4, <1>5 DEF Cancel, Visit, VisitTransfer
<1>6. CASE Other
  <2>1. ASSUME NEW name \in Names,
               \/ SendCmdToDevice(name) \/ SendBlobRequestToDevice(name)
               \/ \E period \in Periods : CreateSchedRequest(name, period)
        PROVE  replies' \subseteq replies
    BY <2>1 DEF SendCmdToDevice, SendBlobRequestToDevice, CreateSchedRequest, Update
  <2>2. ASSUME NEW r \in replies,
               \/ LoseReply(r) \/ HandleBlobAnswer(r)
               \/ HandleDeviceInfoAnswer(r) \/ HandleDeviceHealth(r)
        PROVE  replies' \subseteq replies
    BY <2>2 DEF LoseReply, HandleBlobAnswer, HandleDeviceInfoAnswer, HandleDeviceHealth,
                Receive
  <2>3. ASSUME ProbeAll \/ Tick \/ BeginPass \/ \E f \in requests : LoseRequest(f)
        PROVE  replies' \subseteq replies
    BY <2>3 DEF ProbeAll, Tick, BeginPass, LoseRequest, Recent
  <2> QED
    BY <1>4, <1>6, <2>1, <2>2, <2>3 DEF Other
<1> QED
  BY <1>2, <1>3, <1>5, <1>6

-----------------------------------------------------------------------------
(* The steps that FilePromise sees.                                         *)

\* fileWriteResultEv is called: u's transfer ends, or another begins in its place.
Reports(u, code) ==
  /\ OthersStay(u) /\ Offered(hub[u]) # NoFile /\ Offered(hub'[u]) \in FileOrNone
  /\ code = "Ok" => found[u] = Offered(hub[u]) /\ Offered(hub'[u]) = NoFile
  /\ code \in {"Ok", "Error"} /\ result' = [NoResult EXCEPT ![u] = code]

\* A step of the hub, as the application sees it.
Seen == (Plain /\ result' = NoResult) \/ \E u \in Nodes : \E code : Reports(u, code)

\* handleAck, when it ends a transfer.
LEMMA FinalReports ==
  ASSUME DeliveryInv, NEW r \in replies, NEW again \in Agains, HandleAck(r, again),
         Matches(hub[r.from], r), hub[r.from].state = "FileTransfer",
         hub[r.from].pending.type = "FileWriteFinalize",
         result' = [NoResult EXCEPT ![r.from] = r.code]
  PROVE  Reports(r.from, r.code)
<1> DEFINE u == r.from
           d == hub[u]
           e == Acked(d, r.code, again)
<1>1. HubOK /\ u \in Nodes /\ DeviceOK(d) /\ Awaiting(d) /\ r.num = d.pending.num
  BY ReceiveOK DEF DeliveryInv, OrderInv, IInv, HubOK, HandleAck, Matches
<1>2. hub' = [hub EXCEPT ![u] = e]
  BY DEF HandleAck
<1>3. Offered(e) = NoFile
  <2>1. Callback(d, again) = d
    BY DEF Callback, StartFile
  <2> QED
    BY <1>1, <2>1 DEF Acked, Outcome, Offered, DeviceOK, DeviceWrapper
<1> HIDE DEF e
<1>4. hub'[u] = e /\ \A v \in Nodes \ {u} : hub'[v] = hub[v]
  BY <1>1, <1>2 DEF HubOK
<1>5. Offered(d) = d.file.total /\ Offered(d) # NoFile
  BY <1>1, OfferedIs DEF DeliveryInv
<1>6. r.re = "FileWriteFinalize"
  BY <1>1 DEF DeliveryInv, PendingTold
<1>7. r.code \in {"Ok", "Error"}
  BY <1>6 DEF DeliveryInv, VerdictsOK
<1>8. r.code = "Ok" => found[u] = d.file.total
  BY <1>1 DEF DeliveryInv, FinalOK
<1> QED
  BY <1>3, <1>4, <1>5, <1>7, <1>8 DEF Reports, OthersStay, FileOrNone

\* The end of a cancelled transfer.
LEMMA CancelReports ==
  ASSUME DeliveryInv, NEW u \in scan, Cancel(u)
  PROVE  u \in Nodes /\ Reports(u, "Error")
<1>1. HubOK /\ RestOK /\ u \in Nodes /\ DeviceOK(hub[u])
  BY DEF DeliveryInv, OrderInv, IInv, RestOK, Known, HubOK
<1>2. hub[u].state = "FileTransfer" /\ Visit(u)
  BY DEF Cancel, FileCancel, TransferAt, Visiting, Visit, VisitTransfer
<1>3. Offered(hub[u]) \in Totals /\ Offered(hub[u]) # NoFile
  BY <1>1, <1>2, OfferedIs DEF DeliveryInv
<1>4. PICK b, e :
        /\ hub' = [hub EXCEPT ![u] = e] /\ CheckedTurn(b, e)
        /\ QuietTurn(u, b) \/ \E dst, type : AskTurn(u, b, dst, type)
  BY <1>1, <1>2, VisitTurn DEF Turn
<1>5. hub'[u] = e /\ \A v \in Nodes \ {u} : hub'[v] = hub[v]
  BY <1>1, <1>4 DEF HubOK
<1>6. Offered(b) \in FileOrNone
  BY <1>2, <1>3, <1>4 DEF QuietTurn, AskTurn, Offered, FileOrNone
<1>7. Offered(e) \in FileOrNone
  BY <1>4, <1>6 DEF CheckedTurn, Offered, FileOrNone
<1> QED
  BY <1>1, <1>3, <1>5, <1>7 DEF Reports, OthersStay, Cancel

\* So every step of the hub's side is one that the application may see.
LEMMA HubSeen ==
  ASSUME DeliveryInv,
         \/ \E name \in Names : \E f \in Files : Offer(name, f)
         \/ \E r \in replies : Answered(r)
         \/ \E u \in scan : Cancel(u)
         \/ Other
  PROVE  Seen
<1>1. OrderInv /\ IInv /\ HubOK
  BY DEF DeliveryInv, OrderInv, IInv
<1>2. ASSUME NEW name \in Names, NEW f \in Files, Offer(name, f) PROVE Seen
  BY <1>1, <1>2, SendFileOffers DEF Offer, Seen
<1>3. ASSUME NEW r \in replies, Answered(r) PROVE Seen
  <2> DEFINE final == /\ Matches(hub[r.from], r) /\ hub[r.from].state = "FileTransfer"
                      /\ hub[r.from].pending.type = "FileWriteFinalize"
  <2>1. PICK again \in Agains : HandleAck(r, again)
    BY <1>3 DEF Answered
  <2>2. result' = [NoResult EXCEPT ![r.from] = IF final THEN r.code ELSE @]
    BY <1>3 DEF Answered
  <2>3. r.from \in Nodes
    BY <1>1, <2>1, ReceiveOK DEF IInv, HandleAck
  <2>4. CASE final
    BY <2>1, <2>2, <2>3, <2>4, FinalReports DEF Seen
  <2>5. CASE ~ final
    <3>1. result' = NoResult
      BY <2>2, <2>5 DEF NoResult
    <3> QED
      BY <1>1, <2>1, <2>5, <3>1, AckOffers DEF Seen
  <2> QED
    BY <2>4, <2>5
<1>4. ASSUME NEW u \in scan, Cancel(u) PROVE Seen
  BY <1>4, CancelReports DEF Seen
<1>5. CASE Other
  BY <1>1, <1>5, OtherOffers DEF Other, Seen
<1> QED
  BY <1>2, <1>3, <1>4, <1>5

-----------------------------------------------------------------------------
(* The theorem.                                                             *)

LEMMA InitDelivery ==
  ASSUME DeliveryInit
  PROVE  DeliveryInv /\ Promise!Init
<1>1. OrderInv /\ PendingTold
  BY InitOrder DEF DeliveryInit
<1>2. /\ requests = {} /\ replies = {} /\ \A u \in Nodes : hub[u] = AbsentDevice
      /\ store = [n \in Nodes |-> EmptyStore] /\ found = [n \in Nodes |-> NoFile]
      /\ result = NoResult
      /\ cargo = [num \in Numbers |-> NoCargo]
  BY DEF DeliveryInit, Init, Numbers
<1>3. \A u \in Nodes : Offered(hub[u]) = NoFile /\ hub[u].pending.type = "None"
  BY <1>2 DEF AbsentDevice, NewDevice, NoPending, Offered
<1>4. CarriedOK /\ VerdictsOK /\ FinalOK
  BY <1>2, <1>3 DEF CarriedOK, VerdictsOK, FinalOK, FileOrNone
<1>5. StoreOK
  BY <1>2 DEF StoreOK, EmptyStore, FileOrNone
<1>6. Promise!Init
  BY <1>2, <1>3 DEF Promise!Init, Promise!NoReport, NoResult
<1> QED
  BY <1>1, <1>4, <1>5, <1>6 DEF DeliveryInv

LEMMA StepDelivery ==
  ASSUME DeliveryInv, [DeliveryNext]_allVars, [NumbersFree]_vars
  PROVE  DeliveryInv'
<1>1. OrderInv /\ IInv /\ RestOK /\ BusOK
  BY DEF DeliveryInv, OrderInv, IInv
<1>2. OrderInv' /\ Shape
  BY <1>1, DeliveryStep, StepOrder
<1>3. NumbersFree
  BY DEF vars, NumbersFree
<1>4. PendingTold'
  BY <1>1, <1>2, <1>3, PendingToldKept DEF DeliveryInv
<1>5. CASE UNCHANGED allVars
  BY <1>2, <1>4, <1>5
     DEF DeliveryInv, CarriedOK, StoreOK, VerdictsOK, FinalOK, allVars, vars, fileVars
<1>6. ASSUME NEW f \in requests, NEW code \in Codes, Deliver(f, code), Load
      PROVE  DeliveryInv'
  BY <1>2, <1>4, <1>6, DeliverKeeps
<1>7. ASSUME NEW n \in Nodes, Restart(n), Load PROVE DeliveryInv'
  <2>1. hub' = hub /\ replies' = replies
    BY <1>7 DEF Restart, vars
  <2>2. StoreOK' /\ \A v \in Nodes : found'[v] = found[v]
    BY <1>7, RestartStore DEF DeliveryInv
  <2>3. \A u \in Nodes : Offered(hub'[u]) \in FileOrNone
    BY <2>1 DEF DeliveryInv, CarriedOK
  <2> QED
    BY <1>2, <1>4, <1>7, <2>1, <2>2, <2>3, OthersKeep
<1>8. ASSUME \/ \E name \in Names : \E f \in Files : Offer(name, f)
             \/ \E r \in replies : Answered(r)
             \/ \E u \in scan : Cancel(u)
             \/ Other,
             Load
      PROVE  DeliveryInv'
  <2>1. replies' \subseteq replies /\ store' = store /\ found' = found
    BY <1>1, <1>8, HubSide DEF HubAlone
  <2>2. StoreOK' /\ \A v \in Nodes : found'[v] = found[v]
    BY <2>1 DEF DeliveryInv, StoreOK
  <2>3. Seen
    BY <1>8, HubSeen
  <2>4. \A u \in Nodes : Offered(hub'[u]) \in FileOrNone
    BY <2>3 DEF Seen, Plain, Reports, OthersStay, Begins, Ends, DeliveryInv, CarriedOK,
                FileOrNone
  <2> QED
    BY <1>2, <1>4, <1>8, <2>1, <2>2, <2>4, OthersKeep
<1> QED
  BY <1>5, <1>6, <1>7, <1>8 DEF DeliveryNext

\* A step of the hub's side is one of FilePromise.
LEMMA SeenPromised ==
  ASSUME DeliveryInv, Seen, HubAlone
  PROVE  Promise!Next
<1> DEFINE offered == [u \in Nodes |-> Offered(hub[u])]
           offeredN == [u \in Nodes |-> Offered(hub'[u])]
<1>1. found' = found
  BY DEF HubAlone
<1>2. Promise!NoReport = NoResult
  BY DEF Promise!NoReport, NoResult
<1>3. CASE Plain /\ result' = NoResult
  <2>1. CASE \A v \in Nodes : Offered(hub'[v]) = Offered(hub[v])
    <3>1. offeredN = offered
      BY <2>1
    <3> QED
      BY <1>1, <1>2, <1>3, <3>1 DEF Promise!Next, Promise!Silence
  <2>2. ASSUME NEW u \in Nodes, OthersStay(u), Begins(u) PROVE Promise!Next
    <3>1. /\ offeredN = [offered EXCEPT ![u] = Offered(hub'[u])] /\ offered[u] = NoFile
          /\ Offered(hub'[u]) \in Totals
      BY <2>2 DEF OthersStay, Begins
    <3> QED
      BY <1>1, <1>2, <1>3, <3>1 DEF Promise!Next, Promise!Begin, Totals
  <2>3. ASSUME NEW u \in Nodes, OthersStay(u), Ends(u) PROVE Promise!Next
    <3>1. /\ offeredN = [offered EXCEPT ![u] = Offered(hub'[u])] /\ offered[u] # NoFile
          /\ Offered(hub'[u]) = NoFile
      BY <2>3 DEF OthersStay, Ends
    <3>2. Promise!GiveUp(u)
      BY <1>1, <1>2, <1>3, <3>1 DEF Promise!GiveUp, Promise!End
    <3> QED
      BY <3>2 DEF Promise!Next
  <2> QED
    BY <1>3, <2>1, <2>2, <2>3 DEF Plain
<1>4. ASSUME NEW u \in Nodes, NEW code, Reports(u, code) PROVE Promise!Next
  <2>1. /\ offeredN = [offered EXCEPT ![u] = Offered(hub'[u])] /\ offered[u] # NoFile
        /\ Offered(hub'[u]) \in FileOrNone
        /\ result' = [Promise!NoReport EXCEPT ![u] = code]
    BY <1>2, <1>4 DEF OthersStay, Reports
  <2>2. CASE code = "Ok"
    <3>1. found[u] = offered[u] /\ Offered(hub'[u]) = NoFile
      BY <1>4, <2>2 DEF Reports
    <3> QED
      BY <1>1, <2>1, <2>2, <3>1
         DEF Promise!Next, Promise!Succeed, Promise!End, Promise!Report
  <2>3. CASE code = "Error"
    BY <1>1, <2>1, <2>3
       DEF Promise!Next, Promise!Fail, Promise!End, Promise!Report, FileOrNone, Totals
  <2> QED
    BY <1>4, <2>2, <2>3 DEF Reports
<1> QED
  BY <1>3, <1>4 DEF Seen

\* So is a step of a device.
LEMMA StorePromised ==
  ASSUME StoreOK, StoreOK', hub' = hub, result' = NoResult, NEW n \in Nodes,
         \A v \in Nodes \ {n} : found'[v] = found[v]
  PROVE  Promise!Next
<1> DEFINE offered == [u \in Nodes |-> Offered(hub[u])]
           offeredN == [u \in Nodes |-> Offered(hub'[u])]
<1>1. offeredN = offered /\ result' = Promise!NoReport
  BY DEF Promise!NoReport, NoResult
<1>2. found' = [found EXCEPT ![n] = found'[n]] /\ found'[n] \in FileOrNone
  BY DEF StoreOK
<1> QED
  BY <1>1, <1>2 DEF Promise!Next, Promise!Judge, FileOrNone, Totals

LEMMA StepPromised ==
  ASSUME DeliveryInv, DeliveryInv', [DeliveryNext]_allVars
  PROVE  [Promise!Next]_(Promise!vars)
<1>1. CASE UNCHANGED allVars
  <2>1. hub' = hub /\ found' = found /\ result' = result
    BY <1>1 DEF allVars, vars, fileVars
  <2> QED
    BY <2>1 DEF Promise!vars
<1>2. ASSUME NEW f \in requests, NEW code \in Codes, Deliver(f, code) PROVE Promise!Next
  <2>1. f.to \in Nodes
    BY DEF DeliveryInv, OrderInv, IInv, RestOK, Frame
  <2>2. /\ hub' = hub /\ result' = NoResult
        /\ \A v \in Nodes \ {f.to} : found'[v] = found[v]
    BY <1>2 DEF Deliver, NodeReceive, hubVars, DeliveryInv, StoreOK
  <2> QED
    BY <2>1, <2>2, StorePromised DEF DeliveryInv
<1>3. ASSUME NEW n \in Nodes, Restart(n) PROVE Promise!Next
  <2>1. /\ hub' = hub /\ result' = NoResult
        /\ \A v \in Nodes \ {n} : found'[v] = found[v]
    BY <1>3, RestartStore DEF Restart, vars, DeliveryInv
  <2> QED
    BY <2>1, StorePromised DEF DeliveryInv
<1>4. ASSUME \/ \E name \in Names : \E f \in Files : Offer(name, f)
             \/ \E r \in replies : Answered(r)
             \/ \E u \in scan : Cancel(u)
             \/ Other
      PROVE  Promise!Next
  BY <1>4, HubSide, HubSeen, SeenPromised DEF DeliveryInv
<1> QED
  BY <1>1, <1>2, <1>3, <1>4 DEF DeliveryNext

\* A file is reported as sent only when its device keeps it, and is reported once:
\* FileDelivery implements FilePromise, whatever the bus loses or delays, wherever the
\* device is switched off, and although the answers that the hub counts as those to its
\* chunks and to FileWriteFinalize name neither file nor offset (DeviceHub.hpp:344-361).
\* That takes that no number is given out again while a request with it is pending.
THEOREM PromiseKept == DeliverySpec /\ NumbersStayFree => KeepsPromise
<1>1. DeliveryInit => DeliveryInv /\ Promise!Init
  BY InitDelivery
<1>2. DeliveryInv /\ [DeliveryNext]_allVars /\ [NumbersFree]_vars => DeliveryInv'
  BY StepDelivery
<1>3. DeliveryInv /\ DeliveryInv' /\ [DeliveryNext]_allVars => [Promise!Next]_(Promise!vars)
  BY StepPromised
<1> QED
  BY <1>1, <1>2, <1>3, PTL DEF DeliverySpec, NumbersStayFree, KeepsPromise, Promise!Spec

\* For a hub with few devices that is no hypothesis (FrameNumbers_proofs): what is proved of
\* its files follows from the constants alone.
THEOREM PromiseKeptFew == Few => (DeliverySpec => KeepsPromise)
<1> SUFFICES ASSUME Few PROVE DeliverySpec => KeepsPromise
  OBVIOUS
<1>1. Spec => NumbersStayFree
  BY NumbersFreeFew
<1> QED
  BY <1>1, DeliveryIsHub, PromiseKept, PTL

-----------------------------------------------------------------------------
(* A transfer on a good bus.                                                *)

\* The store of a device has what comes before end of the file of length t.
Held(s, t, end) == s.buf = Bytes(t, 0, end) /\ s.expected = t

\* What u says of the chunk that it was sent is true: it has it or not.
ChunkTold(u, code) ==
  LET c == hub[u].file
  IN  \/ code = "Ok" /\ Held(store[u], c.total, c.off + ChunkLength(c))
      \/ code = "Busy" /\ Held(store[u], c.total, c.off)

\* So is what the context of the transfer says of u's store.
ContextHeld(u) ==
  LET c == hub[u].file
      type == hub[u].pending.type
  IN  /\ c.state \in {"Request", "Sending", "Finalize"}
      /\ c.state = "Request" =>
           c.first /\ c.off = 0 /\ type \notin {"FileWriteChunk", "FileWriteFinalize"}
      /\ c.state = "Sending" /\ c.first =>
           c.off = 0 /\ Held(store[u], c.total, 0) /\ ~ Loading(u)
      /\ c.state = "Sending" /\ ~ c.first =>
           type = "FileWriteChunk" \/ (~ Loading(u) /\ ChunkTold(u, c.ack))
      /\ c.state = "Finalize" =>
           /\ Held(store[u], c.total, c.total)
           /\ type \notin {"FileWriteRequest", "FileWriteChunk"}

\* The frame that is on its way carries what the context says.
FrameHeld(u) ==
  LET c == hub[u].file
  IN  \A f \in requests :
        Loading(u) /\ f.to = u /\ f.num = hub[u].pending.num =>
          /\ cargo[f.num].total = c.total /\ cargo[f.num].off = c.off
          /\ f.type = "FileWriteChunk" =>
               f.arg = ChunkLength(c) /\ Held(store[u], c.total, c.off)

\* The answer that is on its way is no refusal.
AnswerHeld(u) ==
  \A r \in replies :
    Loading(u) /\ r.from = u /\ r.num = hub[u].pending.num =>
      /\ r.re = "FileWriteRequest" => r.code = "Ok" /\ Held(store[u], hub[u].file.total, 0)
      /\ r.re = "FileWriteChunk" => ChunkTold(u, r.code)
      /\ r.re = "FileWriteFinalize" => r.code = "Ok"

OnCourse(u) ==
  hub[u].state = "FileTransfer" /\ u \notin refused =>
    ContextHeld(u) /\ FrameHeld(u) /\ AnswerHeld(u)

CourseInv(q) ==
  /\ DeliveryInv /\ TimelyInv(q)
  /\ \A u \in Stable : Undisturbed(u) /\ OnCourse(u)

-----------------------------------------------------------------------------
(* Bytes.                                                                   *)

LEMMA NoBytes ==
  ASSUME NEW t
  PROVE  Bytes(t, 0, 0) = <<>>
BY DEF Bytes

LEMMA BytesJoin ==
  ASSUME NEW t \in Nat, NEW a \in Nat, NEW l \in Nat
  PROVE  Bytes(t, 0, a) \o Bytes(t, a, a + l) = Bytes(t, 0, a + l)
<1> DEFINE s == [i \in 1 .. a |-> <<t, 0 + i>>]
           r == [i \in 1 .. l |-> <<t, a + i>>]
           w == [i \in 1 .. a + l |-> <<t, 0 + i>>]
<1>1. Bytes(t, 0, a) = s /\ Bytes(t, a, a + l) = r /\ Bytes(t, 0, a + l) = w
  <2>1. a - 0 = a /\ (a + l) - a = l /\ (a + l) - 0 = a + l
    OBVIOUS
  <2> QED
    BY <2>1 DEF Bytes
<1>2. s \in Seq(Nat \X Nat) /\ r \in Seq(Nat \X Nat) /\ Len(s) = a /\ Len(r) = l
  OBVIOUS
<1>3. s \o r = [i \in 1 .. a + l |-> IF i <= a THEN s[i] ELSE r[i - a]]
  BY <1>2
<1>4. ASSUME NEW i \in 1 .. a + l PROVE (IF i <= a THEN s[i] ELSE r[i - a]) = w[i]
  OBVIOUS
<1>5. s \o r = w
  BY <1>3, <1>4
<1> QED
  BY <1>1, <1>5

LEMMA BytesLength ==
  ASSUME NEW t \in Nat
  PROVE  Len(Bytes(t, 0, t)) = t
<1>1. Bytes(t, 0, t) = [i \in 1 .. t |-> <<t, 0 + i>>]
  <2>1. t - 0 = t
    OBVIOUS
  <2> QED
    BY <2>1 DEF Bytes
<1>2. [i \in 1 .. t |-> <<t, 0 + i>>] \in Seq(Nat \X Nat)
  OBVIOUS
<1> QED
  BY <1>1, <1>2

-----------------------------------------------------------------------------
(* The steps, for one device that stays switched on.                        *)

\* Nothing is on its way to u or from it.
LEMMA CourseIdle ==
  ASSUME NEW u, ~ Loading(u)', hub'[u].state = "FileTransfer" => ContextHeld(u)'
  PROVE  OnCourse(u)'
BY DEF OnCourse, FrameHeld, AnswerHeld

\* A transfer that starts.
LEMMA CourseStarts ==
  ASSUME NEW u, ~ Loading(u)', Started(hub'[u].file)
  PROVE  OnCourse(u)'
<1>1. hub'[u].pending.type \notin FileTypes
  BY DEF Loading
<1>2. ContextHeld(u)'
  BY <1>1 DEF ContextHeld, Started, FileTypes
<1> QED
  BY <1>2, CourseIdle

\* The transfer is left alone.
LEMMA CourseKept ==
  ASSUME OrderInv, OrderInv', PendingTold', CarriedOK, Load, NEW u \in Nodes, OnCourse(u),
         refused \ Anew \subseteq refused', store'[u] = store[u],
         hub'[u].state = hub[u].state, hub'[u].file = hub[u].file, BusRests(u),
         \/ ~ Loading(u) /\ ~ Loading(u)'
         \/ /\ hub'[u].pending.type = hub[u].pending.type
            /\ hub'[u].pending.num = hub[u].pending.num,
         \A r \in replies' : r.from = u /\ r.num = hub[u].pending.num => r \in replies
  PROVE  OnCourse(u)'
<1> SUFFICES ASSUME hub'[u].state = "FileTransfer", u \notin refused'
             PROVE  ContextHeld(u)' /\ FrameHeld(u)' /\ AnswerHeld(u)'
  BY DEF OnCourse
<1>1. ContextHeld(u) /\ FrameHeld(u) /\ AnswerHeld(u)
  BY DEF OnCourse, Anew
<1>2. Loading(u)' => Loading(u) /\ hub'[u].pending.num = hub[u].pending.num
  BY DEF Loading
<1>3. \A code : ChunkTold(u, code)' <=> ChunkTold(u, code)
  BY DEF ChunkTold
<1>4. ContextHeld(u)'
  <2>1. CASE ~ Loading(u) /\ ~ Loading(u)'
    BY <1>1, <1>3, <2>1 DEF ContextHeld, Loading, FileTypes
  <2>2. CASE hub'[u].pending.type = hub[u].pending.type
    BY <1>1, <1>3, <2>2 DEF ContextHeld, Loading
  <2> QED
    BY <2>1, <2>2
<1>5. ASSUME NEW f \in requests', Loading(u)', f.to = u, f.num = hub'[u].pending.num
      PROVE  f \in requests /\ cargo'[f.num] = cargo[f.num]
  <2>1. f.type \in FileTypes
    BY <1>5 DEF PendingTold, Loading, Awaiting, FileTypes
  <2> QED
    BY <1>5, <2>1, RestsLoaded
<1>6. FrameHeld(u)'
  BY <1>1, <1>2, <1>5 DEF FrameHeld
<1>7. AnswerHeld(u)'
  BY <1>1, <1>2, <1>3 DEF AnswerHeld
<1> QED
  BY <1>4, <1>6, <1>7

\* What of the invariant a step uses.
LEMMA CourseFacts ==
  ASSUME Smooth, NEW q \in Nat, CourseInv(q), NEW u \in Stable
  PROVE  /\ u \in Nodes /\ u \notin Mortal /\ DeliveryInv /\ TimelyInv(q) /\ OrderInv
         /\ IInv /\ HubOK /\ RestOK /\ BusOK /\ PendingTold /\ CarriedOK /\ StoreOK
         /\ Undisturbed(u) /\ OnCourse(u)
         /\ DeviceOK(hub[u]) /\ PendingOK(hub[u]) /\ ~ Lossy
BY TimelyFacts DEF CourseInv, DeliveryInv

\* A step of which u's transfer sees nothing.
LEMMA CourseAlone ==
  ASSUME Smooth, NEW q \in Nat, CourseInv(q), OrderInv', PendingTold', Load, NEW u \in Stable,
         refused \ Anew \subseteq refused', store'[u] = store[u],
         hub'[u] = hub[u], BusRests(u),
         \A r \in replies' : r.from = u /\ r.num = hub[u].pending.num => r \in replies
  PROVE  OnCourse(u)'
BY CourseFacts, CourseKept

-----------------------------------------------------------------------------
(* What the devices do on a good bus.                                       *)

LEMMA RequestTaken ==
  ASSUME NEW f, NEW code, f.type = "FileWriteRequest", code = "Ok"
  PROVE  Held(StoreAfter(f, code), cargo[f.num].total, 0)
BY NoBytes DEF StoreAfter, Begun, Held

LEMMA ChunkTaken ==
  ASSUME NEW f, NEW code, f.type = "FileWriteChunk",
         store[f.to] = [buf |-> store[f.to].buf, expected |-> store[f.to].expected],
         NEW t \in Nat, NEW off \in Nat, f.arg \in Nat,
         cargo[f.num].total = t, cargo[f.num].off = off, Held(store[f.to], t, off)
  PROVE  /\ code = "Ok" => Held(StoreAfter(f, code), t, off + f.arg)
         /\ code # "Ok" => Held(StoreAfter(f, code), t, off)
<1>1. code # "Ok" => StoreAfter(f, code) = store[f.to]
  BY DEF StoreAfter
<1>2. ASSUME code = "Ok" PROVE Held(StoreAfter(f, code), t, off + f.arg)
  <2>1. StoreAfter(f, code) = Extended(store[f.to], Bytes(t, off, off + f.arg))
    BY <1>2 DEF StoreAfter
  <2>2. StoreAfter(f, code).buf = Bytes(t, 0, off) \o Bytes(t, off, off + f.arg)
    BY <2>1 DEF Extended, Held
  <2>3. StoreAfter(f, code).expected = t
    BY <2>1 DEF Extended, Held
  <2> QED
    BY <2>2, <2>3, BytesJoin DEF Held
<1> QED
  BY <1>1, <1>2

LEMMA WholeTaken ==
  ASSUME NEW f, NEW code, f.type = "FileWriteFinalize", Answers(f, code),
         store[f.to] = [buf |-> store[f.to].buf, expected |-> store[f.to].expected],
         NEW t \in Nat, cargo[f.num].total = t, Held(store[f.to], t, t)
  PROVE  code = "Ok" /\ Held(StoreAfter(f, code), t, t)
<1>1. Passes(store[f.to], t)
  BY BytesLength DEF Passes, Held
<1>2. code = "Ok"
  BY <1>1 DEF Answers
<1>3. StoreAfter(f, code) = store[f.to]
  BY DEF StoreAfter
<1> QED
  BY <1>2, <1>3 DEF Held

\* A frame of the transfer reaches u, which has what came before it.  What u answers is true.
LEMMA DeliverCourse ==
  ASSUME Smooth, NEW q \in Nat, CourseInv(q), OrderInv', PendingTold', Load, NEW u \in Stable,
         NEW f \in requests, NEW code, Deliver(f, code)
  PROVE  OnCourse(u)'
<1> DEFINE c == hub[u].file
           s == StoreAfter(f, code)
           t == c.total
<1>1. /\ u \in Nodes /\ DeliveryInv /\ HubOK /\ RestOK /\ BusOK /\ PendingTold /\ CarriedOK
      /\ StoreOK /\ Undisturbed(u) /\ OnCourse(u) /\ ~ Lossy /\ DeviceOK(hub[u]) /\ OrderInv
  BY CourseFacts
<1>2. /\ hub' = hub /\ store' = [store EXCEPT ![f.to] = s] /\ f.to \in Nodes
      /\ requests' = requests \ {f} /\ refused \subseteq refused'
  BY <1>1 DEF Deliver, NodeReceive, hubVars, RestOK, Frame
<1>3. store'[f.to] = s /\ (f.to # u => store'[u] = store[u])
  BY <1>1, <1>2 DEF StoreOK
<1>4. \A r \in replies' : r \in replies \/ (r.from = f.to /\ r.num = f.num)
  BY AnswerIs
<1>5. BusRests(u)
  BY ReceiveArrives DEF Deliver, BusRests
<1>6. CASE f.to # u
  BY <1>1, <1>2, <1>3, <1>4, <1>5, <1>6, CourseAlone
<1>7. CASE f.to = u /\ f.type \notin FileTypes
  <2>1. store'[u] = store[u]
    BY <1>1, <1>3, <1>7, StoreAfterOK
  <2>2. Loading(u) => f.num # hub[u].pending.num
    BY <1>1, <1>7 DEF PendingTold, Loading, Awaiting, FileTypes
  <2>3. CASE Loading(u)
    BY <1>1, <1>2, <1>4, <1>5, <2>1, <2>2, <2>3, CourseAlone
  <2>4. CASE ~ Loading(u)
    <3>1. ~ Loading(u)'
      BY <1>2, <2>4 DEF Loading
    <3>2. hub'[u].state = "FileTransfer" /\ u \notin refused' => ContextHeld(u)'
      BY <1>1, <1>2, <2>1 DEF OnCourse, ContextHeld, Loading, ChunkTold
    <3> QED
      BY <3>1, <3>2 DEF OnCourse, FrameHeld, AnswerHeld
  <2> QED
    BY <2>3, <2>4
<1>8. CASE f.to = u /\ f.type \in FileTypes
  <2> SUFFICES ASSUME hub'[u].state = "FileTransfer", u \notin refused'
               PROVE  ContextHeld(u)' /\ FrameHeld(u)' /\ AnswerHeld(u)'
    BY DEF OnCourse
  <2>1. ContextHeld(u) /\ FrameHeld(u) /\ AnswerHeld(u)
    BY <1>1, <1>2 DEF OnCourse
  <2>2. Loading(u) /\ f.num = hub[u].pending.num
    <3>1. f.num \in Abroad(u, FileTypes)
      BY <1>8 DEF Abroad
    <3> QED
      BY <1>1, <3>1 DEF Undisturbed
  <2>3. f.type = hub[u].pending.type
    BY <1>1, <1>8, <2>2 DEF PendingTold, Loading, Awaiting, FileTypes
  <2>4. cargo[f.num].total = t /\ cargo[f.num].off = c.off
    BY <1>8, <2>1, <2>2 DEF FrameHeld
  <2>5. FrameHeld(u)'
    <3>1. ASSUME NEW g \in requests', g.to = u, g.num = hub'[u].pending.num PROVE FALSE
      BY <1>1, <1>2, <1>8, <2>2, <3>1 DEF BusOK
    <3> QED
      BY <3>1 DEF FrameHeld
  <2>6. \A r \in replies' : r.from = u /\ r.num = hub'[u].pending.num =>
          r.re = f.type /\ r.code = code
    <3>1. ASSUME NEW r \in replies, r.from = u, r.num = hub[u].pending.num PROVE FALSE
      <4>1. Awaiting(hub[u])
        BY <2>2 DEF Loading, Awaiting, FileTypes
      <4> QED
        BY <1>1, <1>8, <3>1, <4>1, VerdictStands
    <3>2. ASSUME NEW r \in replies', r \notin replies PROVE r.re = f.type /\ r.code = code
      BY <1>8, <3>2 DEF Deliver, NodeReceive, Reply, ApplicationDecides, FileTypes
    <3> QED
      BY <1>2, <3>1, <3>2
  <2>7. /\ t \in Nat /\ c.off \in Nat /\ f.arg \in Nat
        /\ store[u] = [buf |-> store[u].buf, expected |-> store[u].expected]
    BY <1>1 DEF DeviceOK, DeviceWrapper, FileTransferContext, RestOK, Frame, StoreOK
  <2>8. ~ Refuses(f, code)
    BY <1>2, <1>8 DEF Deliver
  <2> HIDE DEF s
  <2>9. CASE f.type = "FileWriteRequest"
    <3>1. c.state = "Request"
      BY <2>1, <2>2, <2>3, <2>9 DEF ContextHeld
    <3>2. code = "Ok" /\ Held(s, t, 0)
      BY <1>1, <1>8, <2>4, <2>8, <2>9, RequestTaken DEF Refuses, s
    <3>3. ContextHeld(u)'
      BY <1>2, <2>1, <3>1 DEF ContextHeld
    <3>4. AnswerHeld(u)'
      BY <1>2, <1>3, <1>8, <2>6, <2>9, <3>2 DEF AnswerHeld
    <3> QED
      BY <2>5, <3>3, <3>4
  <2>10. CASE f.type = "FileWriteChunk"
    <3>1. c.state = "Sending" /\ ~ c.first
      BY <2>1, <2>2, <2>3, <2>10 DEF ContextHeld
    <3>2. f.arg = ChunkLength(c) /\ Held(store[u], t, c.off)
      BY <1>8, <2>1, <2>2, <2>10 DEF FrameHeld
    <3>3. code \in {"Ok", "Busy"}
      BY <1>1, <2>8, <2>10 DEF Refuses
    <3>4. /\ code = "Ok" => Held(s, t, c.off + f.arg)
          /\ code # "Ok" => Held(s, t, c.off)
      BY <1>8, <2>4, <2>7, <2>10, <3>2, ChunkTaken DEF s
    <3>5. ChunkTold(u, code)'
      BY <1>2, <1>3, <1>8, <3>2, <3>3, <3>4 DEF ChunkTold
    <3>6. ContextHeld(u)'
      BY <1>2, <2>3, <2>10, <3>1 DEF ContextHeld
    <3>7. AnswerHeld(u)'
      BY <2>6, <2>10, <3>5 DEF AnswerHeld
    <3> QED
      BY <2>5, <3>6, <3>7
  <2>11. CASE f.type = "FileWriteFinalize"
    <3>1. c.state = "Finalize" /\ Held(store[u], t, t)
      BY <2>1, <2>2, <2>3, <2>11 DEF ContextHeld
    <3>2. code = "Ok" /\ Held(s, t, t)
      BY <1>8, <2>4, <2>7, <2>11, <3>1, WholeTaken DEF Deliver, s
    <3>3. ContextHeld(u)'
      BY <1>2, <1>3, <1>8, <2>3, <2>11, <3>1, <3>2 DEF ContextHeld
    <3>4. AnswerHeld(u)'
      BY <2>6, <2>11, <3>2 DEF AnswerHeld
    <3> QED
      BY <2>5, <3>3, <3>4
  <2> QED
    BY <1>8, <2>9, <2>10, <2>11 DEF FileTypes
<1> QED
  BY <1>6, <1>7, <1>8

-----------------------------------------------------------------------------
(* What the hub does on a good bus.                                         *)

\* A reply is received.  The one that is awaited in a transfer takes the context on.
LEMMA HandleCourse ==
  ASSUME Smooth, NEW q \in Nat, CourseInv(q), OrderInv', PendingTold', Load, NEW u \in Stable,
         NEW r \in replies, Handle(r), HubAlone
  PROVE  OnCourse(u)'
<1> DEFINE d == hub[u]
           c == d.file
<1>1. /\ u \in Nodes /\ HubOK /\ RestOK /\ PendingTold /\ OnCourse(u) /\ DeviceOK(d)
      /\ Undisturbed(u) /\ TimelyInv(q) /\ AnswersTyped
  BY CourseFacts DEF TimelyInv
<1>2. Receive(r) /\ r.from \in Nodes
  BY <1>1, HandleOK
<1>3. PICK e : Handled(hub[r.from], r, e) /\ hub' = [hub EXCEPT ![r.from] = e]
  BY <1>1, HandleOK
<1>4. hub'[r.from] = e /\ (u # r.from => hub'[u] = hub[u])
  BY <1>1, <1>2, <1>3 DEF HubOK
<1>5. BusRests(u) /\ replies' \subseteq replies
  BY <1>2 DEF Receive, BusRests, Shrinks
<1>6. store' = store /\ refused \ Anew \subseteq refused'
  BY DEF HubAlone
<1>7. CASE hub'[u] = hub[u]
  BY <1>5, <1>7, <1>6, CourseAlone
<1>8. CASE r.from = u /\ e = NewDevice(uptime)
  BY <1>4, <1>8 DEF OnCourse, NewDevice
<1>9. CASE r.from = u /\ Completed(d, r, e)
  <2>1. ~ Loading(u)'
    BY <1>4, <1>9 DEF Completed, Loading, NoPending, FileTypes
  <2>2. c \in FileTransferContext
    BY <1>1 DEF DeviceOK, DeviceWrapper
  <2>3. CASE d.state = "Running" /\ Started(e.file)
    BY <1>4, <1>9, <2>1, <2>3, CourseStarts
  <2>4. CASE e.state # "FileTransfer"
    BY <1>4, <1>9, <2>4 DEF OnCourse
  <2>5. CASE /\ d.state = "FileTransfer" /\ e.state = d.state /\ e.file = c
             /\ d.pending.type \notin FileTypes
    <3>1. ~ Loading(u)
      BY <2>5 DEF Loading
    <3>2. u \notin refused => ContextHeld(u)'
      BY <1>1, <1>4, <1>9, <1>6, <2>1, <2>5, <3>1
         DEF OnCourse, ContextHeld, Loading, ChunkTold, FileTypes
    <3>3. u \notin Anew
      BY <1>4, <1>9, <2>5 DEF Anew
    <3> QED
      BY <1>6, <2>1, <3>2, <3>3 DEF OnCourse, FrameHeld, AnswerHeld
  <2>6. CASE /\ d.state = "FileTransfer" /\ d.pending.type \in {"FileWriteRequest", "FileWriteChunk"}
             /\ r.type = "Ack" /\ AckEffect(d, r.code, e)
    <3>1. u \notin Anew
      <4>1. e.file.state = c.state \/ e.file.state \in {"Sending", "Cancel"}
        BY <2>2, <2>6 DEF AckEffect, FileTypes, FileTransferContext
      <4> QED
        BY <1>4, <1>9, <2>6, <4>1 DEF Anew
    <3> SUFFICES ASSUME u \notin refused PROVE ContextHeld(u)'
      BY <1>6, <2>1, <3>1, CourseIdle DEF OnCourse, FrameHeld, AnswerHeld
    <3>2. ContextHeld(u) /\ AnswerHeld(u)
      BY <1>1, <2>6 DEF OnCourse
    <3>3. Loading(u) /\ r.num = d.pending.num
      BY <1>9, <2>6 DEF Loading, FileTypes, Completed, Completes, Matches
    <3>4. r.re = d.pending.type
      BY <1>1, <1>9, <2>6, <3>3 DEF PendingTold, Awaiting
    <3>5. e.pending = NoPending
      BY <1>9 DEF Completed
    <3>6. CASE d.pending.type = "FileWriteRequest"
      <4>1. c.state = "Request" /\ c.first /\ c.off = 0
        BY <3>2, <3>3, <3>6 DEF ContextHeld
      <4>2. r.code = "Ok" /\ Held(store[u], c.total, 0)
        BY <1>9, <3>2, <3>3, <3>4, <3>6 DEF AnswerHeld
      <4>3. e.file = [c EXCEPT !.state = "Sending"]
        BY <2>6, <3>6, <4>2 DEF AckEffect, FileTypes
      <4>4. /\ e.file.state = "Sending" /\ e.file.first /\ e.file.off = 0
            /\ e.file.total = c.total
        BY <2>2, <4>1, <4>3 DEF FileTransferContext
      <4> QED
        BY <1>4, <1>9, <1>6, <2>1, <4>2, <4>4 DEF ContextHeld
    <3>7. CASE d.pending.type = "FileWriteChunk"
      <4>1. c.state = "Sending" /\ ~ c.first
        BY <3>2, <3>3, <3>7 DEF ContextHeld
      <4>2. ChunkTold(u, r.code)
        BY <1>9, <3>2, <3>3, <3>4, <3>7 DEF AnswerHeld
      <4>3. e.file = [c EXCEPT !.ack = r.code]
        BY <2>6, <3>7 DEF AckEffect, FileTypes
      <4>4. /\ e.file.state = "Sending" /\ ~ e.file.first /\ e.file.off = c.off
            /\ e.file.total = c.total /\ e.file.chunk = c.chunk /\ e.file.ack = r.code
        BY <2>2, <4>1, <4>3 DEF FileTransferContext
      <4>5. ChunkTold(u, e.file.ack)'
        <5>1. ChunkLength(e.file) = ChunkLength(c)
          BY <4>4 DEF ChunkLength
        <5>2. e' = e /\ hub'[u] = e
          BY <1>4, <1>9
        <5> QED
          BY <1>4, <1>9, <1>6, <4>2, <4>4, <5>1 DEF ChunkTold
      <4> QED
        BY <1>4, <1>9, <2>1, <4>4, <4>5 DEF ContextHeld
    <3> QED
      BY <2>6, <3>6, <3>7
  <2>7. r.type = "Ack" => AckEffect(d, r.code, e)
    BY <1>9 DEF Completed
  <2>8. \/ r.type = "Ack"
        \/ /\ e.state = d.state /\ e.file = c
           /\ d.pending.type \in {"BlobRequest", "HealthReq"}
        \/ e.state = "Running"
    BY <1>9 DEF Completed, Completes
  <2> QED
    BY <2>3, <2>4, <2>5, <2>6, <2>7, <2>8 DEF AckEffect, FileTypes
<1> QED
  BY <1>3, <1>4, <1>7, <1>8, <1>9 DEF Handled

\* A call of the program that uses the hub.
LEMMA CallCourse ==
  ASSUME Smooth, NEW q \in Nat, CourseInv(q), OrderInv', PendingTold', Load, NEW u \in Stable,
         Application, HubAlone
  PROVE  OnCourse(u)'
<1>1. /\ u \in Nodes /\ HubOK /\ RestOK /\ OnCourse(u) /\ Undisturbed(u)
      /\ OrderInv /\ CarriedOK
  BY CourseFacts
<1>2. ASSUME hub'[u].state = hub[u].state, hub'[u].file = hub[u].file, BusRests(u),
             hub'[u].pending = hub[u].pending, replies' \subseteq replies
      PROVE  OnCourse(u)'
  BY <1>1, <1>2, CourseKept DEF HubAlone
<1>3. CASE ProbeAll
  <2>1. hub' = hub /\ replies' \subseteq replies
    BY <1>3 DEF ProbeAll, Recent
  <2>2. BusRests(u)
    BY <1>1, <1>3, ProbeAllSends DEF BusRests, FileTypes
  <2> QED
    BY <1>2, <2>1, <2>2
<1>4. ASSUME NEW name \in Names, Registered(name),
             NEW e, Called(hub[UidOf(name)], e), Update(name, e)
      PROVE  OnCourse(u)'
  <2> DEFINE v == UidOf(name)
  <2>1. hub'[v] = e /\ (u # v => hub'[u] = hub[u])
    BY <1>1, <1>4, NamedDevice DEF Update, HubOK
  <2>2. BusRests(u) /\ replies' \subseteq replies
    BY <1>4 DEF Update, BusRests, Shrinks
  <2>3. CASE u # v
    BY <1>2, <2>1, <2>2, <2>3
  <2>4. CASE u = v /\ e.state = hub[u].state /\ e.file = hub[u].file
    BY <1>2, <1>4, <2>1, <2>2, <2>4 DEF Called
  <2>5. CASE u = v /\ hub[u].state = "Running" /\ Started(e.file)
    <3>1. ~ Loading(u)
      BY <1>1, <2>5 DEF Undisturbed
    <3>2. ~ Loading(u)'
      BY <1>4, <2>1, <2>5, <3>1 DEF Loading, Called
    <3> QED
      BY <2>1, <2>5, <3>2, CourseStarts
  <2> QED
    BY <1>4, <2>3, <2>4, <2>5 DEF Called
<1> QED
  BY <1>1, <1>3, <1>4, CallOK

\* Of time and of what the bus does otherwise u's transfer sees nothing.
LEMMA BusCourse ==
  ASSUME Smooth, NEW q \in Nat, CourseInv(q), OrderInv', PendingTold', Load, NEW u \in Stable,
         HubAlone,
         \/ \E f \in requests : LoseRequest(f)
         \/ \E r \in replies : LoseReply(r)
         \/ BeginPass
         \/ Tick
         \/ UNCHANGED vars
  PROVE  OnCourse(u)'
<1>1. /\ u \in Nodes /\ HubOK /\ RestOK /\ OnCourse(u) /\ Undisturbed(u) /\ TimelyInv(q)
      /\ OrderInv /\ CarriedOK /\ DeviceOK(hub[u]) /\ PendingOK(hub[u])
  BY CourseFacts
<1>2. BusRests(u) /\ replies' \subseteq replies
  <2>1. Shrinks
    BY DEF LoseRequest, LoseReply, BeginPass, Tick, vars, hubVars, Shrinks
  <2> QED
    BY <2>1 DEF Shrinks, BusRests
<1>3. CASE Tick
  <2>1. ~ Loading(u)
    BY <1>1, <1>3, UndisturbedTick
  <2>2. /\ Aged(hub[u]).state = hub[u].state /\ Aged(hub[u]).file = hub[u].file
        /\ Aged(hub[u]).pending.type = hub[u].pending.type
    <3>1. hub[u] \in DeviceWrapper /\ hub[u].pending \in PendingTrans
      BY <1>1 DEF DeviceOK, DeviceWrapper
    <3> QED
      BY <3>1 DEF Aged, DeviceWrapper, OlderPending, PendingTrans
  <2>3. hub'[u] = hub[u] \/ hub'[u] = Aged(hub[u])
    BY <1>1, <1>3 DEF Tick
  <2>4. ~ Loading(u)' /\ hub'[u].state = hub[u].state /\ hub'[u].file = hub[u].file
    BY <2>1, <2>2, <2>3 DEF Loading
  <2> QED
    BY <1>1, <1>2, <2>1, <2>4, CourseKept DEF HubAlone
<1>4. CASE ~ Tick
  <2>1. hub' = hub
    BY <1>4 DEF LoseRequest, LoseReply, BeginPass, vars, hubVars
  <2> QED
    BY <1>2, <2>1, CourseAlone DEF HubAlone
<1> QED
  BY <1>3, <1>4

\* An iteration that sends nothing to u: the context goes on to the end of the file, which u
\* has, or stays.
LEMMA SilentCourse ==
  ASSUME Smooth, NEW q \in Nat, CourseInv(q), OrderInv', PendingTold', Load, NEW u \in Stable,
         HubAlone, ~ Loading(u),
         NEW d, NEW next, NEW e, Silent(u, d, next), Checked(d, next, lag, e),
         hub' = [hub EXCEPT ![u] = e]
  PROVE  OnCourse(u)'
<1> DEFINE o == hub[u]
           c == o.file
           a == Forget(c)
<1>1. /\ u \in Nodes /\ HubOK /\ OnCourse(u) /\ TimelyInv(q) /\ OrderInv /\ CarriedOK
      /\ DeviceOK(o) /\ PendingOK(o)
  BY CourseFacts
<1>2. /\ lag = 0 /\ Timeout \in Nat \ {0} /\ Served(u)
  BY <1>1, TimelyFacts
<1>3. UNCHANGED <<messageNumber, requests, replies>> /\ d.pending = o.pending
  BY DEF Silent
<1>4. hub'[u] = e
  BY <1>1 DEF HubOK
<1>5. (d.state = o.state /\ d.file = o.file) \/ Settles(u, d)
  BY DEF Silent
<1>6. BusRests(u) /\ replies' \subseteq replies
  BY <1>3 DEF BusRests, Shrinks
<1>7. store' = store /\ refused \ Anew \subseteq refused'
  BY DEF HubAlone
<1>8. CASE Awaiting(d) /\ d.pending.age - lag >= Timeout /\ e.pending = NoPending /\ TimesOut(d, e)
  <2>1. o.pending.age # 0 /\ Awaiting(o)
    BY <1>2, <1>3, <1>8 DEF Awaiting
  <2>2. o.pending.type = "DeviceInfoReq"
    BY <1>2, <2>1 DEF Served
  <2>3. o.state = "InfoRequest"
    BY <1>1, <2>1, <2>2 DEF PendingOK, MayAwait, MayAwaitAt
  <2>4. d.state = "InfoRequest"
    BY <1>5, <2>3 DEF Settles
  <2>5. e.state # "FileTransfer"
    BY <1>8, <2>4 DEF TimesOut
  <2> QED
    BY <1>4, <2>5 DEF OnCourse
<1>9. CASE e.state = d.state /\ e.pending = d.pending /\ e.file = d.file
  <2>1. ~ Loading(u)'
    BY <1>3, <1>4, <1>9 DEF Loading
  <2>2. CASE d.state = o.state /\ d.file = o.file
    BY <1>1, <1>4, <1>6, <1>9, <1>7, <2>1, <2>2, CourseKept
  <2>3. CASE d.state # "FileTransfer"
    BY <1>4, <1>9, <2>3 DEF OnCourse
  <2>4. CASE Started(d.file)
    BY <1>4, <1>9, <2>1, <2>4, CourseStarts
  <2>5. CASE /\ o.state = "FileTransfer" /\ c.state = "Sending" /\ ~ c.first
             /\ \/ c.ack = "Wait" /\ d.file = a
                \/ c.ack = "Ok" /\ Advanced(a).state = "Finalize" /\ d.file = Advanced(a)
                \/ GivesUp(c.ack) /\ d.file = Cancelled(a)
    <3>1. u \notin Anew
      <4>1. c \in FileTransferContext /\ a \in FileTransferContext
        BY <1>1, ChunkOK DEF DeviceOK, DeviceWrapper
      <4>2. d.file.state # "Request"
        BY <2>5, <4>1 DEF Forget, Advanced, Cancelled, FileTransferContext
      <4> QED
        BY <1>4, <1>9, <2>5, <4>2 DEF Anew
    <3> SUFFICES ASSUME u \notin refused PROVE ContextHeld(u)'
      BY <1>7, <2>1, <3>1, CourseIdle DEF OnCourse, FrameHeld, AnswerHeld
    <3>2. ChunkTold(u, c.ack)
      BY <1>1, <2>5 DEF OnCourse, ContextHeld, Loading, FileTypes
    <3>3. c.ack = "Ok" /\ Advanced(a).state = "Finalize" /\ d.file = Advanced(a)
      BY <2>5, <3>2 DEF ChunkTold, GivesUp
    <3>4. Held(store[u], c.total, c.off + ChunkLength(c))
      BY <3>2, <3>3 DEF ChunkTold
    <3>5. c \in FileTransferContext
      BY <1>1 DEF DeviceOK, DeviceWrapper
    <3>6. /\ a.state = "Sending" /\ a.off = c.off /\ a.total = c.total
          /\ ChunkLength(a) = ChunkLength(c)
      BY <2>5, <3>5 DEF Forget, ChunkLength, FileTransferContext
    <3>7. a \in FileTransferContext /\ Advanced(a).total = a.total
      <4>1. a \in FileTransferContext
        BY <1>1, <3>5, ChunkOK DEF DeviceOK
      <4> QED
        BY <4>1 DEF Advanced, FileTransferContext
    <3>8. a.off + ChunkLength(a) = a.total
      BY <3>3, <3>6, <3>7 DEF Advanced, FileTransferContext
    <3>9. /\ e.file.state = "Finalize" /\ e.file.total = c.total
          /\ Held(store[u], c.total, c.total)
      BY <1>9, <3>3, <3>4, <3>6, <3>7, <3>8
    <3> QED
      BY <1>4, <1>7, <2>1, <3>9 DEF ContextHeld, Loading, FileTypes
  <2> QED
    BY <1>5, <2>2, <2>3, <2>4, <2>5 DEF Settles
<1> QED
  BY <1>8, <1>9 DEF Checked

\* What the context is when a frame of the transfer is sent.
LEMMA IssuedHeld ==
  ASSUME NEW u, NEW c \in FileTransferContext, c = hub[u].file, c.off <= c.total,
         ContextHeld(u), ~ Loading(u),
         NEW d, NEW type \in FileTypes, NEW arg, Issues(hub[u], d, type, arg)
  PROVE  /\ d.file.total = c.total
         /\ \/ /\ type = "FileWriteRequest" /\ d.file.state = "Request"
               /\ d.file.first /\ d.file.off = 0
            \/ /\ type = "FileWriteChunk" /\ d.file.state = "Sending" /\ ~ d.file.first
               /\ arg = ChunkLength(d.file) /\ Held(store[u], c.total, d.file.off)
            \/ /\ type = "FileWriteFinalize" /\ d.file.state = "Finalize"
               /\ Held(store[u], c.total, c.total)
<1> DEFINE a == Forget(c)
<1>1. /\ a \in FileTransferContext /\ a.off = c.off /\ a.total = c.total /\ a.state = c.state
      /\ a.chunk = c.chunk /\ a.first = c.first
  BY ChunkOK DEF Forget, FileTransferContext
<1>2. ChunkLength(a) = ChunkLength(c)
  BY <1>1 DEF ChunkLength
<1> HIDE DEF a
<1>3. CASE type # "FileWriteChunk"
  BY <1>3 DEF Issues, ContextHeld, FileTypes
<1>4. CASE /\ type = "FileWriteChunk" /\ c.state = "Sending" /\ arg = ChunkLength(d.file)
           /\ c.first /\ d.file = [c EXCEPT !.first = FALSE]
  <2>1. /\ d.file.state = c.state /\ ~ d.file.first /\ d.file.off = c.off
        /\ d.file.total = c.total
    BY <1>4 DEF FileTransferContext
  <2>2. c.off = 0 /\ Held(store[u], c.total, 0)
    BY <1>4 DEF ContextHeld
  <2> QED
    BY <1>4, <2>1, <2>2
<1>5. CASE /\ type = "FileWriteChunk" /\ c.state = "Sending" /\ arg = ChunkLength(d.file)
           /\ ~ c.first
           /\ \/ c.ack = "Busy" /\ d.file = a
              \/ c.ack = "Ok" /\ Advanced(a).state # "Finalize" /\ d.file = Advanced(a)
  <2>1. ChunkTold(u, c.ack)
    BY <1>5 DEF ContextHeld, Loading, FileTypes
  <2>2. CASE c.ack = "Busy" /\ d.file = a
    BY <1>1, <1>5, <2>1, <2>2 DEF ChunkTold
  <2>3. CASE c.ack = "Ok" /\ Advanced(a).state # "Finalize" /\ d.file = Advanced(a)
    <3>1. /\ d.file.off = a.off + ChunkLength(a) /\ d.file.total = a.total
          /\ d.file.first = a.first /\ d.file.state = a.state
      BY <1>1, <2>3 DEF Advanced, FileTransferContext
    <3>2. Held(store[u], c.total, c.off + ChunkLength(c))
      BY <2>1, <2>3 DEF ChunkTold
    <3> QED
      BY <1>1, <1>2, <1>5, <3>1, <3>2
  <2> QED
    BY <1>5, <2>2, <2>3
<1> QED
  BY <1>3, <1>4, <1>5 DEF Issues, FileTypes, a

\* One that sends something to u: what is sent is what the context says.
LEMMA AskedCourse ==
  ASSUME Smooth, NEW q \in Nat, CourseInv(q), OrderInv', PendingTold', Load, NEW u \in Stable,
         HubAlone, ~ Loading(u),
         NEW d, NEW next, NEW e, Switch(u, d, next), Asking(u, d, next),
         Checked(d, next, lag, e), hub' = [hub EXCEPT ![u] = e]
  PROVE  OnCourse(u)'
<1> DEFINE o == hub[u]
           c == o.file
<1>1. /\ u \in Nodes /\ HubOK /\ RestOK /\ BusOK /\ OnCourse(u) /\ TimelyInv(q) /\ OrderInv
      /\ CarriedOK /\ DeviceOK(o) /\ PendingOK(o)
  BY CourseFacts
<1>2. PICK dst \in Nat, type \in MessageType, arg \in Nat :
        /\ Transmit(dst, type, arg) /\ Addressed(u, dst, type)
        /\ d.pending = Asked(type) /\ Issues(o, d, type, arg)
  BY DEF Asking
<1>3. 1 \in 0 .. NumMod /\ Sends(1, Frames(dst, type, arg))
  BY <1>1, <1>2, TransmitSends
<1>4. lag = 0 /\ Timeout \in Nat \ {0}
  BY <1>1, TimelyFacts
<1>5. d.pending.age = 0 /\ d.pending.num = NextNumber /\ d.pending.type = type
  BY <1>2 DEF Asked
<1>6. e.state = d.state /\ e.pending = d.pending /\ e.file = d.file
  BY <1>4, <1>5 DEF Checked
<1>7. hub'[u] = e
  BY <1>1 DEF HubOK
<1>8. replies' \subseteq replies
  BY <1>3 DEF Sends, Recent
<1>9. CASE type \notin FileTypes
  <2>1. BusRests(u)
    BY <1>3, <1>9 DEF BusRests, Frames
  <2>2. ~ Loading(u)'
    BY <1>5, <1>6, <1>7, <1>9 DEF Loading
  <2>3. e.state = o.state /\ e.file = o.file
    BY <1>2, <1>6, <1>9 DEF Issues, FileTypes
  <2> QED
    BY <1>1, <1>7, <1>8, <2>1, <2>2, <2>3, CourseKept DEF HubAlone
<1>10. CASE type \in FileTypes
  <2>1. u \notin Anew
    <3>1. o.state = "FileTransfer" /\ c \in FileTransferContext
      BY <1>1, <1>2, <1>10 DEF Issues, DeviceOK, DeviceWrapper
    <3>2. d.file.state = c.state \/ d.file.state = "Finalize"
      BY <1>2, <1>10, <3>1 DEF Issues, Forget, Advanced, FileTransferContext
    <3> QED
      BY <1>6, <1>7, <3>1, <3>2 DEF Anew
  <2> SUFFICES ASSUME u \notin refused
               PROVE  ContextHeld(u)' /\ FrameHeld(u)' /\ AnswerHeld(u)'
    BY <2>1 DEF OnCourse, HubAlone
  <2>2. o.state = "FileTransfer" /\ ContextHeld(u)
    BY <1>1, <1>2, <1>10 DEF Issues, OnCourse
  <2>3. c \in FileTransferContext /\ c.off <= c.total
    BY <1>1 DEF DeviceOK, DeviceWrapper
  <2>4. /\ d.file.total = c.total
        /\ \/ /\ type = "FileWriteRequest" /\ d.file.state = "Request"
              /\ d.file.first /\ d.file.off = 0
           \/ /\ type = "FileWriteChunk" /\ d.file.state = "Sending" /\ ~ d.file.first
              /\ arg = ChunkLength(d.file) /\ Held(store[u], c.total, d.file.off)
           \/ /\ type = "FileWriteFinalize" /\ d.file.state = "Finalize"
              /\ Held(store[u], c.total, c.total)
    BY <1>2, <1>10, <2>2, <2>3, IssuedHeld
  <2>5. ContextHeld(u)'
    BY <1>5, <1>6, <1>7, <2>4 DEF ContextHeld, HubAlone
  <2>6. PICK k : k = NextNumber
    OBVIOUS
  <2>7. \A r \in Recent(replies, 1) : r.num # k
    BY <1>1, <1>3, <2>6, AskedYoungest
  <2>8. AnswerHeld(u)'
    BY <1>3, <1>5, <1>6, <1>7, <2>6, <2>7 DEF AnswerHeld, Sends
  <2>9. dst = u
    BY <1>1, <1>2, <1>10, OwnName DEF Issues, Addressed, FileTypes
  <2>10. ASSUME NEW f \in requests', f.to = u, f.num = e.pending.num
        PROVE  /\ cargo'[f.num].total = e.file.total /\ cargo'[f.num].off = e.file.off
               /\ f.type = "FileWriteChunk" => type = "FileWriteChunk" /\ f.arg = arg
    <3>1. f.type = type
      <4>1. Awaiting(hub'[u]) /\ hub'[u].pending.type = type /\ f.num = hub'[u].pending.num
        BY <1>5, <1>6, <1>7, <1>10, <2>10 DEF Awaiting, FileTypes
      <4> QED
        BY <1>1, <2>10, <4>1 DEF PendingTold
    <3>2. f \in Frames(dst, type, arg) /\ SentNow(f.num) /\ cargo'[f.num] = CargoOf(f.to)
      <4>1. f.num = NextNumber /\ messageNumber' = NextNumber
        BY <1>3, <1>5, <1>6, <2>10 DEF Sends, After, NextNumber
      <4>2. SentNow(f.num)
        BY <1>1, <4>1, NextIsOther DEF SentNow
      <4> QED
        BY <1>1, <1>3, <1>10, <2>9, <2>10, <3>1, <4>2, SentLoaded
    <3> QED
      BY <1>7, <2>10, <3>1, <3>2 DEF CargoOf, Frames
  <2>11. FrameHeld(u)'
    BY <1>6, <1>7, <2>4, <2>10 DEF FrameHeld, HubAlone
  <2> QED
    BY <2>5, <2>8, <2>11
<1> QED
  BY <1>9, <1>10

LEMMA VisitCourse ==
  ASSUME Smooth, NEW q \in Nat, CourseInv(q), OrderInv', PendingTold', Load, NEW u \in Stable,
         NEW v \in scan, Visit(v), HubAlone
  PROVE  OnCourse(u)'
<1>1. /\ u \in Nodes /\ HubOK /\ RestOK /\ BusOK /\ OnCourse(u) /\ TimelyInv(q) /\ OrderInv
      /\ CarriedOK /\ Undisturbed(u)
  BY CourseFacts
<1>2. IterationFrame(v)
  BY <1>1, VisitSwitches
<1>3. PICK d, next, e :
        /\ Switch(v, d, next) /\ Checked(d, next, lag, e) /\ hub' = [hub EXCEPT ![v] = e]
  BY <1>1, VisitSwitches
<1>4. replies' \subseteq replies
  BY <1>1, VisitTurn DEF Turn, Transmit, Recent, RestOK, Known
<1>5. CASE v # u
  <2>1. BusRests(u) /\ hub'[u] = hub[u]
    BY <1>1, <1>5, OthersRest
  <2> QED
    BY <1>4, <2>1, CourseAlone DEF HubAlone
<1>6. CASE v = u /\ Loading(u)
  <2>1. /\ UNCHANGED <<messageNumber, requests, replies>>
        /\ hub'[u].state = hub[u].state /\ hub'[u].pending = hub[u].pending
        /\ hub'[u].file = hub[u].file
    BY <1>1, <1>6, LoadingPassed
  <2>2. BusRests(u)
    BY <2>1 DEF BusRests, Shrinks
  <2> QED
    BY <1>1, <2>1, <2>2, CourseKept DEF HubAlone
<1>7. CASE v = u /\ ~ Loading(u)
  BY <1>3, <1>7, SilentCourse, AskedCourse DEF Switch
<1> QED
  BY <1>5, <1>6, <1>7

-----------------------------------------------------------------------------
(* The theorem.                                                             *)

LEMMA InitCourse ==
  ASSUME NEW q, DeliveryInit
  PROVE  CourseInv(q)
<1>1. Init /\ DeliveryInv /\ TimelyInv(q)
  BY InitDelivery, InitTimely DEF DeliveryInit
<1>2. ASSUME NEW u \in Stable PROVE Undisturbed(u) /\ OnCourse(u)
  <2>1. u \in Nodes /\ hub[u].state # "FileTransfer"
    BY <1>1 DEF Stable, Init, AbsentDevice, NewDevice
  <2> QED
    BY <1>1, <2>1, InitUndisturbed DEF OnCourse
<1> QED
  BY <1>1, <1>2 DEF CourseInv

LEMMA StepCourse ==
  ASSUME Smooth, NEW q, FewFor(q), CourseInv(q), [DeliveryNext]_allVars
  PROVE  CourseInv(q)'
<1>1. q \in Nat /\ DeliveryInv /\ TimelyInv(q) /\ NumbersInv(q) /\ OrderInv /\ IInv
      /\ HubOK /\ RestOK
  BY DEF FewFor, CourseInv, TimelyInv, NumbersInv, OrderInv, IInv
<1>2. [Next]_vars
  BY DeliveryStep
<1>3. TimelyInv(q)'
  BY <1>1, <1>2, StepTimely
<1>4. [NumbersFree]_vars
  BY <1>1, <1>2, StepNumbers
<1>5. DeliveryInv'
  BY <1>1, <1>4, StepDelivery
<1>6. OrderInv' /\ PendingTold'
  BY <1>5 DEF DeliveryInv
<1>7. ASSUME NEW u \in Stable PROVE Undisturbed(u)'
  BY <1>1, <1>2, <1>7, StepUndisturbed DEF CourseInv
<1>8. ASSUME NEW u \in Stable PROVE OnCourse(u)'
  <2>1. u \in Nodes /\ u \notin Mortal /\ OnCourse(u)
    BY <1>1, CourseFacts
  <2>2. CASE UNCHANGED allVars
    BY <2>1, <2>2
       DEF allVars, vars, fileVars, OnCourse, ContextHeld, FrameHeld, AnswerHeld, Loading,
           ChunkTold
  <2>3. ASSUME NEW f \in requests, NEW code \in Codes, Deliver(f, code), Load
        PROVE  OnCourse(u)'
    BY <1>1, <1>6, <2>3, DeliverCourse
  <2>4. ASSUME NEW n \in Nodes, Restart(n), Load PROVE OnCourse(u)'
    <3>1. store'[u] = store[u] /\ UNCHANGED vars /\ refused' = refused
      BY <1>1, <2>1, <2>4 DEF Restart, DeliveryInv, StoreOK
    <3>2. hub' = hub /\ replies' = replies /\ BusRests(u)
      BY <3>1 DEF vars, BusRests, Shrinks
    <3> QED
      BY <1>1, <1>6, <2>4, <3>1, <3>2, CourseAlone
  <2>5. ASSUME NEW name \in Names, NEW f \in Files, Offer(name, f), Load
        PROVE  OnCourse(u)'
    <3>1. Application /\ HubAlone
      BY <2>5 DEF Offer, Application
    <3> QED
      BY <1>1, <1>6, <2>5, <3>1, CallCourse
  <2>6. ASSUME NEW r \in replies, Answered(r), Load PROVE OnCourse(u)'
    BY <1>1, <1>6, <2>6, HandleCourse DEF Answered, Handle
  <2>7. ASSUME NEW v \in scan, Cancel(v), Load PROVE OnCourse(u)'
    BY <1>1, <1>6, <2>7, VisitCourse DEF Cancel, Visit, VisitTransfer
  <2>8. ASSUME Other, Load PROVE OnCourse(u)'
    <3>1. HubAlone
      BY <2>8 DEF Other
    <3>2. CASE \/ ProbeAll
               \/ \E name \in Names :
                    \/ SendCmdToDevice(name) \/ SendBlobRequestToDevice(name)
                    \/ \E period \in Periods : CreateSchedRequest(name, period)
      <4>1. Application
        BY <3>2 DEF Application
      <4> QED
        BY <1>1, <1>6, <2>8, <3>1, <4>1, CallCourse
    <3>3. CASE \/ \E f \in requests : LoseRequest(f)
               \/ \E r \in replies : LoseReply(r)
               \/ BeginPass \/ Tick
      BY <1>1, <1>6, <2>8, <3>1, <3>3, BusCourse
    <3>4. ASSUME NEW r \in replies,
                 HandleBlobAnswer(r) \/ HandleDeviceInfoAnswer(r) \/ HandleDeviceHealth(r)
          PROVE  OnCourse(u)'
      BY <1>1, <1>6, <2>8, <3>1, <3>4, HandleCourse DEF Handle
    <3>5. ASSUME NEW v \in scan, Visit(v) PROVE OnCourse(u)'
      BY <1>1, <1>6, <2>8, <3>1, <3>5, VisitCourse
    <3> QED
      BY <2>8, <3>2, <3>3, <3>4, <3>5 DEF Other
  <2> QED
    BY <2>2, <2>3, <2>4, <2>5, <2>6, <2>7, <2>8 DEF DeliveryNext
<1> QED
  BY <1>3, <1>5, <1>7, <1>8 DEF CourseInv

\* A report of Error is made of a transfer that was refused: of none that is on course.
LEMMA StepFails ==
  ASSUME Smooth, Mortal = {}, NEW q \in Nat, CourseInv(q), [DeliveryNext]_allVars
  PROVE  [FailsRefused]_allVars
<1>1. Stable = Nodes /\ OrderInv /\ IInv /\ HubOK /\ RestOK
  BY DEF Stable, CourseInv, DeliveryInv, OrderInv, IInv
<1>2. CASE UNCHANGED allVars
  BY <1>2
<1>3. ASSUME result' = NoResult PROVE FailsRefused
  BY <1>3 DEF NoResult, FailsRefused
<1>4. ASSUME NEW r \in replies, Answered(r) PROVE FailsRefused
  <2> DEFINE u == r.from
             final == /\ Matches(hub[u], r) /\ hub[u].state = "FileTransfer"
                      /\ hub[u].pending.type = "FileWriteFinalize"
  <2>1. result' = [NoResult EXCEPT ![u] = IF final THEN r.code ELSE @]
    BY <1>4 DEF Answered
  <2>2. CASE ~ final
    <3>1. result' = NoResult
      BY <2>1, <2>2 DEF NoResult
    <3> QED
      BY <1>3, <3>1
  <2>3. CASE final
    <3>1. u \in Nodes /\ PendingTold /\ OnCourse(u)
      <4>1. u \in Nodes
        BY <1>1 DEF RestOK, ReplyFrame
      <4> QED
        BY <1>1, <4>1, CourseFacts
    <3>2. ASSUME u \notin refused PROVE r.code = "Ok"
      <4>1. AnswerHeld(u)
        BY <2>3, <3>1, <3>2 DEF OnCourse
      <4>2. Loading(u) /\ Awaiting(hub[u]) /\ r.num = hub[u].pending.num
        BY <2>3 DEF Loading, FileTypes, Matches, Awaiting
      <4>3. r.re = "FileWriteFinalize"
        BY <2>3, <3>1, <4>2 DEF PendingTold
      <4> QED
        BY <4>1, <4>2, <4>3 DEF AnswerHeld
    <3> QED
      BY <2>1, <3>1, <3>2 DEF FailsRefused, NoResult
  <2> QED
    BY <2>2, <2>3
<1>5. ASSUME NEW u \in scan, Cancel(u) PROVE FailsRefused
  <2>1. /\ result' = [NoResult EXCEPT ![u] = "Error"]
        /\ hub[u].state = "FileTransfer" /\ hub[u].file.state = "Cancel"
    BY <1>5 DEF Cancel, FileCancel, TransferAt, Visiting
  <2>2. OnCourse(u) /\ u \in Nodes
    <3>1. u \in Nodes
      BY <1>1 DEF RestOK, Known
    <3> QED
      BY <1>1, <3>1, CourseFacts
  <2>3. u \in refused
    BY <2>1, <2>2 DEF OnCourse, ContextHeld
  <2> QED
    BY <2>1, <2>2, <2>3 DEF FailsRefused, NoResult
<1> QED
  BY <1>2, <1>3, <1>4, <1>5 DEF DeliveryNext, Deliver, Restart, Offer, Other

\* On a good bus whose devices stay switched on a transfer fails only when the device
\* refuses its request or a chunk: no other request, reply or timeout of this device or of
\* another gets into the bytes, the acks or the verdict (DeviceHub.hpp:344-361, 571-622).
THEOREM FailsOnlyRefusedCorrect ==
  Smooth /\ Mortal = {} => (DeliverySpec => FailsOnlyRefused)
<1> SUFFICES ASSUME Smooth, Mortal = {} PROVE DeliverySpec => FailsOnlyRefused
  OBVIOUS
<1>1. PICK q \in Nat : FewFor(q)
  BY DEF Smooth, Few, FewFor
<1>2. DeliveryInit => CourseInv(q)
  BY InitCourse
<1>3. CourseInv(q) /\ [DeliveryNext]_allVars => CourseInv(q)'
  BY <1>1, StepCourse
<1>4. CourseInv(q) /\ [DeliveryNext]_allVars => [FailsRefused]_allVars
  BY <1>1, StepFails
<1> QED
  BY <1>2, <1>3, <1>4, PTL DEF DeliverySpec, FailsOnlyRefused

=============================================================================
