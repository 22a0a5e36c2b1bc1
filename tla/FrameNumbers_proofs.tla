------------------------- MODULE FrameNumbers_proofs ------------------------
(***************************************************************************)
(* The numbers of the frames are counted modulo NumMod, and the hub gives  *)
(* one out again without a look at what is pending.  A request cannot be   *)
(* pending for long, and each of the other devices is sent but few frames  *)
(* meanwhile: with few devices the number of a pending request is free.    *)
(***************************************************************************)
EXTENDS FrameOrder_proofs, FiniteSetTheorems

\* While a request is pending, each of the other devices is sent at most q + 1 frames:
\* one each FileReqTime ticks until it expires, and one in the pass that drops it.
FewFor(q) ==
  /\ q \in Nat /\ q * FileReqTime >= Timeout + MaxLag
  /\ (Cardinality(Nodes) - 1) * (q + 1) + MaxProbeAll * (MaxDeviceCount - 1) + 1 < NumMod

Few == \E q \in Nat : FewFor(q)

\* How old u's pending request is for the running pass, and how long it is until v is due.
Since(u) == hub[u].pending.age - lag
Until(v) == IF hub[v].wait + lag > 0 THEN hub[v].wait + lag ELSE 0

\* The devices that may be sent one more frame once u's request has expired.
Late(u) == IF Since(u) >= Timeout /\ ~ Idle THEN scan \ {u} ELSE Nodes \ {u}

\* The chances to send that the other devices have before u's request is dropped: <<v, k>>
\* is the k-th, and <<v, q>> the last.
Chances(u, q) ==
  {s \in (Nodes \ {u}) \X (0 .. q) :
     IF s[2] < q THEN Until(s[1]) + s[2] * FileReqTime + Since(u) < Timeout
                 ELSE s[1] \in Late(u)}

\* The frames that probeAll has yet to send.
ProbesLeft == (MaxProbeAll - probes) * (MaxDeviceCount - 1)

\* u's pending request will have been dropped before its number is used again.
HasRoom(u, q) ==
  Age(hub[u].pending.num) + Cardinality(Chances(u, q)) + ProbesLeft + 1 < NumMod

Room(q) == \A u \in Nodes : Awaiting(hub[u]) => HasRoom(u, q)

\* A request that has expired is dropped in the pass that runs, and a device that is not
\* known keeps nobody waiting.
Clocks ==
  /\ \A u \in Nodes : Awaiting(hub[u]) /\ ~ Idle /\ Since(u) >= Timeout => u \in scan
  /\ \A u \in Nodes : hub[u].state = "Absent" => hub[u].wait <= 0

NumbersInv(q) == OrderInv /\ Clocks /\ Room(q)

-----------------------------------------------------------------------------
(* Counting.                                                                *)

\* The devices are finitely many.
LEMMA PairsFinite ==
  ASSUME NEW q \in Nat, NEW u \in Nodes
  PROVE  /\ IsFiniteSet((Nodes \ {u}) \X (0 .. q))
         /\ Cardinality((Nodes \ {u}) \X (0 .. q)) = (Cardinality(Nodes) - 1) * (q + 1)
         /\ Cardinality(Nodes) \in Nat \ {0}
<1>1. IsFiniteSet(1 .. 254) /\ Nodes \in SUBSET (1 .. 254)
  <2>1. 1 \in Int /\ 254 \in Int
    OBVIOUS
  <2>2. IsFiniteSet(1 .. 254)
    BY <2>1, FS_Interval
  <2> QED
    BY <2>2, BusAssumption
<1>2. IsFiniteSet(Nodes)
  BY <1>1, FS_Subset
<1>3. /\ IsFiniteSet(Nodes \ {u})
      /\ Cardinality(Nodes \ {u}) = Cardinality(Nodes) - 1
  BY <1>2, FS_RemoveElement
<1>4. Cardinality(Nodes) \in Nat /\ Cardinality(Nodes \ {u}) \in Nat
  BY <1>2, <1>3, FS_CardinalityType
<1>5. IsFiniteSet(0 .. q) /\ Cardinality(0 .. q) = q + 1
  BY FS_Interval
<1> QED
  BY <1>3, <1>4, <1>5, FS_Product

\* Each of the others has at most q + 1 chances.
LEMMA ChancesFinite ==
  ASSUME NEW q \in Nat, NEW u \in Nodes
  PROVE  /\ IsFiniteSet(Chances(u, q)) /\ Cardinality(Chances(u, q)) \in Nat
         /\ IsFiniteSet(Chances(u, q)') /\ Cardinality(Chances(u, q)') \in Nat
         /\ Cardinality(Chances(u, q)') <= (Cardinality(Nodes) - 1) * (q + 1)
<1> DEFINE All == (Nodes \ {u}) \X (0 .. q)
<1>1. IsFiniteSet(All) /\ Cardinality(All) = (Cardinality(Nodes) - 1) * (q + 1)
  BY PairsFinite
<1>2. Chances(u, q) \in SUBSET All /\ Chances(u, q)' \in SUBSET All
  BY DEF Chances
<1> HIDE DEF All
<1>3. /\ IsFiniteSet(Chances(u, q)) /\ IsFiniteSet(Chances(u, q)')
      /\ Cardinality(Chances(u, q)') <= Cardinality(All)
  BY <1>1, <1>2, FS_Subset
<1> QED
  BY <1>1, <1>3, FS_CardinalityType

\* What probeAll has yet to send is counted down.
LEMMA ProbesCount ==
  ASSUME RestOK
  PROVE  /\ ProbesLeft \in Nat /\ ProbesLeft <= MaxProbeAll * (MaxDeviceCount - 1)
         /\ probes' = probes => ProbesLeft' = ProbesLeft
         /\ probes' = probes + 1 /\ probes < MaxProbeAll =>
              ProbesLeft' \in Nat /\ ProbesLeft = ProbesLeft' + (MaxDeviceCount - 1)
<1> DEFINE k == MaxDeviceCount - 1
<1>1. k \in Nat /\ MaxProbeAll \in Nat /\ probes \in Nat /\ probes <= MaxProbeAll
  BY BusAssumption DEF RestOK
<1>2. PICK p \in Nat : p = MaxProbeAll - probes
  <2>1. MaxProbeAll - probes \in Nat
    BY <1>1
  <2> QED
    BY <2>1
<1> HIDE DEF k
<1>3. p * k \in Nat /\ p * k <= MaxProbeAll * k
  <2>1. MaxProbeAll = p + probes
    BY <1>1, <1>2
  <2>2. (p + probes) * k = p * k + probes * k /\ p * k \in Nat /\ probes * k \in Nat
    BY <1>1, <1>2
  <2> QED
    BY <2>1, <2>2
<1>4. ASSUME probes' = probes + 1, probes < MaxProbeAll
      PROVE  /\ (MaxProbeAll - probes') * k \in Nat
             /\ p * k = (MaxProbeAll - probes') * k + k
  <2>1. PICK m \in Nat : p = m + 1
    <3>1. p - 1 \in Nat /\ p = (p - 1) + 1
      BY <1>1, <1>2, <1>4
    <3> QED
      BY <3>1
  <2>2. MaxProbeAll - probes' = m
    BY <1>1, <1>2, <1>4, <2>1
  <2>3. (m + 1) * k = m * k + k /\ m * k \in Nat
    BY <1>1
  <2> QED
    BY <2>1, <2>2, <2>3
<1> QED
  BY <1>2, <1>3, <1>4 DEF ProbesLeft, k

LEMMA DeviceTypes ==
  ASSUME NEW d, DeviceOK(d)
  PROVE  d.pending.age \in Nat /\ d.wait \in Int
BY DEF DeviceOK, DeviceWrapper, PendingTrans

\* The types of what is counted here.
LEMMA ClockTypes ==
  ASSUME HubOK, RestOK
  PROVE  /\ \A u \in Nodes : /\ hub[u].pending.age \in Nat /\ hub[u].wait \in Int
                             /\ Since(u) \in Int /\ Until(u) \in Nat
         /\ lag \in Nat /\ lag <= MaxLag /\ MaxLag \in Nat /\ Timeout \in Nat
         /\ FileReqTime \in Nat \ {0}
<1>1. /\ lag \in Nat /\ lag <= MaxLag /\ MaxLag \in Nat /\ Timeout \in Nat
      /\ FileReqTime \in Nat \ {0}
  BY TimingAssumption DEF RestOK
<1>2. \A u \in Nodes : hub[u].pending.age \in Nat /\ hub[u].wait \in Int
  BY DeviceTypes DEF HubOK
<1> QED
  BY <1>1, <1>2 DEF Since, Until

LEMMA NextClockTypes ==
  ASSUME HubOK', RestOK'
  PROVE  /\ \A u \in Nodes : Since(u)' \in Int /\ Until(u)' \in Nat
         /\ lag' \in Nat /\ lag' <= MaxLag
<1>1. lag' \in Nat /\ lag' <= MaxLag
  BY TimingAssumption DEF RestOK
<1>2. \A u \in Nodes : hub'[u].pending.age \in Nat /\ hub'[u].wait \in Int
  BY DeviceTypes DEF HubOK
<1> QED
  BY <1>1, <1>2 DEF Since, Until

\* Time that passes takes no chance back and gives none: what u's request grows older, the
\* others come nearer to their next frame.
LEMMA ChancesPass ==
  ASSUME HubOK, RestOK, HubOK', RestOK', NEW q \in Nat, NEW u \in Nodes,
         \/ Since(u)' >= Timeout
         \/ \A v \in Nodes \ {u} : Until(v)' + Since(u)' >= Until(v) + Since(u),
         Late(u)' \subseteq Late(u)
  PROVE  Chances(u, q)' \subseteq Chances(u, q)
<1>1. /\ \A v \in Nodes : Until(v) \in Nat /\ Until(v)' \in Nat
      /\ Since(u) \in Int /\ Since(u)' \in Int /\ Timeout \in Nat /\ FileReqTime \in Nat
  BY ClockTypes, NextClockTypes
<1> SUFFICES ASSUME NEW s \in Chances(u, q)' PROVE s \in Chances(u, q)
  OBVIOUS
<1>2. /\ s \in (Nodes \ {u}) \X (0 .. q)
      /\ IF s[2] < q THEN Until(s[1])' + s[2] * FileReqTime + Since(u)' < Timeout
                     ELSE s[1] \in Late(u)'
  BY DEF Chances
<1>3. PICK v \in Nodes \ {u}, k \in 0 .. q : s[1] = v /\ s[2] = k
  BY <1>2
<1>4. k * FileReqTime \in Nat
  BY <1>1, <1>3
<1>5. CASE k < q
  <2>1. Until(v)' + k * FileReqTime + Since(u)' < Timeout
    BY <1>2, <1>3, <1>5
  <2>2. Until(v)' + Since(u)' >= Until(v) + Since(u)
    BY <1>1, <1>3, <1>4, <2>1
  <2>3. Until(v) + k * FileReqTime + Since(u) < Timeout
    BY <1>1, <1>3, <1>4, <2>1, <2>2
  <2> QED
    BY <1>2, <1>3, <1>5, <2>3 DEF Chances
<1>6. CASE ~ (k < q)
  BY <1>2, <1>3, <1>6 DEF Chances
<1> QED
  BY <1>5, <1>6

\* A number that no frame is given keeps its room when the others lose chances.
LEMMA RoomKept ==
  ASSUME NEW q \in Nat, NEW u \in Nodes, RestOK, HasRoom(u, q),
         hub[u].pending.num \in Numbers,
         hub'[u].pending.num = hub[u].pending.num, UNCHANGED <<messageNumber, probes>>,
         Chances(u, q)' \subseteq Chances(u, q)
  PROVE  HasRoom(u, q)'
<1> DEFINE C == Chances(u, q)
           D == Chances(u, q)'
           a == Age(hub[u].pending.num)
<1>1. IsFiniteSet(C) /\ Cardinality(C) \in Nat
  BY ChancesFinite
<1> HIDE DEF C, D
<1>2. D \in SUBSET C
  BY DEF C, D
<1>3. Cardinality(D) <= Cardinality(C) /\ Cardinality(D) \in Nat
  BY <1>1, <1>2, FS_Subset, FS_CardinalityType
<1>4. Age(hub[u].pending.num)' = a /\ ProbesLeft' = ProbesLeft /\ ProbesLeft \in Nat
  BY ProbesCount DEF Age
<1>5. a \in Nat /\ NumMod \in Nat
  BY AgeIs, BusAssumption DEF RestOK, Numbers
<1>6. a + Cardinality(C) + ProbesLeft + 1 < NumMod
  BY DEF HasRoom, C
<1>7. a + Cardinality(D) + ProbesLeft + 1 < NumMod
  BY <1>1, <1>3, <1>4, <1>5, <1>6
<1> QED
  BY <1>4, <1>7 DEF HasRoom, D

-----------------------------------------------------------------------------
(* The steps.                                                               *)

\* When n frames are sent, and no request that is pending is as old as that, they get other
\* numbers than those, which become n frames older.
LEMMA NumbersAge ==
  ASSUME OrderInv, NEW n \in 0 .. NumMod, NEW new, Sends(n, new), requests' \subseteq Frame,
         \A v \in Nodes : Awaiting(hub[v]) => Age(hub[v].pending.num) + n < NumMod
  PROVE  /\ NumbersFree
         /\ \A v \in Nodes : \A p \in Numbers :
              Awaiting(hub[v]) /\ p = hub[v].pending.num => Age(p)' = Age(p) + n
<1>1. /\ HubOK /\ RestOK /\ PendingLast /\ messageNumber \in Numbers
      /\ NumMod \in Nat \ {0} /\ n \in Nat
  BY BusAssumption DEF OrderInv, IInv, RestOK, Numbers
<1>2. ASSUME NEW v \in Nodes, Awaiting(hub[v]), NEW p, p = hub[v].pending.num
      PROVE  p \in Numbers /\ Age(p) \in Nat /\ Age(p) + n < NumMod
  <2>1. p \in Numbers /\ Age(p) + n < NumMod
    BY <1>1, <1>2 DEF PendingLast
  <2> QED
    BY <1>1, <2>1, AgeIs DEF Numbers
<1>3. ASSUME NEW f \in requests', f \notin requests, Awaiting(hub[f.to]),
             f.num = hub[f.to].pending.num
      PROVE  FALSE
  <2>1. f \in new /\ f.to \in Nodes
    BY <1>3 DEF Sends, Recent, Frame
  <2>2. PICK i \in 1 .. n : f.num = After(i)
    BY <2>1 DEF Sends
  <2>3. n \in 1 .. NumMod
    BY <2>2
  <2>4. PICK p : p = f.num
    OBVIOUS
  <2>5. Age(p) + n >= NumMod
    BY <1>1, <2>2, <2>3, <2>4, AgeOfNew DEF Sends
  <2>6. Age(p) + n < NumMod /\ Age(p) \in Nat
    BY <1>2, <1>3, <2>1, <2>4
  <2> QED
    BY <1>1, <2>5, <2>6
<1>4. ASSUME NEW v \in Nodes, NEW p \in Numbers, Awaiting(hub[v]), p = hub[v].pending.num
      PROVE  Age(p)' = Age(p) + n
  BY <1>1, <1>2, <1>4, AgeGrows DEF Sends
<1> QED
  BY <1>3, <1>4 DEF NumbersFree

\* v's clock stands still; nothing new is awaited of it.
Calm(v) ==
  /\ \/ hub'[v].wait = hub[v].wait
     \/ Idle /\ hub[v].state = "Absent" /\ hub'[v].wait <= 0
  /\ Awaiting(hub'[v]) => hub'[v].pending = hub[v].pending
  /\ hub'[v].state = "Absent" => hub[v].state = "Absent"

\* A step in which none of the others gains a chance.
LEMMA CalmChances ==
  ASSUME HubOK, RestOK, HubOK', RestOK', Clocks, \A v \in Nodes : Calm(v),
         UNCHANGED <<scan, lag>>
  PROVE  /\ Clocks'
         /\ \A q \in Nat : \A u \in Nodes : Awaiting(hub'[u]) =>
              Chances(u, q)' \subseteq Chances(u, q)
<1>1. \A v \in Nodes : Until(v) \in Nat /\ Until(v)' \in Nat /\ hub[v].wait \in Int
  BY ClockTypes, NextClockTypes
<1>2. ASSUME NEW v \in Nodes PROVE Until(v)' >= Until(v)
  <2>1. CASE hub'[v].wait = hub[v].wait
    BY <1>1, <2>1 DEF Until
  <2>2. CASE Idle /\ hub[v].state = "Absent" /\ hub'[v].wait <= 0
    <3>1. Until(v) = 0
      BY <1>1, <2>2 DEF Until, Clocks, RestOK
    <3> QED
      BY <1>1, <3>1
  <2> QED
    BY <2>1, <2>2 DEF Calm
<1>3. ASSUME NEW u \in Nodes, Awaiting(hub'[u])
      PROVE  /\ Awaiting(hub[u]) /\ Since(u)' = Since(u) /\ Idle' = Idle
             /\ Late(u)' = Late(u) /\ Since(u) \in Int
  <2>1. hub'[u].pending = hub[u].pending
    BY <1>3 DEF Calm
  <2> QED
    BY <1>3, <2>1, ClockTypes DEF Since, Late, Idle, Awaiting
<1>4. ASSUME NEW q \in Nat, NEW u \in Nodes, Awaiting(hub'[u])
      PROVE  Chances(u, q)' \subseteq Chances(u, q)
  <2>1. \A v \in Nodes \ {u} : Until(v)' + Since(u)' >= Until(v) + Since(u)
    BY <1>1, <1>2, <1>3, <1>4
  <2> QED
    BY <1>3, <1>4, <2>1, ChancesPass
<1>5. Clocks'
  <2>1. ASSUME NEW u \in Nodes, Awaiting(hub'[u]), ~ Idle', Since(u)' >= Timeout
        PROVE  u \in scan'
    BY <1>3, <2>1 DEF Clocks
  <2>2. ASSUME NEW u \in Nodes, hub'[u].state = "Absent" PROVE hub'[u].wait <= 0
    BY <2>2 DEF Clocks, Calm
  <2> QED
    BY <2>1, <2>2 DEF Clocks
<1> QED
  BY <1>4, <1>5

\* The steps that leave the clocks and the numbers alone.
Calmly ==
  /\ UNCHANGED <<messageNumber, probes, scan, lag>> /\ requests' \subseteq requests
  /\ \A v \in Nodes : Calm(v)

\* Every other step sends, or lets time pass, or begins a pass.
LEMMA WhoSends ==
  ASSUME HubOK, RestOK, [Next]_vars
  PROVE  Calmly \/ ProbeAll \/ Tick \/ BeginPass \/ \E u \in scan : Visit(u)
<1>1. ASSUME hub' = hub PROVE \A v \in Nodes : Calm(v)
  BY <1>1 DEF Calm
<1>2. ASSUME NEW u \in Nodes, NEW e, hub' = [hub EXCEPT ![u] = e],
             \/ e.wait = hub[u].wait
             \/ Idle /\ hub[u].state = "Absent" /\ e.wait <= 0,
             Awaiting(e) => e.pending = hub[u].pending,
             e.state = "Absent" => hub[u].state = "Absent"
      PROVE  \A v \in Nodes : Calm(v)
  <2>1. hub'[u] = e /\ \A v \in Nodes \ {u} : hub'[v] = hub[v]
    BY <1>2 DEF HubOK
  <2> QED
    BY <1>2, <2>1 DEF Calm
<1>3. ASSUME NEW name \in Names, Registered(name),
             NEW e, Called(hub[UidOf(name)], e), Update(name, e)
      PROVE  Calmly
  <2>1. UidOf(name) \in Nodes
    BY <1>3, NamedDevice
  <2>2. \A v \in Nodes : Calm(v)
    BY <1>2, <1>3, <2>1 DEF Called, Update
  <2> QED
    BY <1>3, <2>2 DEF Calmly, Update, timeVars
<1>4. ASSUME NEW r \in replies, Handle(r) PROVE Calmly
  <2>1. Receive(r) /\ r.from \in Nodes
    BY <1>4, HandleOK
  <2>2. PICK e : Handled(hub[r.from], r, e) /\ hub' = [hub EXCEPT ![r.from] = e]
    BY <1>4, HandleOK
  <2>3. hub[r.from].state = "Absent" /\ e = NewDevice(uptime) => e.wait <= 0
    BY TimingAssumption DEF NewDevice
  <2>4. \/ e.wait = hub[r.from].wait
        \/ hub[r.from].state = "Absent" /\ e.wait <= 0
    BY <2>2, <2>3 DEF Handled, Completed
  <2>5. Awaiting(e) => e.pending = hub[r.from].pending
    BY <2>2 DEF Handled, Completed, NewDevice, Awaiting, NoPending
  <2>6. e.state = "Absent" => hub[r.from].state = "Absent"
    BY <2>2 DEF Handled, Completed, AckEffect, NewDevice
  <2>7. Idle
    BY <2>1 DEF Receive
  <2>8. \A v \in Nodes : Calm(v)
    BY <1>2, <2>1, <2>2, <2>4, <2>5, <2>6, <2>7
  <2> QED
    BY <2>1, <2>8 DEF Calmly, Receive, timeVars
<1>5. ASSUME Environment PROVE Calmly \/ Tick
  <2>1. CASE hub' = hub /\ UNCHANGED <<messageNumber, probes, scan, lag>>
              /\ requests' \subseteq requests
    BY <1>1, <2>1 DEF Calmly
  <2> QED
    BY <1>5, <2>1 DEF Environment, LoseRequest, NodeReceive, LoseReply, PowerOff, PowerOn,
                      hubVars, timeVars
<1>6. CASE UNCHANGED vars
  BY <1>1, <1>6 DEF Calmly, vars
<1> QED
  BY <1>3, <1>4, <1>5, <1>6, CallOK DEF Next

\* What each step is to keep.
Roomy(q) == NumbersFree /\ Clocks' /\ Room(q)'

\* What is known of the pending requests before a step.
LEMMA RoomNow ==
  ASSUME NEW q \in Nat, NumbersInv(q), NEW u \in Nodes, Awaiting(hub[u])
  PROVE  /\ HasRoom(u, q) /\ hub[u].pending.num \in Numbers
         /\ Age(hub[u].pending.num) \in Nat /\ ProbesLeft \in Nat
         /\ Cardinality(Chances(u, q)) \in Nat /\ NumMod \in Nat
         /\ Age(hub[u].pending.num) + 1 < NumMod
<1>1. HasRoom(u, q) /\ hub[u].pending.num \in Numbers /\ RestOK
  BY DEF NumbersInv, OrderInv, IInv, Room, PendingLast
<1>2. /\ Age(hub[u].pending.num) \in Nat /\ ProbesLeft \in Nat
      /\ Cardinality(Chances(u, q)) \in Nat /\ NumMod \in Nat
  <2>1. messageNumber \in Numbers /\ NumMod \in Nat
    BY <1>1, BusAssumption DEF RestOK, Numbers
  <2>2. Age(hub[u].pending.num) \in Nat
    BY <1>1, <2>1, AgeIs DEF Numbers
  <2>3. Cardinality(Chances(u, q)) \in Nat
    BY ChancesFinite
  <2> QED
    BY <1>1, <2>1, <2>2, <2>3, ProbesCount
<1>3. Age(hub[u].pending.num) + Cardinality(Chances(u, q)) + ProbesLeft + 1 < NumMod
  BY <1>1 DEF HasRoom
<1> QED
  BY <1>1, <1>2, <1>3

LEMMA CalmRoom ==
  ASSUME NEW q \in Nat, NumbersInv(q), OrderInv', Calmly
  PROVE  Roomy(q)
<1>1. HubOK /\ RestOK /\ HubOK' /\ RestOK' /\ Clocks
  BY DEF NumbersInv, OrderInv, IInv
<1>2. /\ Clocks'
      /\ \A u \in Nodes : Awaiting(hub'[u]) => Chances(u, q)' \subseteq Chances(u, q)
  BY <1>1, CalmChances DEF Calmly
<1>3. ASSUME NEW u \in Nodes, Awaiting(hub'[u]) PROVE HasRoom(u, q)'
  <2>1. Awaiting(hub[u]) /\ hub'[u].pending = hub[u].pending
    BY <1>3 DEF Calmly, Calm, Awaiting
  <2> QED
    BY <1>1, <1>2, <1>3, <2>1, RoomNow, RoomKept DEF Calmly
<1>4. NumbersFree
  BY DEF Calmly, NumbersFree
<1> QED
  BY <1>2, <1>3, <1>4 DEF Roomy, Room

LEMMA BeginRoom ==
  ASSUME NEW q \in Nat, NumbersInv(q), OrderInv', BeginPass
  PROVE  Roomy(q)
<1>1. HubOK /\ RestOK /\ HubOK' /\ RestOK' /\ Clocks
  BY DEF NumbersInv, OrderInv, IInv
<1>2. /\ Idle /\ scan' = Known /\ Known \subseteq Nodes
      /\ UNCHANGED <<hub, messageNumber, lag, probes, requests>>
  BY DEF BeginPass, hubVars, Known
<1>3. ASSUME NEW u \in Nodes, Awaiting(hub'[u]) PROVE HasRoom(u, q)'
  <2>1. /\ Awaiting(hub[u]) /\ hub'[u].pending = hub[u].pending
        /\ Since(u)' = Since(u) /\ \A v \in Nodes : Until(v)' = Until(v)
    BY <1>2, <1>3 DEF Since, Until
  <2>2. Late(u)' \subseteq Late(u)
    BY <1>2 DEF Late
  <2>3. \A v \in Nodes \ {u} : Until(v)' + Since(u)' >= Until(v) + Since(u)
    BY <1>1, <2>1, ClockTypes
  <2>4. Chances(u, q)' \subseteq Chances(u, q)
    BY <1>1, <2>2, <2>3, ChancesPass
  <2> QED
    BY <1>1, <1>2, <2>1, <2>4, RoomNow, RoomKept
<1>4. Clocks'
  <2>1. ASSUME NEW u \in Nodes, Awaiting(hub'[u]) PROVE u \in scan'
    <3>1. PendingOK(hub[u]) /\ Awaiting(hub[u])
      BY <1>1, <1>2, <2>1 DEF HubOK
    <3>2. hub[u].state # "Absent"
      BY <3>1, NothingOpen
    <3> QED
      BY <1>2, <3>2 DEF Known
  <2> QED
    BY <1>1, <1>2, <2>1 DEF Clocks
<1>5. NumbersFree
  BY <1>2 DEF NumbersFree
<1> QED
  BY <1>3, <1>4, <1>5 DEF Roomy, Room

\* One tick for a pending request and for those who wait.
LEMMA TickClocks ==
  ASSUME HubOK, RestOK, HubOK', RestOK', Clocks, Tick, NEW u \in Nodes, Awaiting(hub[u])
  PROVE  /\ hub'[u].pending.num = hub[u].pending.num
         /\ \/ Since(u)' >= Timeout
            \/ \A v \in Nodes \ {u} : Until(v)' + Since(u)' >= Until(v) + Since(u)
         /\ Since(u) >= Timeout => Since(u)' >= Timeout
         /\ ~ Idle /\ Since(u)' >= Timeout => Since(u) >= Timeout
<1>1. /\ Idle \/ lag < MaxLag
      /\ hub' = [v \in Nodes |-> IF hub[v].state = "Absent" THEN hub[v] ELSE Aged(hub[v])]
      /\ lag' = IF Idle THEN 0 ELSE lag + 1
      /\ Idle => lag = 0
  BY DEF Tick, RestOK
<1>2. /\ \A v \in Nodes : /\ hub[v].pending.age \in Nat /\ hub[v].wait \in Int
                          /\ Since(v) \in Int /\ Until(v) \in Nat
                          /\ Since(v)' \in Int /\ Until(v)' \in Nat
      /\ lag \in Nat /\ lag' \in Nat /\ lag' <= MaxLag /\ MaxLag \in Nat /\ Timeout \in Nat
  BY ClockTypes, NextClockTypes
<1>3. hub[u].state # "Absent"
  BY NothingOpen DEF HubOK
<1>4. \A v \in Nodes : hub[v] \in DeviceWrapper /\ hub[v].pending \in PendingTrans
  BY DEF HubOK, DeviceOK, DeviceWrapper
<1>5. /\ hub'[u].pending = OlderPending(hub[u].pending)
      /\ hub'[u].pending.num = hub[u].pending.num
      /\ hub'[u].pending.age = Older(hub[u].pending.age, Timeout + MaxLag)
  BY <1>1, <1>3, <1>4 DEF Aged, DeviceWrapper, OlderPending, PendingTrans
<1>6. ASSUME NEW v \in Nodes
      PROVE  hub'[v].wait = hub[v].wait \/ (hub'[v].wait = hub[v].wait - 1)
  BY <1>1, <1>4 DEF Aged, DeviceWrapper
<1>7. \/ hub'[u].pending.age = hub[u].pending.age + 1
      \/ /\ hub'[u].pending.age = Timeout + MaxLag
         /\ hub[u].pending.age + 1 >= Timeout + MaxLag
  BY <1>2, <1>5 DEF Older, Lower
<1>8. CASE hub'[u].pending.age = hub[u].pending.age + 1
  <2>1. Since(u)' = Since(u) + (IF Idle THEN 1 ELSE 0)
    BY <1>1, <1>2, <1>8 DEF Since
  <2>2. ASSUME NEW v \in Nodes
        PROVE  Until(v)' >= Until(v) - (IF Idle THEN 1 ELSE 0)
    BY <1>1, <1>2, <1>6 DEF Until
  <2>3. ASSUME NEW v \in Nodes PROVE Until(v)' + Since(u)' >= Until(v) + Since(u)
    BY <1>2, <2>1, <2>2
  <2> QED
    BY <1>2, <1>5, <2>1, <2>3
<1>9. CASE /\ hub'[u].pending.age = Timeout + MaxLag
           /\ hub[u].pending.age + 1 >= Timeout + MaxLag
  <2>1. Since(u)' >= Timeout
    <3>1. Since(u)' = Timeout + MaxLag - lag'
      BY <1>2, <1>9 DEF Since
    <3> QED
      BY <1>2, <3>1
  <2>2. ~ Idle => Since(u) >= Timeout
    BY <1>1, <1>2, <1>9 DEF Since
  <2> QED
    BY <1>5, <2>1, <2>2
<1> QED
  BY <1>7, <1>8, <1>9

LEMMA TickRoom ==
  ASSUME NEW q \in Nat, NumbersInv(q), OrderInv', Tick
  PROVE  Roomy(q)
<1>1. HubOK /\ RestOK /\ HubOK' /\ RestOK' /\ Clocks
  BY DEF NumbersInv, OrderInv, IInv
<1>2. /\ UNCHANGED <<messageNumber, scan, probes, requests>> /\ Idle' = Idle
      /\ hub' = [v \in Nodes |-> IF hub[v].state = "Absent" THEN hub[v] ELSE Aged(hub[v])]
  BY DEF Tick, Idle
<1>3. ASSUME NEW v \in Nodes
      PROVE  Awaiting(hub'[v]) = Awaiting(hub[v]) /\ hub'[v].state = hub[v].state
  <2>1. DeviceOK(hub[v]) /\ PendingOK(hub[v])
    BY <1>1 DEF HubOK
  <2>2. Aged(hub[v]).state = hub[v].state /\ Awaiting(Aged(hub[v])) = Awaiting(hub[v])
    BY <2>1, AgedOK
  <2> QED
    BY <1>2, <2>2
<1>4. ASSUME NEW u \in Nodes, Awaiting(hub'[u]) PROVE HasRoom(u, q)'
  <2>1. Awaiting(hub[u])
    BY <1>3, <1>4
  <2>2. /\ hub'[u].pending.num = hub[u].pending.num
        /\ \/ Since(u)' >= Timeout
           \/ \A v \in Nodes \ {u} : Until(v)' + Since(u)' >= Until(v) + Since(u)
        /\ Since(u) >= Timeout => Since(u)' >= Timeout
    BY <1>1, <2>1, TickClocks
  <2>3. Late(u)' \subseteq Late(u)
    BY <1>1, <1>2, <2>2 DEF Late, RestOK, Known
  <2>4. Chances(u, q)' \subseteq Chances(u, q)
    BY <1>1, <2>2, <2>3, ChancesPass
  <2> QED
    BY <1>1, <1>2, <2>1, <2>2, <2>4, RoomNow, RoomKept
<1>5. Clocks'
  <2>1. ASSUME NEW u \in Nodes, Awaiting(hub'[u]), ~ Idle', Since(u)' >= Timeout
        PROVE  u \in scan'
    BY <1>1, <1>2, <1>3, <2>1, TickClocks DEF Clocks
  <2>2. ASSUME NEW u \in Nodes, hub'[u].state = "Absent" PROVE hub'[u].wait <= 0
    <3>1. hub[u].state = "Absent"
      BY <1>3, <2>2
    <3>2. hub'[u] = hub[u]
      BY <1>2, <3>1
    <3> QED
      BY <1>1, <3>1, <3>2 DEF Clocks
  <2> QED
    BY <2>1, <2>2 DEF Clocks
<1>6. NumbersFree
  BY <1>2 DEF NumbersFree
<1> QED
  BY <1>4, <1>5, <1>6 DEF Roomy, Room

\* probeAll uses up frames that it was to send anyway.
LEMMA ProbeRoom ==
  ASSUME NEW q \in Nat, NumbersInv(q), OrderInv', ProbeAll
  PROVE  Roomy(q)
<1> DEFINE k == MaxDeviceCount - 1
<1>1. HubOK /\ RestOK /\ HubOK' /\ RestOK' /\ Clocks /\ OrderInv
  BY DEF NumbersInv, OrderInv, IInv
<1>2. /\ probes' = probes + 1 /\ probes < MaxProbeAll
      /\ UNCHANGED <<hub, scan, lag>>
  BY DEF ProbeAll, timeVars
<1>3. k \in Nat /\ k \in 0 .. NumMod /\ \E new : Sends(k, new)
  BY <1>1, BusAssumption, ProbeAllSends
<1>4. ProbesLeft' \in Nat /\ ProbesLeft = ProbesLeft' + k
  BY <1>1, <1>2, ProbesCount
<1> HIDE DEF k
<1>5. /\ Clocks'
      /\ \A u \in Nodes : Awaiting(hub'[u]) => Chances(u, q)' \subseteq Chances(u, q)
  BY <1>1, <1>2, CalmChances DEF Calm
<1>6. ASSUME NEW v \in Nodes, Awaiting(hub[v])
      PROVE  Age(hub[v].pending.num) + k < NumMod
  <2>1. /\ Age(hub[v].pending.num) + Cardinality(Chances(v, q)) + ProbesLeft + 1 < NumMod
        /\ Age(hub[v].pending.num) \in Nat /\ Cardinality(Chances(v, q)) \in Nat
        /\ NumMod \in Nat
    BY <1>6, RoomNow DEF HasRoom
  <2> QED
    BY <1>3, <1>4, <2>1
<1>7. requests' \subseteq Frame
  BY <1>1 DEF RestOK
<1>8. /\ NumbersFree
      /\ \A v \in Nodes : \A p \in Numbers :
           Awaiting(hub[v]) /\ p = hub[v].pending.num => Age(p)' = Age(p) + k
  BY <1>1, <1>3, <1>6, <1>7, NumbersAge
<1>9. ASSUME NEW u \in Nodes, Awaiting(hub'[u]) PROVE HasRoom(u, q)'
  <2> DEFINE p == hub[u].pending.num
             C == Chances(u, q)
             D == Chances(u, q)'
             L == ProbesLeft
             M == ProbesLeft'
  <2>1. /\ HasRoom(u, q) /\ p \in Numbers /\ Awaiting(hub[u])
        /\ Age(p) \in Nat /\ Cardinality(C) \in Nat /\ NumMod \in Nat
    BY <1>2, <1>9, RoomNow
  <2>2. \A x \in Numbers : x = p => Age(x)' = Age(x) + k
    BY <1>8, <2>1
  <2>3. Age(hub[u].pending.num)' = Age(p) + k
    BY <1>2, <2>1, <2>2 DEF Age
  <2>4. D \in SUBSET C /\ IsFiniteSet(C)
    BY <1>5, <1>9, ChancesFinite
  <2>5. Age(p) + Cardinality(C) + L + 1 < NumMod
    BY <2>1 DEF HasRoom
  <2>6. M \in Nat /\ L = M + k
    BY <1>4
  <2> HIDE DEF C, D, p, L, M
  <2>7. Cardinality(D) <= Cardinality(C) /\ Cardinality(D) \in Nat
    BY <2>4, FS_Subset, FS_CardinalityType
  <2>8. Age(p) + k + Cardinality(D) + M + 1 < NumMod
    BY <1>3, <2>1, <2>5, <2>6, <2>7
  <2> QED
    BY <2>3, <2>8 DEF HasRoom, D, M
<1> QED
  BY <1>5, <1>8, <1>9 DEF Roomy, Room

\* Whoever is sent a frame while u's request is pending has one chance less afterwards: the
\* k-th becomes the one before it.
LEMMA ChanceSpent ==
  ASSUME HubOK, RestOK, HubOK', RestOK', NEW q, FewFor(q), NEW u \in Nodes,
         NEW v \in scan, v # u, Until(v) = 0,
         Until(v)' + Since(u)' >= FileReqTime + Since(u),
         \A w \in Nodes \ {u, v} : Until(w)' + Since(u)' >= Until(w) + Since(u),
         Late(u)' \subseteq Late(u),
         Since(u) >= Timeout => Since(u)' >= Timeout /\ v \notin Late(u)'
  PROVE  Cardinality(Chances(u, q)') + 1 <= Cardinality(Chances(u, q))
<1> DEFINE C == Chances(u, q)
           D == Chances(u, q)'
<1>1. /\ \A w \in Nodes : Until(w) \in Nat /\ Until(w)' \in Nat
      /\ Since(u) \in Int /\ Since(u)' \in Int /\ Timeout \in Nat /\ Timeout > 0
      /\ FileReqTime \in Nat \ {0} /\ MaxLag \in Nat /\ v \in Nodes
      /\ q \in Nat /\ q * FileReqTime >= Timeout + MaxLag
  BY ClockTypes, NextClockTypes, Visited, TimingAssumption DEF FewFor
<1>2. q > 0
  <2>1. 0 * FileReqTime = 0
    BY <1>1
  <2> QED
    BY <1>1, <2>1
<1>3. -MaxLag <= Since(u)
  BY ClockTypes DEF Since
<1>4. IsFiniteSet(C) /\ Cardinality(C) \in Nat
  BY <1>1, ChancesFinite
<1>5. ASSUME NEW s \in D
      PROVE  \E w \in Nodes \ {u}, k \in 0 .. q :
               /\ s = <<w, k>>
               /\ IF k < q THEN Until(w)' + k * FileReqTime + Since(u)' < Timeout
                           ELSE w \in Late(u)'
  BY <1>5 DEF Chances
<1>6. ASSUME NEW w \in Nodes \ {u}, NEW k \in 0 .. q,
             IF k < q THEN Until(w) + k * FileReqTime + Since(u) < Timeout
                      ELSE w \in Late(u)
      PROVE  <<w, k>> \in C
  BY <1>6 DEF Chances
<1> SUFFICES Cardinality(D) + 1 <= Cardinality(C)
  OBVIOUS
<1> HIDE DEF C, D
<1>7. ASSUME NEW x \in C, NEW f \in Injection(D, C \ {x})
      PROVE  Cardinality(D) + 1 <= Cardinality(C)
  <2>1. /\ IsFiniteSet(C \ {x}) /\ Cardinality(C \ {x}) = Cardinality(C) - 1
    BY <1>4, <1>7, FS_RemoveElement
  <2>2. IsFiniteSet(D) /\ Cardinality(D) <= Cardinality(C) - 1
    BY <1>7, <2>1, FS_Injection
  <2>3. Cardinality(D) \in Nat
    BY <2>2, FS_CardinalityType
  <2> QED
    BY <1>4, <2>2, <2>3
<1>8. CASE Since(u) < Timeout
  <2> DEFINE Before(s) == IF s[1] = v /\ s[2] < q THEN <<v, s[2] + 1>> ELSE s
             f == [s \in D |-> Before(s)]
             x == <<v, 0>>
  <2>1. x \in C
    <3>1. Until(v) + 0 * FileReqTime + Since(u) < Timeout
      BY <1>1, <1>8
    <3> QED
      BY <1>1, <1>2, <1>6, <3>1
  <2>2. ASSUME NEW w \in Nodes \ {u}, NEW k \in 0 .. q, <<w, k>> \in D
        PROVE  /\ Before(<<w, k>>) \in C \ {x}
               /\ w = v => \/ k < q - 1 /\ Before(<<w, k>>) = <<v, k + 1>>
                           \/ k = q /\ Before(<<w, k>>) = <<v, q>>
               /\ w # v => Before(<<w, k>>) = <<w, k>>
    <3>1. IF k < q THEN Until(w)' + k * FileReqTime + Since(u)' < Timeout
                   ELSE w \in Late(u)'
      BY <1>5, <2>2
    <3>2. k * FileReqTime \in Nat /\ (k + 1) * FileReqTime = k * FileReqTime + FileReqTime
      BY <1>1
    <3>3. CASE w # v /\ k < q
      <4>1. Until(w) + k * FileReqTime + Since(u) < Timeout
        BY <1>1, <3>1, <3>2, <3>3
      <4>2. <<w, k>> \in C
        BY <1>6, <3>3, <4>1
      <4> QED
        BY <3>3, <4>2
    <3>4. CASE w # v /\ ~ (k < q)
      <4>1. <<w, k>> \in C
        BY <1>6, <3>1, <3>4
      <4> QED
        BY <3>4, <4>1
    <3>5. CASE w = v /\ k < q
      <4>1. Until(v) + (k + 1) * FileReqTime + Since(u) < Timeout
        BY <1>1, <3>1, <3>2, <3>5
      <4>2. k + 1 # q
        BY <1>1, <1>3, <4>1
      <4>3. k + 1 \in 0 .. q /\ k + 1 < q
        BY <1>1, <3>5, <4>2
      <4>4. <<v, k + 1>> \in C
        BY <1>1, <1>6, <4>1, <4>3
      <4>5. <<v, k + 1>> # x
        BY <4>3
      <4>6. Before(<<w, k>>) = <<v, k + 1>> /\ k < q - 1
        BY <1>1, <3>5, <4>3
      <4> QED
        BY <3>5, <4>4, <4>5, <4>6
    <3>6. CASE w = v /\ ~ (k < q)
      <4>1. <<v, q>> \in C /\ k = q
        BY <1>1, <1>6, <3>1, <3>6
      <4>2. <<v, q>> # x
        BY <1>2
      <4> QED
        BY <3>6, <4>1, <4>2
    <3> QED
      BY <3>3, <3>4, <3>5, <3>6
  <2> HIDE DEF x
  <2>3. f \in [D -> C \ {x}]
    <3> SUFFICES ASSUME NEW s \in D PROVE Before(s) \in C \ {x}
      OBVIOUS
    <3>1. PICK w \in Nodes \ {u}, k \in 0 .. q : s = <<w, k>>
      BY <1>5
    <3> HIDE DEF Before
    <3> QED
      BY <2>2, <3>1
  <2>4. ASSUME NEW s \in D, NEW t \in D, Before(s) = Before(t) PROVE s = t
    <3>1. PICK w \in Nodes \ {u}, k \in 0 .. q : s = <<w, k>>
      BY <1>5
    <3>2. PICK y \in Nodes \ {u}, l \in 0 .. q : t = <<y, l>>
      BY <1>5
    <3>3. /\ w = v => \/ k < q - 1 /\ Before(s) = <<v, k + 1>>
                      \/ k = q /\ Before(s) = <<v, q>>
          /\ w # v => Before(s) = <<w, k>>
      BY <2>2, <3>1
    <3>4. /\ y = v => \/ l < q - 1 /\ Before(t) = <<v, l + 1>>
                      \/ l = q /\ Before(t) = <<v, q>>
          /\ y # v => Before(t) = <<y, l>>
      BY <2>2, <3>2
    <3> HIDE DEF Before
    <3> QED
      BY <1>1, <2>4, <3>1, <3>2, <3>3, <3>4
  <2>5. f \in Injection(D, C \ {x})
    <3> HIDE DEF Before
    <3> QED
      BY <2>3, <2>4 DEF Injection, IsInjective
  <2> HIDE DEF f
  <2> QED
    BY <1>7, <2>1, <2>5
<1>9. CASE Since(u) >= Timeout
  <2> DEFINE x == <<v, q>>
  <2>1. x \in C
    <3>1. v \in Late(u)
      BY <1>9 DEF Late, Idle
    <3> QED
      BY <1>1, <1>6, <3>1
  <2>2. ASSUME NEW s \in D PROVE s \in C \ {x}
    <3>1. PICK w \in Nodes \ {u}, k \in 0 .. q :
            /\ s = <<w, k>>
            /\ IF k < q THEN Until(w)' + k * FileReqTime + Since(u)' < Timeout
                        ELSE w \in Late(u)'
      BY <1>5
    <3>2. k * FileReqTime \in Nat
      BY <1>1
    <3>3. k = q /\ w \in Late(u)' /\ w # v
      BY <1>1, <1>9, <3>1, <3>2
    <3> QED
      BY <1>1, <1>6, <3>1, <3>3
  <2> HIDE DEF x
  <2>3. D \in SUBSET (C \ {x})
    BY <2>2
  <2>4. IsFiniteSet(C \ {x}) /\ Cardinality(C \ {x}) = Cardinality(C) - 1
    BY <1>4, <2>1, FS_RemoveElement
  <2>5. IsFiniteSet(D) /\ Cardinality(D) <= Cardinality(C) - 1
    BY <2>3, <2>4, FS_Subset
  <2>6. Cardinality(D) \in Nat
    BY <2>5, FS_CardinalityType
  <2> QED
    BY <1>4, <2>5, <2>6
<1> QED
  BY <1>1, <1>8, <1>9

\* What an iteration for v, the next call of which is in next ticks, does to the clocks of u
\* and of the others, and to the chances of those that u waits with.
Elapses(u, v, next) ==
  /\ hub'[u] = hub[u] /\ Since(u)' >= Since(u)
  /\ Awaiting(hub[u]) => Late(u)' \subseteq Late(u)
  /\ Awaiting(hub[u]) /\ Since(u) >= Timeout =>
       Since(u)' >= Timeout /\ v \notin Late(u)'
  /\ Awaiting(hub[u]) /\ ~ Idle' /\ Since(u)' >= Timeout => u \in scan'
  /\ \A w \in Nodes \ {u, v} : Until(w)' + Since(u)' >= Until(w) + Since(u)
  /\ Due(v) => Until(v) = 0 /\ Until(v)' + Since(u)' >= next + Since(u)
  /\ next = hub[v].wait + lag => Until(v)' + Since(u)' >= Until(v) + Since(u)

\* What it does to the request that is pending with v and outlasts it.
Lasts(v, d, e) ==
  /\ e.pending = d.pending
  /\ ~ Idle' => Since(v)' < Timeout
  /\ d.pending = hub[v].pending =>
       /\ \A w \in Nodes \ {v} : Until(w)' + Since(v)' >= Until(w) + Since(v)
       /\ Late(v)' \subseteq Late(v)

\* What an iteration for v does to the clocks, d being what the switch leaves: those of the
\* others move on only with the end of the pass.
LEMMA VisitClocks ==
  ASSUME HubOK, RestOK, HubOK', RestOK', Clocks, NEW v \in scan, IterationFrame(v),
         NEW d, NEW next \in Int, NEW e, Checked(d, next, lag, e),
         hub' = [hub EXCEPT ![v] = e], d.pending.age \in Int
  PROVE  /\ hub'[v] = e /\ v \in Nodes
         /\ \A u \in Nodes \ {v} : Elapses(u, v, next)
         /\ Awaiting(e) => Lasts(v, d, e)
<1>1. /\ \A u \in Nodes : /\ hub[u].pending.age \in Nat /\ hub[u].wait \in Int
                          /\ Since(u) \in Int /\ Until(u) \in Nat
                          /\ Since(u)' \in Int /\ Until(u)' \in Nat
      /\ lag \in Nat /\ lag' \in Nat /\ Timeout \in Nat /\ v \in Nodes
  BY ClockTypes, NextClockTypes, Visited
<1>2. hub'[v] = e /\ \A u \in Nodes \ {v} : hub'[u] = hub[u]
  BY <1>1 DEF HubOK
<1>3. /\ scan' = scan \ {v} /\ scan \subseteq Nodes /\ ~ Idle
      /\ IF Idle' THEN lag' = 0 ELSE lag' = lag
  BY DEF IterationFrame, RestOK, Known, Idle
<1>4. e.wait = next - lag
  BY DEF Checked
<1>5. Awaiting(e) => e.pending = d.pending /\ d.pending.age - lag < Timeout
  BY DEF Checked, Awaiting, NoPending
<1>6. ASSUME NEW u \in Nodes, hub'[u].pending = hub[u].pending
      PROVE  /\ Since(u)' = Since(u) + (lag - lag')
             /\ \A w \in Nodes \ {v} : Until(w)' + Since(u)' >= Until(w) + Since(u)
  <2>1. Since(u)' = Since(u) + (lag - lag')
    BY <1>1, <1>6 DEF Since
  <2>2. ASSUME NEW w \in Nodes \ {v} PROVE Until(w)' >= Until(w) - (lag - lag')
    BY <1>1, <1>2, <1>3 DEF Until
  <2> QED
    BY <1>1, <2>1, <2>2
<1>7. ASSUME NEW u \in Nodes \ {v}
      PROVE  Elapses(u, v, next)
  <2>1. /\ hub'[u] = hub[u] /\ Since(u)' = Since(u) + (lag - lag')
        /\ \A w \in Nodes \ {u, v} : Until(w)' + Since(u)' >= Until(w) + Since(u)
    BY <1>2, <1>6
  <2>2. Since(u)' >= Since(u) /\ (~ Idle' => Since(u)' = Since(u))
    BY <1>1, <1>3, <2>1
  <2>3. ASSUME Awaiting(hub[u]), Since(u) >= Timeout
        PROVE  u \in scan' /\ ~ Idle' /\ Since(u)' >= Timeout
    <3>1. u \in scan
      BY <1>3, <2>3 DEF Clocks
    <3> QED
      BY <1>1, <1>3, <2>2, <2>3, <3>1 DEF Idle
  <2>4. Awaiting(hub[u]) /\ Since(u) >= Timeout => v \notin Late(u)'
    BY <1>3, <2>3 DEF Late
  <2>5. Awaiting(hub[u]) => Late(u)' \subseteq Late(u)
    BY <1>1, <1>3, <2>3 DEF Late
  <2>6. Awaiting(hub[u]) /\ ~ Idle' /\ Since(u)' >= Timeout => u \in scan'
    BY <2>2, <2>3
  <2>7. Until(v)' >= next - (lag - lag')
    BY <1>1, <1>2, <1>3, <1>4 DEF Until
  <2>8. Until(v)' + Since(u)' >= next + Since(u)
    BY <1>1, <2>1, <2>7
  <2>9. Due(v) => Until(v) = 0
    BY <1>1 DEF Due, Until
  <2>10. next = hub[v].wait + lag => Until(v)' + Since(u)' >= Until(v) + Since(u)
    <3>1. next = hub[v].wait + lag => Until(v)' >= Until(v) - (lag - lag')
      BY <1>1, <1>2, <1>3, <1>4 DEF Until
    <3> QED
      BY <1>1, <2>1, <3>1
  <2> QED
    BY <2>1, <2>2, <2>3, <2>4, <2>5, <2>6, <2>8, <2>9, <2>10 DEF Elapses
<1>8. ASSUME Awaiting(e)
      PROVE  Lasts(v, d, e)
  <2>1. e.pending = d.pending /\ d.pending.age - lag < Timeout
    BY <1>5, <1>8
  <2>2. Since(v)' = d.pending.age - lag'
    BY <1>2, <2>1 DEF Since
  <2>3. ~ Idle' => Since(v)' < Timeout
    BY <1>3, <2>1, <2>2
  <2>4. ASSUME d.pending = hub[v].pending
        PROVE  /\ \A w \in Nodes \ {v} : Until(w)' + Since(v)' >= Until(w) + Since(v)
               /\ Late(v)' \subseteq Late(v)
    <3>1. Since(v) < Timeout
      BY <2>1, <2>4 DEF Since
    <3>2. Late(v) = Nodes \ {v}
      BY <1>1, <3>1 DEF Late
    <3>3. Late(v)' \subseteq Nodes \ {v}
      BY <1>3 DEF Late
    <3> QED
      BY <1>1, <1>2, <1>6, <2>1, <2>4, <3>2, <3>3
  <2> QED
    BY <2>1, <2>3, <2>4 DEF Lasts
<1> QED
  BY <1>1, <1>2, <1>7, <1>8

\* The number of a request that stays pending while another device is sent a frame.
LEMMA RoomSpent ==
  ASSUME NEW q \in Nat, RestOK, NEW u \in Nodes, HasRoom(u, q), hub[u].pending.num \in Numbers,
         hub'[u] = hub[u], \A p \in Numbers : p = hub[u].pending.num => Age(p)' = Age(p) + 1,
         probes' = probes,
         Cardinality(Chances(u, q)') + 1 <= Cardinality(Chances(u, q)),
         Cardinality(Chances(u, q)') \in Nat
  PROVE  HasRoom(u, q)'
<1> DEFINE p == hub[u].pending.num
           c == Cardinality(Chances(u, q))
           d == Cardinality(Chances(u, q)')
           L == ProbesLeft
<1>1. /\ Age(p) + c + L + 1 < NumMod /\ d + 1 <= c /\ c \in Nat /\ d \in Nat
      /\ L \in Nat /\ ProbesLeft' = L
  BY ChancesFinite, ProbesCount DEF HasRoom
<1>2. Age(p) \in Nat /\ NumMod \in Nat
  BY AgeIs, BusAssumption DEF RestOK, Numbers
<1>3. Age(hub[u].pending.num)' = Age(p) + 1
  BY DEF Age
<1> HIDE DEF p, c, d, L
<1>4. Age(p) + 1 + d + L + 1 < NumMod
  BY <1>1, <1>2
<1> QED
  BY <1>1, <1>3, <1>4 DEF HasRoom, d

\* There is room for a frame that has just been sent.
LEMMA FreshRoom ==
  ASSUME NEW q \in Nat, FewFor(q), RestOK, NEW u \in Nodes, probes' = probes,
         Age(hub[u].pending.num)' = 0
  PROVE  HasRoom(u, q)'
<1> DEFINE d == Cardinality(Chances(u, q)')
           m == (Cardinality(Nodes) - 1) * (q + 1)
           k == MaxProbeAll * (MaxDeviceCount - 1)
           L == ProbesLeft
<1>1. d \in Nat /\ d <= m
  BY ChancesFinite
<1>2. L \in Nat /\ L <= k /\ ProbesLeft' = L
  BY ProbesCount
<1>3. m \in Nat /\ k \in Nat /\ NumMod \in Nat
  <2>1. Cardinality(Nodes) - 1 \in Nat /\ q + 1 \in Nat
    <3>1. Cardinality(Nodes) \in Nat \ {0}
      BY PairsFinite
    <3> QED
      BY <3>1
  <2>2. MaxProbeAll \in Nat /\ MaxDeviceCount - 1 \in Nat /\ NumMod \in Nat
    BY BusAssumption
  <2> QED
    BY <2>1, <2>2
<1>4. m + k + 1 < NumMod
  BY DEF FewFor
<1> HIDE DEF d, m, k, L
<1>5. 0 + d + L + 1 < NumMod
  BY <1>1, <1>2, <1>3, <1>4
<1> QED
  BY <1>2, <1>5 DEF HasRoom, d

LEMMA VisitRoom ==
  ASSUME NEW q \in Nat, FewFor(q), NumbersInv(q), OrderInv', NEW v \in scan, Visit(v)
  PROVE  Roomy(q)
<1>1. /\ HubOK /\ RestOK /\ HubOK' /\ RestOK' /\ Clocks /\ OrderInv /\ BusOK
      /\ requests' \subseteq Frame
  BY DEF NumbersInv, OrderInv, IInv, RestOK
<1>2. PICK d, next, e :
        /\ Switch(v, d, next) /\ Checked(d, next, lag, e)
        /\ DeviceOK(e) /\ PendingOK(e) /\ hub' = [hub EXCEPT ![v] = e]
  BY <1>1, VisitSwitches
<1>3. /\ IterationFrame(v) /\ probes' = probes /\ next \in Int /\ d.pending.age \in Int
      /\ Silent(v, d, next) \/ Asking(v, d, next)
  BY <1>1, <1>2, VisitSwitches, DeviceTypes DEF Switch, IterationFrame
<1>4. hub'[v] = e /\ v \in Nodes
  BY <1>1, <1>2, <1>3, VisitClocks
<1>5. ASSUME NEW u \in Nodes \ {v}
      PROVE  Elapses(u, v, next)
  BY <1>1, <1>2, <1>3, VisitClocks
<1>6. Awaiting(e) => Lasts(v, d, e)
  BY <1>1, <1>2, <1>3, VisitClocks
<1>7. /\ \A u \in Nodes : /\ Since(u) \in Int /\ Until(u) \in Nat
                          /\ Since(u)' \in Int /\ Until(u)' \in Nat
      /\ Timeout \in Nat /\ FileReqTime \in Nat /\ StepTime \in Nat
  BY <1>1, ClockTypes, NextClockTypes, TimingAssumption
<1>8. Clocks'
  <2>1. ASSUME NEW u \in Nodes, Awaiting(hub'[u]), ~ Idle', Since(u)' >= Timeout
        PROVE  u \in scan'
    <3>1. CASE u = v
      BY <1>4, <1>6, <1>7, <2>1, <3>1 DEF Lasts
    <3>2. CASE u # v
      BY <1>5, <2>1, <3>2 DEF Elapses
    <3> QED
      BY <3>1, <3>2
  <2>2. ASSUME NEW u \in Nodes, hub'[u].state = "Absent" PROVE hub'[u].wait <= 0
    <3>1. CASE u = v
      <4>1. PICK x : StepsTo(hub[v], x) /\ hub' = [hub EXCEPT ![v] = x]
        BY <1>1, VisitOK DEF VisitEffect
      <4>2. hub'[v] = x /\ hub[v].state # "Absent"
        BY <1>1, <1>4, <4>1 DEF HubOK, RestOK, Known
      <4> QED
        BY <2>2, <3>1, <4>1, <4>2 DEF StepsTo, LifeStep
    <3>2. CASE u # v
      BY <1>1, <1>5, <2>2, <3>2 DEF Clocks, Elapses
    <3> QED
      BY <3>1, <3>2
  <2> QED
    BY <2>1, <2>2 DEF Clocks
<1>9. CASE Silent(v, d, next)
  <2>1. /\ UNCHANGED <<messageNumber, requests>> /\ d.pending = hub[v].pending
        /\ next = hub[v].wait + lag \/ (Due(v) /\ next \in Nat)
    BY <1>3, <1>7, <1>9 DEF Silent
  <2>2. ASSUME NEW u \in Nodes, Awaiting(hub'[u]) PROVE HasRoom(u, q)'
    <3>1. /\ Awaiting(hub[u]) /\ hub'[u].pending = hub[u].pending
      BY <1>4, <1>5, <1>6, <2>1, <2>2 DEF Awaiting, Elapses, Lasts
    <3>2. /\ Late(u)' \subseteq Late(u)
          /\ \A w \in Nodes \ {u} : Until(w)' + Since(u)' >= Until(w) + Since(u)
      <4>1. CASE u = v
        BY <1>4, <1>6, <2>1, <2>2, <4>1 DEF Lasts
      <4>2. CASE u # v
        <5>1. Until(v)' + Since(u)' >= Until(v) + Since(u)
          BY <1>4, <1>5, <1>7, <2>1, <4>2 DEF Elapses
        <5> QED
          BY <1>5, <3>1, <4>2, <5>1 DEF Elapses
      <4> QED
        BY <4>1, <4>2
    <3>3. Chances(u, q)' \subseteq Chances(u, q)
      BY <1>1, <3>2, ChancesPass
    <3> QED
      BY <1>1, <1>3, <2>1, <3>1, <3>3, RoomNow, RoomKept
  <2>3. NumbersFree
    BY <2>1 DEF NumbersFree
  <2> QED
    BY <1>8, <2>2, <2>3 DEF Roomy, Room
<1>10. CASE Asking(v, d, next)
  <2>1. PICK dst \in Nat, type \in MessageType, arg \in Nat :
          /\ Due(v) /\ Pause(type) <= next /\ Transmit(dst, type, arg)
          /\ d.pending = Asked(type)
    BY <1>10 DEF Asking
  <2>2. 1 \in 0 .. NumMod /\ Sends(1, Frames(dst, type, arg))
    BY <1>1, <2>1, TransmitSends
  <2>3. \A u \in Nodes : Awaiting(hub[u]) => Age(hub[u].pending.num) + 1 < NumMod
    BY RoomNow
  <2>4. /\ NumbersFree
        /\ \A u \in Nodes : \A p \in Numbers :
             Awaiting(hub[u]) /\ p = hub[u].pending.num => Age(p)' = Age(p) + 1
    BY <1>1, <2>2, <2>3, NumbersAge
  <2>5. FileReqTime <= next
    BY <1>3, <1>7, <2>1, TimesAreInt DEF Pause
  <2>6. ASSUME NEW u \in Nodes \ {v}, Awaiting(hub'[u]) PROVE HasRoom(u, q)'
    <3>1. Awaiting(hub[u]) /\ hub'[u] = hub[u]
      BY <1>5, <2>6 DEF Elapses
    <3>2. Until(v)' + Since(u)' >= FileReqTime + Since(u)
      BY <1>3, <1>4, <1>5, <1>7, <2>1, <2>5 DEF Elapses
    <3>3. Cardinality(Chances(u, q)') + 1 <= Cardinality(Chances(u, q))
      BY <1>1, <1>5, <2>1, <3>1, <3>2, ChanceSpent DEF Elapses
    <3>4. Cardinality(Chances(u, q)') \in Nat
      BY ChancesFinite
    <3> QED
      BY <1>1, <1>3, <2>4, <3>1, <3>3, <3>4, RoomNow, RoomSpent
  <2>7. ASSUME Awaiting(hub'[v]) PROVE HasRoom(v, q)'
    <3>1. hub'[v].pending.num = NextNumber
      BY <1>4, <1>6, <2>1, <2>7 DEF Asked, Lasts
    <3>2. Age(hub[v].pending.num)' = 0
      BY <1>1, <2>2, <3>1, AskedYoungest DEF Age
    <3>3. HasRoom(v, q)'
      BY <1>1, <1>3, <1>4, <3>2, FreshRoom
    <3> QED
      BY <3>3
  <2> QED
    BY <1>8, <2>4, <2>6, <2>7 DEF Roomy, Room
<1> QED
  BY <1>3, <1>9, <1>10

-----------------------------------------------------------------------------
(* The theorems.                                                            *)

LEMMA InitNumbers ==
  ASSUME NEW q, Init
  PROVE  NumbersInv(q)
<1>1. OrderInv
  BY InitOrder
<1>2. \A u \in Nodes : ~ Awaiting(hub[u]) /\ hub[u].wait <= 0
  BY TimingAssumption DEF Init, AbsentDevice, NewDevice, NoPending, Awaiting
<1> QED
  BY <1>1, <1>2 DEF NumbersInv, Clocks, Room

LEMMA StepNumbers ==
  ASSUME NEW q, FewFor(q), NumbersInv(q), [Next]_vars
  PROVE  NumbersInv(q)' /\ NumbersFree
<1>1. q \in Nat /\ HubOK /\ RestOK /\ OrderInv'
  BY StepOrder DEF FewFor, NumbersInv, OrderInv, IInv
<1>2. Roomy(q)
  BY <1>1, WhoSends, CalmRoom, ProbeRoom, TickRoom, BeginRoom, VisitRoom
<1> QED
  BY <1>1, <1>2 DEF Roomy, NumbersInv

\* With few devices no number is given out again too early, whatever the bus loses or delays
\* and however long a pass of process takes (DeviceHub.hpp:205-257): a request is dropped
\* 200 ms after it was sent, by the first pass that comes to its device after that, and
\* meanwhile each other device is sent a frame each 50 ms at most, and probeAll is not called
\* too often for the 256 numbers.
THEOREM NumbersFreeFew == Few => (Spec => NumbersStayFree)
<1> SUFFICES ASSUME Few PROVE Spec => NumbersStayFree
  OBVIOUS
<1>1. PICK q : FewFor(q)
  BY DEF Few
<1>2. Init => NumbersInv(q)
  BY InitNumbers
<1>3. NumbersInv(q) /\ [Next]_vars => NumbersInv(q)'
  BY <1>1, StepNumbers
<1>4. NumbersInv(q) /\ [Next]_vars => NumbersFree
  BY <1>1, StepNumbers
<1> QED
  BY <1>2, <1>3, <1>4, PTL DEF Spec, NumbersStayFree

\* So on such a bus every answer fits: what is taken for the answer to a request answers it.
COROLLARY AnswersFitFew == Few => (Spec => []AnswersFit)
<1> SUFFICES ASSUME Few PROVE Spec => []AnswersFit
  OBVIOUS
<1>1. Spec => NumbersStayFree
  BY NumbersFreeFew
<1> QED
  BY <1>1, AnswersFitCorrect, PTL

=============================================================================
