--------------------------- MODULE Timely_proofs ---------------------------
(***************************************************************************)
(* What the hub promises on a good bus: one that loses nothing and is      *)
(* never late, with a hub that is quick and has numbers enough.  There an  *)
(* answer reaches the hub in the tick in which the request was sent, and a *)
(* timeout means that the request did not go to its device.  Only the      *)
(* requests for information may go elsewhere (temporaryUid), and only as   *)
(* many of them as there are other devices to be found.                    *)
(***************************************************************************)
EXTENDS FrameNumbers_proofs

\* The bus and the hub are good: passes of process take no time (MaxLag), and a device is not
\* given up for fewer timeouts than there are devices.
Smooth == Timely /\ ~ Lossy /\ MaxLag = 0 /\ Few /\ Cardinality(Nodes) <= LostLimit

\* A frame with this number, or the answer to it, is on its way to or from n.
Carried(n, k) ==
  \/ \E f \in requests : f.to = n /\ f.num = k /\ Parsable(f)
  \/ \E r \in replies : r.from = n /\ r.num = k

\* What is awaited of n was not sent to n.
Missing(n) == Awaiting(hub[n]) /\ ~ Carried(n, hub[n].pending.num)

\* The other devices the hub has yet to hear of.
Unheard(n) == {m \in Nodes \ {n} : hub[m].state = "Absent"}

\* The information requests of n that may still go to another device.
Strays(n) == Cardinality(Unheard(n)) + (IF temporaryUid \in {NoUid, n} THEN 0 ELSE 1)

\* The timeouts that were counted for n, that is due and that may come.
Owed(n) == hub[n].timeouts + (IF Missing(n) THEN 1 ELSE 0) + Strays(n)

\* The next chunk of a transfer has data.
Loadable(d) ==
  d.state = "FileTransfer" /\ d.file.state \in {"Request", "Sending"} =>
    d.file.off < d.file.total /\ d.file.chunk \in 1 .. ByteMod - 1

\* n, which stays switched on, is served.
Served(n) ==
  /\ n \in alive /\ hub[n].state # "Lost" /\ Loadable(hub[n])
  /\ Awaiting(hub[n]) /\ hub[n].pending.age # 0 => Missing(n)
  /\ Missing(n) => hub[n].pending.type = "DeviceInfoReq"
  /\ Owed(n) < Cardinality(Nodes)

\* Each type of answer answers one type of request, but for the Ack.
AnswersTyped ==
  \A r \in replies :
    /\ r.type \in {"Ack", "BlobAnswer", "DeviceInfoAnw", "HealthAnw"}
    /\ r.type = "BlobAnswer" => r.re = "BlobRequest"
    /\ r.type = "DeviceInfoAnw" => r.re = "DeviceInfoReq"
    /\ r.type = "HealthAnw" => r.re = "HealthReq"

Stable == Nodes \ Mortal

TimelyInv(q) ==
  NumbersInv(q) /\ PendingTold /\ AnswersTyped /\ \A n \in Stable : Served(n)

-----------------------------------------------------------------------------
(* Chunks have data.                                                        *)

\* A file that is sent from the start.
LEMMA StartedLoadable ==
  ASSUME ~ Lossy, NEW d, Started(d.file)
  PROVE  Loadable(d)
<1>1. PICK f \in Files : d.file.total = f.total /\ d.file.chunk = f.chunk
  BY DEF Started
<1>2. f.total > 0 /\ f.chunk \in 1 .. ByteMod - 1
  BY BusAssumption
<1> QED
  BY <1>1, <1>2 DEF Loadable, Started

\* A chunk that is neither empty nor too long for its length byte has as many bytes as it
\* says.
LEMMA ChunkHasData ==
  ASSUME NEW c \in FileTransferContext, c.off < c.total, c.chunk \in 1 .. ByteMod - 1
  PROVE  ChunkLength(c) # 0
<1>1. c.total - c.off \in Nat \ {0} /\ c.chunk \in Nat \ {0} /\ ByteMod \in Nat \ {0}
  BY LimitAssumption DEF FileTransferContext
<1>2. PICK k \in Nat : k = Lower(c.chunk, c.total - c.off)
  BY <1>1 DEF Lower
<1>3. k \in 1 .. ByteMod - 1
  BY <1>1, <1>2 DEF Lower
<1>4. k % ByteMod = k
  BY <1>1, <1>3
<1> QED
  BY <1>2, <1>3, <1>4 DEF ChunkLength

\* What the switch makes of a device without sending.
LEMMA SettlesLoadable ==
  ASSUME NEW u, NEW o, o = hub[u], DeviceOK(o), Loadable(o), ~ Lossy, NEW d, Settles(u, d)
  PROVE  Loadable(d)
<1> DEFINE c == Forget(o.file)
<1>1. o.file \in FileTransferContext /\ o.file.off <= o.file.total
  BY DEF DeviceOK, DeviceWrapper
<1>2. /\ c.off = o.file.off /\ c.total = o.file.total /\ c.chunk = o.file.chunk
      /\ c.state = o.file.state /\ Cancelled(c).state = "Cancel"
  BY <1>1, ChunkOK DEF Cancelled, FileTransferContext, Forget
<1>3. CASE d.state = o.state /\ d.file = o.file
  BY <1>3 DEF Loadable
<1>4. CASE d.state = "Probing" \/ d.state = "Running"
  BY <1>4 DEF Loadable
<1>5. CASE d.state = "FileTransfer" /\ Started(d.file)
  BY <1>5, StartedLoadable
<1>6. CASE o.state = "FileTransfer" /\ d.state = "FileTransfer" /\ d.file = c
  BY <1>2, <1>6 DEF Loadable
<1>7. CASE d.file = Advanced(c) /\ Advanced(c).state = "Finalize"
  BY <1>7 DEF Loadable
<1>8. CASE d.file = Cancelled(c)
  BY <1>2, <1>8 DEF Loadable
<1> QED
  BY <1>3, <1>4, <1>5, <1>6, <1>7, <1>8 DEF Settles

\* What it makes of one it sends a frame to.
LEMMA IssuesLoadable ==
  ASSUME NEW o, DeviceOK(o), Loadable(o), NEW d, NEW type, NEW arg, Issues(o, d, type, arg)
  PROVE  Loadable(d) /\ (type = "FileWriteChunk" => arg # 0)
<1> DEFINE c == Forget(o.file)
<1>1. o.file \in FileTransferContext /\ o.file.off <= o.file.total
  BY DEF DeviceOK, DeviceWrapper
<1>2. /\ c \in FileTransferContext
      /\ c.off = o.file.off /\ c.total = o.file.total /\ c.chunk = o.file.chunk
      /\ c.state = o.file.state
  BY <1>1, ChunkOK
<1>3. CASE type # "FileWriteChunk"
  BY <1>3 DEF Issues, Loadable
<1>4. CASE type = "FileWriteChunk"
  <2>1. /\ o.state = "FileTransfer" /\ o.file.state = "Sending" /\ d.state = o.state
        /\ arg = ChunkLength(d.file)
        /\ \/ d.file = [o.file EXCEPT !.first = FALSE]
           \/ d.file = c
           \/ Advanced(c).state # "Finalize" /\ d.file = Advanced(c)
    BY <1>4 DEF Issues, FileTypes
  <2>2. o.file.off < o.file.total /\ o.file.chunk \in 1 .. ByteMod - 1
    BY <2>1 DEF Loadable
  <2>3. /\ d.file \in FileTransferContext /\ d.file.off < d.file.total
        /\ d.file.chunk \in 1 .. ByteMod - 1
    <3>1. CASE d.file = [o.file EXCEPT !.first = FALSE]
      BY <1>1, <2>2, <3>1 DEF FileTransferContext
    <3>2. CASE d.file = c
      BY <1>2, <2>2, <3>2
    <3>3. CASE Advanced(c).state # "Finalize" /\ d.file = Advanced(c)
      <4>1. /\ Advanced(c) \in FileTransferContext
            /\ Advanced(c).off <= Advanced(c).total
        BY <1>1, <1>2, ChunkOK
      <4>2. Advanced(c).off # Advanced(c).total /\ Advanced(c).chunk = c.chunk
        BY <1>2, <3>3 DEF Advanced, FileTransferContext
      <4> QED
        BY <1>2, <2>2, <3>3, <4>1, <4>2 DEF FileTransferContext
    <3> QED
      BY <2>1, <3>1, <3>2, <3>3
  <2>4. arg # 0
    BY <2>1, <2>3, ChunkHasData
  <2> QED
    BY <2>3, <2>4 DEF Loadable
<1> QED
  BY <1>3, <1>4

\* The timeout check.
LEMMA CheckedLoadable ==
  ASSUME NEW d, Loadable(d), NEW next, NEW k, NEW e, Checked(d, next, k, e)
  PROVE  Loadable(e)
<1>1. CASE e.state = d.state /\ e.file = d.file
  BY <1>1 DEF Loadable
<1>2. CASE TimesOut(d, e)
  BY <1>2 DEF TimesOut, Loadable
<1> QED
  BY <1>1, <1>2 DEF Checked

\* handleAck
LEMMA AckLoadable ==
  ASSUME ~ Lossy, NEW d, DeviceOK(d), PendingOK(d), Loadable(d), NEW code, NEW e,
         AckEffect(d, code, e)
  PROVE  Loadable(e)
<1>1. d.file \in FileTransferContext
  BY DEF DeviceOK, DeviceWrapper
<1>2. CASE e.state = d.state /\ e.file = d.file
  BY <1>2 DEF Loadable
<1>3. CASE e.state \in {"InfoRequest", "Running"}
  BY <1>3 DEF Loadable
<1>4. CASE e.state = "FileTransfer" /\ Started(e.file)
  BY <1>4, StartedLoadable
<1>5. CASE e.state = d.state /\ e.file = [d.file EXCEPT !.ack = code]
  BY <1>1, <1>5 DEF Loadable, FileTransferContext
<1>6. CASE /\ d.state = "FileTransfer" /\ d.pending.type = "FileWriteRequest"
           /\ e.state = d.state
           /\ e.file = [d.file EXCEPT !.state = IF code = "Ok" THEN "Sending" ELSE "Cancel"]
  <2>1. d.file.state = "Request"
    BY <1>1, <1>6 DEF PendingOK, MayAwait, MayAwaitAt, FileTransferContext
  <2> QED
    BY <1>1, <1>6, <2>1 DEF Loadable, FileTransferContext
<1> QED
  BY <1>2, <1>3, <1>4, <1>5, <1>6 DEF AckEffect

-----------------------------------------------------------------------------
(* Strays.                                                                  *)

LEMMA UnheardFinite ==
  ASSUME NEW n \in Nodes
  PROVE  /\ IsFiniteSet(Unheard(n)) /\ Cardinality(Unheard(n)) \in Nat
         /\ Cardinality(Unheard(n)) < Cardinality(Nodes) /\ Cardinality(Nodes) \in Nat
         /\ Strays(n) \in Nat
<1>1. IsFiniteSet(1 .. 254) /\ Nodes \in SUBSET (1 .. 254)
  <2>1. 1 \in Int /\ 254 \in Int
    OBVIOUS
  <2>2. IsFiniteSet(1 .. 254)
    BY <2>1, FS_Interval
  <2> QED
    BY <2>2, BusAssumption
<1>2. IsFiniteSet(Nodes)
  BY <1>1, FS_Subset
<1>3. IsFiniteSet(Nodes \ {n}) /\ Cardinality(Nodes \ {n}) = Cardinality(Nodes) - 1
  BY <1>2, FS_RemoveElement
<1>4. Unheard(n) \in SUBSET (Nodes \ {n})
  BY DEF Unheard
<1>5. /\ IsFiniteSet(Unheard(n))
      /\ Cardinality(Unheard(n)) <= Cardinality(Nodes \ {n})
  BY <1>3, <1>4, FS_Subset
<1>6. Cardinality(Unheard(n)) \in Nat /\ Cardinality(Nodes) \in Nat
  BY <1>2, <1>5, FS_CardinalityType
<1> QED
  BY <1>3, <1>5, <1>6 DEF Strays

\* None is gained when no device is forgotten, and none remembered but n.
LEMMA StraysKept ==
  ASSUME NEW n \in Nodes, Unheard(n)' \subseteq Unheard(n),
         temporaryUid' \in {temporaryUid, NoUid, n}
  PROVE  Strays(n)' <= Strays(n) /\ Strays(n)' \in Nat
<1> DEFINE U == Unheard(n)
           V == Unheard(n)'
<1>1. /\ IsFiniteSet(U) /\ Cardinality(U) \in Nat
  BY UnheardFinite
<1>2. V \in SUBSET U
  OBVIOUS
<1>3. Cardinality(V) <= Cardinality(U) /\ IsFiniteSet(V)
  BY <1>1, <1>2, FS_Subset
<1>4. Cardinality(V) \in Nat
  BY <1>3, FS_CardinalityType
<1>5. /\ Strays(n) = Cardinality(U) + (IF temporaryUid \in {NoUid, n} THEN 0 ELSE 1)
      /\ Strays(n)' = Cardinality(V) + (IF temporaryUid' \in {NoUid, n} THEN 0 ELSE 1)
  BY DEF Strays
<1> HIDE DEF U, V
<1> QED
  BY <1>1, <1>3, <1>4, <1>5

\* Nor when a device that is remembered was not known until then.
LEMMA StraysHeard ==
  ASSUME NEW n \in Nodes, NEW m \in Unheard(n), Unheard(n)' \subseteq Unheard(n) \ {m}
  PROVE  Strays(n)' <= Strays(n) /\ Strays(n)' \in Nat
<1> DEFINE U == Unheard(n)
           V == Unheard(n)'
<1>1. /\ IsFiniteSet(U) /\ Cardinality(U) \in Nat
  BY UnheardFinite
<1>2. IsFiniteSet(U \ {m}) /\ Cardinality(U \ {m}) = Cardinality(U) - 1
  BY <1>1, FS_RemoveElement
<1>3. V \in SUBSET (U \ {m})
  OBVIOUS
<1>4. Cardinality(V) <= Cardinality(U \ {m}) /\ IsFiniteSet(V)
  BY <1>2, <1>3, FS_Subset
<1>5. Cardinality(V) \in Nat
  BY <1>4, FS_CardinalityType
<1>6. /\ Strays(n) = Cardinality(U) + (IF temporaryUid \in {NoUid, n} THEN 0 ELSE 1)
      /\ Strays(n)' = Cardinality(V) + (IF temporaryUid' \in {NoUid, n} THEN 0 ELSE 1)
  BY DEF Strays
<1> HIDE DEF U, V
<1> QED
  BY <1>1, <1>2, <1>4, <1>5, <1>6

\* A device is forgotten by no step.
LEMMA UnheardShrinks ==
  ASSUME IInv, LifeMoves, NEW n
  PROVE  Unheard(n)' \subseteq Unheard(n)
<1> SUFFICES ASSUME NEW m \in Nodes, hub'[m].state = "Absent" PROVE hub[m].state = "Absent"
  BY DEF Unheard
<1>1. CASE hub'[m].state = hub[m].state
  BY <1>1
<1>2. ASSUME NEW u \in Nodes, NEW e, hub' = [hub EXCEPT ![u] = e],
             LifeStep(hub[u].state, Awaiting(hub[u]), e.state, Awaiting(e))
      PROVE  hub[m].state = "Absent"
  <2>1. hub'[u] = e /\ \A v \in Nodes \ {u} : hub'[v] = hub[v]
    BY <1>2 DEF IInv, HubOK
  <2>2. e.state = "Absent" => hub[u].state = "Absent"
    BY <1>2 DEF LifeStep
  <2> QED
    BY <2>1, <2>2
<1> QED
  BY <1>1, <1>2 DEF LifeMoves

-----------------------------------------------------------------------------
(* What is carried.                                                         *)

\* What is sent takes nothing off the bus that is not too old, and has numbers of its own.
LEMMA CarriedSends ==
  ASSUME RestOK, BusOK, NEW m \in 0 .. NumMod, NEW new, Sends(m, new),
         NEW n, NEW k \in Numbers, Age(k) + m < NumMod
  PROVE  Carried(n, k)' <=> Carried(n, k)
<1>1. /\ requests' = Recent(requests, m) \cup new /\ replies' = Recent(replies, m)
      /\ messageNumber' = After(m) /\ messageNumber \in Numbers
  BY DEF Sends, RestOK, Numbers
<1>2. ASSUME NEW f \in new, f.num = k PROVE FALSE
  <2>1. PICK i \in 1 .. m : k = After(i)
    BY <1>2 DEF Sends
  <2>2. m \in 1 .. NumMod
    BY <2>1
  <2>3. Age(k) + m >= NumMod
    BY <1>1, <2>1, <2>2, AgeOfNew
  <2>4. Age(k) \in Nat /\ NumMod \in Nat
    BY <1>1, AgeIs, BusAssumption DEF Numbers
  <2> QED
    BY <2>3, <2>4
<1>3. /\ \A f \in requests : f.num = k => f \in Recent(requests, m)
      /\ \A r \in replies : r.num = k => r \in Recent(replies, m)
  BY DEF Recent
<1>4. Recent(requests, m) \subseteq requests /\ Recent(replies, m) \subseteq replies
  BY DEF Recent
<1> QED
  BY <1>1, <1>2, <1>3, <1>4 DEF Carried, Parsable

\* A device answers what it receives, under the same number.
LEMMA CarriedReceives ==
  ASSUME NEW f \in requests, NEW code \in Codes, NodeReceive(f, code), NEW n, NEW k,
         \A g \in requests : g.to = n /\ g.num = k => g.type # "Ack"
  PROVE  Carried(n, k)' <=> Carried(n, k)
<1>1. f.type # "Ack" => \E a : a \in Reply(f.type, code)
  BY DEF Reply, ApplicationDecides
<1>2. /\ requests' = requests \ {f}
      /\ replies' = replies \cup
           {[from |-> f.to, type |-> a.type, num |-> f.num, code |-> a.code, re |-> f.type]
              : a \in Reply(f.type, code)}
      /\ Parsable(f)
  BY DEF NodeReceive
<1>3. ASSUME Carried(n, k) PROVE Carried(n, k)'
  <2>1. CASE f.to = n /\ f.num = k
    <3>1. PICK a : a \in Reply(f.type, code)
      BY <1>1, <2>1
    <3> DEFINE r == [from |-> f.to, type |-> a.type, num |-> f.num, code |-> a.code,
                     re |-> f.type]
    <3>2. r \in replies'
      BY <1>2, <3>1
    <3>3. r.from = n /\ r.num = k
      BY <2>1
    <3> HIDE DEF r
    <3> QED
      BY <3>2, <3>3 DEF Carried
  <2>2. CASE ~ (f.to = n /\ f.num = k)
    BY <1>2, <1>3, <2>2 DEF Carried, Parsable
  <2> QED
    BY <2>1, <2>2
<1>4. ASSUME Carried(n, k)' PROVE Carried(n, k)
  BY <1>2, <1>4 DEF Carried, Parsable
<1> QED
  BY <1>3, <1>4

-----------------------------------------------------------------------------
(* How n stays served.                                                      *)

\* The request that is pending with n does not change, nor its place on the bus.
SamePending(n) ==
  /\ Awaiting(hub[n]) /\ hub'[n].pending.num = hub[n].pending.num
  /\ hub'[n].pending.type = hub[n].pending.type
  /\ hub'[n].pending.age = hub[n].pending.age \/ Missing(n)
  /\ \A k : k = hub[n].pending.num => (Carried(n, k)' <=> Carried(n, k))

LEMMA ServedKept ==
  ASSUME NEW n \in Nodes, Served(n), n \in alive', hub'[n].state # "Lost",
         Loadable(hub'[n]), hub[n].timeouts \in Nat, hub'[n].timeouts = hub[n].timeouts,
         Awaiting(hub'[n]) => SamePending(n),
         Strays(n)' <= Strays(n), Strays(n)' \in Nat
  PROVE  Served(n)'
<1>1. Strays(n) \in Nat /\ Cardinality(Nodes) \in Nat
  BY UnheardFinite
<1>2. Awaiting(hub'[n]) => (Missing(n)' <=> Missing(n))
  <2> SUFFICES ASSUME Awaiting(hub'[n]) PROVE Missing(n)' <=> Missing(n)
    OBVIOUS
  <2>1. PICK k : k = hub[n].pending.num
    OBVIOUS
  <2>2. hub'[n].pending.num = k /\ (Carried(n, k)' <=> Carried(n, k))
    BY <2>1 DEF SamePending
  <2>3. Missing(n)' <=> ~ Carried(n, k)'
    BY <2>2 DEF Missing
  <2>4. Missing(n) <=> ~ Carried(n, k)
    BY <2>1 DEF Missing, SamePending
  <2> QED
    BY <2>2, <2>3, <2>4
<1>3. Missing(n)' => Missing(n)
  BY <1>2 DEF Missing
<1>4. Owed(n)' < Cardinality(Nodes)
  <2>1. /\ Owed(n) = hub[n].timeouts + (IF Missing(n) THEN 1 ELSE 0) + Strays(n)
        /\ Owed(n)' = hub'[n].timeouts + (IF Missing(n)' THEN 1 ELSE 0) + Strays(n)'
        /\ Owed(n) < Cardinality(Nodes)
    BY DEF Owed, Served
  <2> QED
    BY <1>1, <1>3, <2>1
<1>5. Awaiting(hub'[n]) /\ hub'[n].pending.age # 0 => Missing(n)'
  BY <1>2 DEF Served, SamePending
<1>6. Missing(n)' => hub'[n].pending.type = "DeviceInfoReq"
  BY <1>3 DEF Served, SamePending, Missing
<1> QED
  BY <1>4, <1>5, <1>6 DEF Served, Loadable

-----------------------------------------------------------------------------
(* The steps, for one device that stays switched on.                        *)

LEMMA TimelyFacts ==
  ASSUME Smooth, NEW q \in Nat, TimelyInv(q), NEW n \in Stable
  PROVE  /\ n \in Nodes /\ n \notin Mortal /\ n \in alive
         /\ IInv /\ HubOK /\ RestOK /\ BusOK /\ OrderInv /\ PendingTold /\ AnswersTyped
         /\ Served(n) /\ NumbersInv(q)
         /\ DeviceOK(hub[n]) /\ PendingOK(hub[n]) /\ hub[n].timeouts \in Nat
         /\ lag = 0 /\ Timeout \in Nat \ {0} /\ ~ Lossy /\ Timely
         /\ messageNumber \in Numbers
<1>1. NumbersInv(q) /\ OrderInv /\ IInv /\ HubOK /\ RestOK /\ BusOK
  BY DEF TimelyInv, NumbersInv, OrderInv, IInv
<1>2. n \in Nodes /\ n \notin Mortal /\ Served(n) /\ n \in alive
  BY DEF Stable, TimelyInv, Served
<1>3. DeviceOK(hub[n]) /\ PendingOK(hub[n]) /\ hub[n].timeouts \in Nat
  BY <1>1, <1>2 DEF HubOK, DeviceOK, DeviceWrapper
<1>4. lag = 0 /\ messageNumber \in Numbers
  BY <1>1 DEF RestOK, Smooth, Numbers
<1>5. Timeout \in Nat \ {0}
  BY TimingAssumption
<1> QED
  BY <1>1, <1>2, <1>3, <1>4, <1>5 DEF TimelyInv, Smooth

\* n's record and the request that is pending are left alone, and no device is remembered.
LEMMA ServedAlone ==
  ASSUME Smooth, NEW q \in Nat, TimelyInv(q), NEW n \in Stable, LifeMoves,
         alive' = alive, hub'[n] = hub[n], temporaryUid' \in {temporaryUid, NoUid, n},
         Awaiting(hub[n]) =>
           \A k : k = hub[n].pending.num => (Carried(n, k)' <=> Carried(n, k))
  PROVE  Served(n)'
<1>1. /\ n \in Nodes /\ IInv /\ Served(n) /\ n \in alive' /\ hub[n].timeouts \in Nat
  BY TimelyFacts
<1>2. Unheard(n)' \subseteq Unheard(n)
  BY <1>1, UnheardShrinks
<1>3. Strays(n)' <= Strays(n) /\ Strays(n)' \in Nat
  BY <1>1, <1>2, StraysKept
<1>4. Awaiting(hub'[n]) => SamePending(n)
  BY DEF SamePending
<1>5. hub'[n].state # "Lost" /\ Loadable(hub'[n])
  BY <1>1 DEF Served
<1> QED
  BY <1>1, <1>3, <1>4, <1>5, ServedKept

\* A call of the application but probeAll.
LEMMA CallServed ==
  ASSUME Smooth, NEW q \in Nat, TimelyInv(q), NEW n \in Stable, LifeMoves,
         NEW name \in Names, Registered(name),
         NEW e, Called(hub[UidOf(name)], e), Update(name, e)
  PROVE  Served(n)'
<1> DEFINE u == UidOf(name)
<1>1. /\ n \in Nodes /\ IInv /\ HubOK /\ Served(n) /\ n \in alive /\ hub[n].timeouts \in Nat
      /\ ~ Lossy
  BY TimelyFacts
<1>2. u \in Nodes /\ hub' = [hub EXCEPT ![u] = e]
  BY <1>1, NamedDevice DEF Update
<1>3. hub'[u] = e /\ (n # u => hub'[n] = hub[n])
  BY <1>1, <1>2 DEF HubOK
<1>4. UNCHANGED <<requests, replies, temporaryUid, alive>>
  BY DEF Update
<1>5. \A k : Carried(n, k)' <=> Carried(n, k)
  BY <1>4 DEF Carried, Parsable
<1>6. CASE n # u
  BY <1>3, <1>4, <1>5, <1>6, ServedAlone
<1>7. CASE n = u
  <2>1. Strays(n)' <= Strays(n) /\ Strays(n)' \in Nat
    BY <1>1, <1>4, UnheardShrinks, StraysKept
  <2>2. Awaiting(hub'[n]) => SamePending(n)
    BY <1>3, <1>5, <1>7 DEF SamePending, Called, Awaiting
  <2>3. hub'[n].state # "Lost" /\ hub'[n].timeouts = hub[n].timeouts
    BY <1>1, <1>3, <1>7 DEF Called, Served
  <2>4. Loadable(e)
    <3>1. CASE e.state = hub[n].state /\ e.file = hub[n].file
      BY <1>1, <3>1 DEF Served, Loadable
    <3>2. CASE Started(e.file)
      BY <1>1, <3>2, StartedLoadable
    <3> QED
      BY <1>7, <3>1, <3>2 DEF Called
  <2> QED
    BY <1>1, <1>3, <1>4, <1>7, <2>1, <2>2, <2>3, <2>4, ServedKept
<1> QED
  BY <1>6, <1>7

LEMMA ProbeAllServed ==
  ASSUME Smooth, NEW q \in Nat, TimelyInv(q), NEW n \in Stable, LifeMoves, ProbeAll
  PROVE  Served(n)'
<1> DEFINE m == MaxDeviceCount - 1
<1>1. /\ n \in Nodes /\ RestOK /\ BusOK /\ NumbersInv(q)
  BY TimelyFacts
<1>2. /\ probes' = probes + 1 /\ probes < MaxProbeAll
      /\ UNCHANGED <<hub, alive, temporaryUid>>
  BY DEF ProbeAll
<1>3. m \in Nat /\ m \in 0 .. NumMod /\ \E new : Sends(m, new)
  BY <1>1, BusAssumption, ProbeAllSends
<1>4. ProbesLeft' \in Nat /\ ProbesLeft = ProbesLeft' + m
  BY <1>1, <1>2, ProbesCount
<1> HIDE DEF m
<1>5. ASSUME Awaiting(hub[n]), NEW k, k = hub[n].pending.num
      PROVE  Carried(n, k)' <=> Carried(n, k)
  <2>1. /\ Age(k) + Cardinality(Chances(n, q)) + ProbesLeft + 1 < NumMod
        /\ Age(k) \in Nat /\ Cardinality(Chances(n, q)) \in Nat
        /\ NumMod \in Nat /\ k \in Numbers
    BY <1>1, <1>5, RoomNow DEF HasRoom
  <2>2. Age(k) + m < NumMod
    BY <1>3, <1>4, <2>1
  <2> QED
    BY <1>1, <1>3, <2>1, <2>2, CarriedSends
<1> QED
  BY <1>2, <1>5, ServedAlone

\* The bus and the switches.  What is lost is lost on its way to another device, since n's
\* chunks have data.
LEMMA BusServed ==
  ASSUME Smooth, NEW q \in Nat, TimelyInv(q), NEW n \in Stable, LifeMoves,
         \/ \E f \in requests : LoseRequest(f) \/ \E code \in Codes : NodeReceive(f, code)
         \/ \E r \in replies : LoseReply(r)
         \/ \E v \in Nodes : PowerOff(v) \/ PowerOn(v)
         \/ BeginPass
         \/ UNCHANGED vars
  PROVE  Served(n)'
<1>1. /\ n \in Nodes /\ n \notin Mortal /\ n \in alive /\ IInv /\ HubOK /\ RestOK
      /\ PendingTold /\ Served(n) /\ ~ Lossy /\ PendingOK(hub[n]) /\ DeviceOK(hub[n])
      /\ hub[n].timeouts \in Nat
  BY TimelyFacts
<1>2. UNCHANGED <<hub, temporaryUid>>
  BY DEF LoseRequest, NodeReceive, LoseReply, PowerOff, PowerOn, BeginPass, hubVars, vars
<1>3. ASSUME UNCHANGED <<requests, replies>> PROVE \A k : Carried(n, k)' <=> Carried(n, k)
  BY <1>3 DEF Carried, Parsable
<1>4. ASSUME n \in alive',
             Awaiting(hub[n]) =>
               \A k : k = hub[n].pending.num => (Carried(n, k)' <=> Carried(n, k))
      PROVE  Served(n)'
  <2>1. Strays(n)' <= Strays(n) /\ Strays(n)' \in Nat
    BY <1>1, <1>2, UnheardShrinks, StraysKept
  <2>2. Awaiting(hub'[n]) => SamePending(n)
    BY <1>2, <1>4 DEF SamePending
  <2> QED
    BY <1>1, <1>2, <1>4, <2>1, <2>2, ServedKept DEF Served
<1>5. ASSUME NEW f \in requests, LoseRequest(f) PROVE Served(n)'
  <2>1. ASSUME NEW k PROVE Carried(n, k)' <=> Carried(n, k)
    <3>1. f.to # n \/ ~ Parsable(f)
      BY <1>1, <1>5 DEF LoseRequest
    <3> QED
      BY <1>5, <3>1 DEF LoseRequest, Carried, Parsable
  <2> QED
    BY <1>1, <1>4, <1>5, <2>1 DEF LoseRequest
<1>6. ASSUME NEW f \in requests, NEW code \in Codes, NodeReceive(f, code) PROVE Served(n)'
  <2>1. ASSUME Awaiting(hub[n]), NEW k, k = hub[n].pending.num
        PROVE  Carried(n, k)' <=> Carried(n, k)
    <3>1. hub[n].pending.type # "Ack"
      BY <1>1, <2>1 DEF PendingOK, MayAwait, MayAwaitAt, Awaiting
    <3>2. \A g \in requests : g.to = n /\ g.num = k => g.type # "Ack"
      BY <1>1, <2>1, <3>1 DEF PendingTold
    <3> QED
      BY <1>6, <3>2, CarriedReceives
  <2> QED
    BY <1>1, <1>4, <1>6, <2>1 DEF NodeReceive
<1>7. ASSUME NEW v \in Nodes, PowerOff(v) \/ PowerOn(v) PROVE Served(n)'
  <2>1. n \in alive' /\ UNCHANGED <<requests, replies>>
    BY <1>1, <1>7 DEF PowerOff, PowerOn
  <2> QED
    BY <1>3, <1>4, <2>1
<1>8. CASE BeginPass \/ UNCHANGED vars
  <2>1. n \in alive' /\ UNCHANGED <<requests, replies>>
    BY <1>1, <1>8 DEF BeginPass, vars
  <2> QED
    BY <1>3, <1>4, <2>1
<1> QED
  BY <1>1, <1>5, <1>6, <1>7, <1>8 DEF LoseReply

\* A tick comes when all has arrived: what is unanswered then is missing.
LEMMA TickServed ==
  ASSUME Smooth, NEW q \in Nat, TimelyInv(q), NEW n \in Stable, LifeMoves, Tick
  PROVE  Served(n)'
<1>1. /\ n \in Nodes /\ n \in alive /\ IInv /\ Served(n) /\ Timely
      /\ DeviceOK(hub[n]) /\ PendingOK(hub[n]) /\ hub[n].timeouts \in Nat
  BY TimelyFacts
<1>2. /\ requests = {} /\ replies = {}
      /\ UNCHANGED <<requests, replies, alive, temporaryUid>>
      /\ hub'[n] = IF hub[n].state = "Absent" THEN hub[n] ELSE Aged(hub[n])
  BY <1>1 DEF Tick
<1>3. \A k : ~ Carried(n, k) /\ ~ Carried(n, k)'
  BY <1>2 DEF Carried
<1>4. Awaiting(hub[n]) => Missing(n)
  BY <1>3 DEF Missing
<1>5. /\ hub'[n].state = hub[n].state /\ hub'[n].file = hub[n].file
      /\ hub'[n].timeouts = hub[n].timeouts
      /\ hub'[n].pending.num = hub[n].pending.num
      /\ hub'[n].pending.type = hub[n].pending.type
  <2>1. hub[n] \in DeviceWrapper /\ hub[n].pending \in PendingTrans
    BY <1>1 DEF DeviceOK, DeviceWrapper
  <2> DEFINE a == Aged(hub[n])
  <2>2. /\ a.state = hub[n].state /\ a.file = hub[n].file /\ a.timeouts = hub[n].timeouts
        /\ a.pending = IF Awaiting(hub[n]) THEN OlderPending(hub[n].pending)
                       ELSE hub[n].pending
    BY <2>1 DEF Aged, DeviceWrapper
  <2>3. a.pending.num = hub[n].pending.num /\ a.pending.type = hub[n].pending.type
    BY <2>1, <2>2 DEF OlderPending, PendingTrans
  <2> QED
    BY <1>2, <2>2, <2>3
<1>6. Strays(n)' <= Strays(n) /\ Strays(n)' \in Nat
  BY <1>1, <1>2, UnheardShrinks, StraysKept
<1>7. Awaiting(hub'[n]) => SamePending(n)
  BY <1>3, <1>4, <1>5 DEF SamePending, Awaiting
<1>8. hub'[n].state # "Lost" /\ Loadable(hub'[n])
  BY <1>1, <1>5 DEF Served, Loadable
<1> QED
  BY <1>1, <1>2, <1>5, <1>6, <1>7, <1>8, ServedKept

\* A reply from another device changes nothing for n, but that the hub may hear of that one
\* for the first time.  The answer to the pending request ends it, since its type is the one
\* of that request.
LEMMA HandleServed ==
  ASSUME Smooth, NEW q \in Nat, TimelyInv(q), NEW n \in Stable, LifeMoves,
         NEW r \in replies, Handle(r)
  PROVE  Served(n)'
<1>1. /\ n \in Nodes /\ n \in alive /\ IInv /\ HubOK /\ RestOK /\ PendingTold /\ AnswersTyped
      /\ Served(n) /\ ~ Lossy /\ DeviceOK(hub[n]) /\ PendingOK(hub[n])
      /\ hub[n].timeouts \in Nat
  BY TimelyFacts
<1>2. Receive(r) /\ r.from \in Nodes
  BY <1>1, HandleOK
<1>3. PICK e : Handled(hub[r.from], r, e) /\ hub' = [hub EXCEPT ![r.from] = e]
  BY <1>1, HandleOK
<1>4. hub'[r.from] = e /\ (n # r.from => hub'[n] = hub[n])
  BY <1>1, <1>2, <1>3 DEF HubOK
<1>5. UNCHANGED <<requests, alive>> /\ replies' = replies \ {r}
  BY <1>2 DEF Receive
<1>6. temporaryUid' = IF hub[r.from].state = "Absent" /\ r.type = "Ack" THEN r.from
                      ELSE temporaryUid
  BY DEF Handle, HandleAck, HandleBlobAnswer, HandleDeviceInfoAnswer, HandleDeviceHealth
<1>7. ASSUME NEW k, r.from # n \/ r.num # k PROVE Carried(n, k)' <=> Carried(n, k)
  BY <1>5, <1>7 DEF Carried, Parsable
<1>8. Unheard(n)' \subseteq Unheard(n)
  BY <1>1, UnheardShrinks
<1>9. Strays(n)' <= Strays(n) /\ Strays(n)' \in Nat
  <2>1. CASE temporaryUid' \in {temporaryUid, n}
    BY <1>1, <1>8, <2>1, StraysKept
  <2>2. CASE hub[r.from].state = "Absent" /\ r.type = "Ack" /\ r.from # n
    <3>1. ~ Awaiting(hub[r.from])
      BY <1>1, <1>2, <2>2, NothingOpen DEF HubOK
    <3>2. e = NewDevice(uptime)
      BY <1>3, <2>2, <3>1 DEF Handled, Completed, Completes, Matches
    <3>3. r.from \in Unheard(n) /\ r.from \notin Unheard(n)'
      BY <1>2, <1>4, <2>2, <3>2 DEF Unheard, NewDevice
    <3> QED
      BY <1>1, <1>8, <3>3, StraysHeard
  <2> QED
    BY <1>6, <2>1, <2>2
<1>10. CASE r.from # n
  <2>1. Awaiting(hub'[n]) => SamePending(n)
    BY <1>4, <1>7, <1>10 DEF SamePending
  <2> QED
    BY <1>1, <1>4, <1>5, <1>9, <1>10, <2>1, ServedKept DEF Served
<1>11. CASE r.from = n
  <2>1. CASE hub[n].state = "Absent" /\ e = NewDevice(uptime)
    <3>1. /\ hub'[n].state = "InfoRequest" /\ hub'[n].timeouts = 0 /\ ~ Awaiting(hub'[n])
      BY <1>4, <1>11, <2>1 DEF NewDevice, Awaiting, NoPending
    <3>2. Strays(n)' + 0 < Cardinality(Nodes)
      <4>1. /\ Strays(n) <= Owed(n) /\ Owed(n) < Cardinality(Nodes)
            /\ Strays(n) \in Nat /\ Owed(n) \in Nat /\ Cardinality(Nodes) \in Nat
        BY <1>1, UnheardFinite DEF Owed, Served
      <4> QED
        BY <1>9, <4>1
    <3>3. ~ Missing(n)' /\ Owed(n)' = Strays(n)'
      BY <1>9, <3>1 DEF Missing, Owed
    <3> QED
      BY <1>1, <1>5, <3>1, <3>2, <3>3, <1>9 DEF Served, Loadable
  <2>2. CASE ~ Completes(hub[n], r) /\ e = hub[n]
    <3>1. Awaiting(hub[n]) => r.num # hub[n].pending.num
      <4> SUFFICES ASSUME Awaiting(hub[n]), r.num = hub[n].pending.num PROVE FALSE
        OBVIOUS
      <4>1. r.re = hub[n].pending.type
        BY <1>1, <1>11 DEF PendingTold
      <4>2. /\ r.type \in {"Ack", "BlobAnswer", "DeviceInfoAnw", "HealthAnw"}
            /\ r.type = "BlobAnswer" => r.re = "BlobRequest"
            /\ r.type = "DeviceInfoAnw" => r.re = "DeviceInfoReq"
            /\ r.type = "HealthAnw" => r.re = "HealthReq"
        BY <1>1 DEF AnswersTyped
      <4>3. hub[n].pending.type = "DeviceInfoReq" => hub[n].state = "InfoRequest"
        BY <1>1 DEF PendingOK, MayAwait, MayAwaitAt
      <4> QED
        BY <2>2, <4>1, <4>2, <4>3 DEF Completes, Matches
    <3>2. Awaiting(hub'[n]) => SamePending(n)
      BY <1>4, <1>7, <1>11, <2>2, <3>1 DEF SamePending
    <3> QED
      BY <1>1, <1>4, <1>5, <1>9, <1>11, <2>2, <3>2, ServedKept DEF Served
  <2>3. CASE Completed(hub[n], r, e)
    <3>1. ~ Awaiting(hub'[n]) /\ hub'[n].timeouts = hub[n].timeouts
      BY <1>4, <1>11, <2>3 DEF Completed, Awaiting, NoPending
    <3>2. hub'[n].state # "Lost"
      BY <1>1, <1>4, <1>11, <2>3 DEF Completed, AckEffect, Served
    <3>3. Loadable(e)
      <4>1. CASE AckEffect(hub[n], r.code, e)
        BY <1>1, <4>1, AckLoadable DEF Served
      <4>2. CASE e.state = hub[n].state /\ e.file = hub[n].file
        BY <1>1, <4>2 DEF Served, Loadable
      <4>3. CASE e.state = "Running"
        BY <4>3 DEF Loadable
      <4> QED
        BY <2>3, <4>1, <4>2, <4>3 DEF Completed
    <3> QED
      BY <1>1, <1>4, <1>5, <1>9, <1>11, <3>1, <3>2, <3>3, ServedKept
  <2> QED
    BY <1>3, <1>11, <2>1, <2>2, <2>3 DEF Handled
<1> QED
  BY <1>10, <1>11

\* An iteration of process for another device.
LEMMA OtherVisitServed ==
  ASSUME Smooth, NEW q \in Nat, TimelyInv(q), NEW n \in Stable, LifeMoves,
         NEW u \in scan, u # n, Visit(u)
  PROVE  Served(n)'
<1>1. /\ n \in Nodes /\ HubOK /\ RestOK /\ BusOK /\ NumbersInv(q)
  BY TimelyFacts
<1>2. IterationFrame(u)
  BY <1>1, VisitSwitches
<1>3. PICK d, next, e : Switch(u, d, next) /\ hub' = [hub EXCEPT ![u] = e]
  BY <1>1, VisitSwitches
<1>4. hub'[n] = hub[n] /\ alive' = alive
  BY <1>1, <1>2, <1>3 DEF HubOK, IterationFrame
<1>5. CASE Silent(u, d, next)
  <2>1. UNCHANGED <<temporaryUid, requests, replies>>
    BY <1>5 DEF Silent
  <2>2. \A k : Carried(n, k)' <=> Carried(n, k)
    BY <2>1 DEF Carried, Parsable
  <2> QED
    BY <1>4, <2>1, <2>2, ServedAlone
<1>6. CASE Asking(u, d, next)
  <2>1. PICK dst \in Nat, type \in MessageType, arg \in Nat :
          Transmit(dst, type, arg) /\ Addressed(u, dst, type)
    BY <1>6 DEF Asking
  <2>2. temporaryUid' \in {temporaryUid, NoUid}
    BY <2>1 DEF Addressed
  <2>3. 1 \in 0 .. NumMod /\ Sends(1, Frames(dst, type, arg))
    BY <1>1, <2>1, TransmitSends
  <2>4. ASSUME Awaiting(hub[n]), NEW k, k = hub[n].pending.num
        PROVE  Carried(n, k)' <=> Carried(n, k)
    <3>1. k \in Numbers /\ Age(k) + 1 < NumMod
      BY <1>1, <2>4, RoomNow
    <3> QED
      BY <1>1, <2>3, <3>1, CarriedSends
  <2> QED
    BY <1>4, <2>2, <2>4, ServedAlone
<1> QED
  BY <1>3, <1>5, <1>6 DEF Switch

\* Where a frame to n goes: to n, unless a request for information goes to the device that is
\* remembered instead, which is then forgotten.
LEMMA SentThere ==
  ASSUME HubOK, RestOK, NEW n \in Nodes, NEW dst, NEW type, Addressed(n, dst, type)
  PROVE  \/ n \in Reached(dst) /\ temporaryUid' \in {temporaryUid, NoUid}
         \/ /\ type = "DeviceInfoReq" /\ temporaryUid \notin {NoUid, n}
            /\ temporaryUid' = NoUid
<1>1. UidOf(hub[n].name) \in {n, kReservedUID}
  BY NameGiven DEF HubOK, RegistryOK, UidOf
<1>2. dst \in {n, kReservedUID} => n \in Reached(dst)
  BY DEF Reached
<1> QED
  BY <1>1, <1>2 DEF Addressed

\* What n is sent is carried, when it has data.
LEMMA CarriedNow ==
  ASSUME NEW n \in Nodes, NEW dst, NEW type, NEW arg, Transmit(dst, type, arg),
         n \in Reached(dst), type = "FileWriteChunk" => arg # 0, NEW k, k = NextNumber
  PROVE  Carried(n, k)'
<1> DEFINE f == [to |-> n, dst |-> dst, type |-> type, num |-> NextNumber, arg |-> arg]
<1>1. f \in requests'
  BY DEF Transmit
<1>2. f.to = n /\ f.num = k /\ Parsable(f)
  BY DEF Parsable
<1> HIDE DEF f
<1> QED
  BY <1>1, <1>2 DEF Carried, Parsable

\* An iteration for n that sends something.
LEMMA AskedServed ==
  ASSUME Smooth, NEW q \in Nat, TimelyInv(q), NEW n \in Stable, LifeMoves,
         IterationFrame(n), NEW d, NEW next, NEW e, Switch(n, d, next), Asking(n, d, next),
         Checked(d, next, lag, e), hub' = [hub EXCEPT ![n] = e]
  PROVE  Served(n)'
<1>1. /\ n \in Nodes /\ n \in alive /\ IInv /\ HubOK /\ RestOK /\ Served(n)
      /\ DeviceOK(hub[n]) /\ lag = 0 /\ Timeout \in Nat \ {0} /\ hub[n].timeouts \in Nat
  BY TimelyFacts
<1>2. PICK dst \in Nat, type \in MessageType, arg \in Nat :
        /\ Transmit(dst, type, arg) /\ Addressed(n, dst, type)
        /\ d.pending = Asked(type) /\ Issues(hub[n], d, type, arg)
  BY DEF Asking
<1>3. hub'[n] = e
  BY <1>1 DEF HubOK
<1>4. /\ e.state = d.state /\ e.pending = Asked(type) /\ e.file = d.file
      /\ e.timeouts = hub[n].timeouts
  <2>1. d.pending.age = 0 /\ d.timeouts = hub[n].timeouts
    BY <1>2 DEF Asked, Switch
  <2>2. ~ (d.pending.age - lag >= Timeout)
    BY <1>1, <2>1
  <2> QED
    BY <1>2, <2>1, <2>2 DEF Checked
<1>5. Loadable(d) /\ (type = "FileWriteChunk" => arg # 0)
  BY <1>1, <1>2, IssuesLoadable DEF Served
<1>6. /\ n \in alive' /\ hub'[n].state # "Lost" /\ Loadable(hub'[n])
  BY <1>1, <1>2, <1>3, <1>4, <1>5 DEF IterationFrame, Issues, Served, Loadable
<1>7. PICK k : k = NextNumber
  OBVIOUS
<1>8. hub'[n].pending.num = k /\ hub'[n].pending.age = 0 /\ hub'[n].pending.type = type
  BY <1>3, <1>4, <1>7 DEF Asked
<1>9. Unheard(n)' \subseteq Unheard(n)
  BY <1>1, UnheardShrinks
<1> DEFINE missing == IF Missing(n)' THEN 1 ELSE 0
<1>10. Missing(n)' => type = "DeviceInfoReq"
  <2> SUFFICES ASSUME Missing(n)' PROVE type = "DeviceInfoReq"
    OBVIOUS
  <2>1. ~ Carried(n, k)'
    BY <1>8 DEF Missing
  <2>2. n \notin Reached(dst)
    BY <1>1, <1>2, <1>5, <1>7, <2>1, CarriedNow
  <2> QED
    BY <1>1, <1>2, <2>2, SentThere
<1>11. missing + Strays(n)' <= Strays(n) /\ Strays(n)' \in Nat
  <2>1. CASE n \in Reached(dst)
    <3>1. Carried(n, k)'
      BY <1>1, <1>2, <1>5, <1>7, <2>1, CarriedNow
    <3>2. missing = 0
      BY <1>8, <3>1 DEF Missing
    <3>3. temporaryUid' \in {temporaryUid, NoUid}
      BY <1>2 DEF Addressed
    <3> HIDE DEF missing
    <3>4. Strays(n)' <= Strays(n) /\ Strays(n)' \in Nat /\ Strays(n) \in Nat
      BY <1>1, <1>9, <3>3, StraysKept, UnheardFinite
    <3> QED
      BY <3>2, <3>4
  <2>2. CASE n \notin Reached(dst)
    <3>1. temporaryUid \notin {NoUid, n} /\ temporaryUid' = NoUid
      BY <1>1, <1>2, <2>2, SentThere
    <3> DEFINE U == Unheard(n)
               V == Unheard(n)'
    <3>2. IsFiniteSet(U) /\ Cardinality(U) \in Nat /\ V \in SUBSET U
      BY <1>1, <1>9, UnheardFinite
    <3>3. Cardinality(V) <= Cardinality(U) /\ IsFiniteSet(V)
      BY <3>2, FS_Subset
    <3>4. Cardinality(V) \in Nat
      BY <3>3, FS_CardinalityType
    <3>5. Strays(n) = Cardinality(U) + 1 /\ Strays(n)' = Cardinality(V)
      BY <3>1, <3>4 DEF Strays
    <3>6. missing \in {0, 1}
      OBVIOUS
    <3> HIDE DEF U, V, missing
    <3> QED
      BY <3>2, <3>3, <3>4, <3>5, <3>6
  <2> QED
    BY <2>1, <2>2
<1>12. Owed(n)' < Cardinality(Nodes)
  <2>1. /\ Owed(n)' = hub'[n].timeouts + missing + Strays(n)'
        /\ Owed(n) = hub[n].timeouts + (IF Missing(n) THEN 1 ELSE 0) + Strays(n)
        /\ Owed(n) < Cardinality(Nodes)
    BY <1>1 DEF Owed, Served
  <2>2. Strays(n) \in Nat /\ Cardinality(Nodes) \in Nat /\ missing \in Nat
    BY <1>1, UnheardFinite
  <2>3. hub'[n].timeouts = hub[n].timeouts
    BY <1>3, <1>4
  <2> HIDE DEF missing
  <2> QED
    BY <1>1, <1>11, <2>1, <2>2, <2>3
<1> QED
  BY <1>6, <1>8, <1>10, <1>12 DEF Served, Loadable

\* One that sends nothing.  What times out is missing, and is not one too many.
LEMMA SilentServed ==
  ASSUME Smooth, NEW q \in Nat, TimelyInv(q), NEW n \in Stable, LifeMoves,
         IterationFrame(n), NEW d, NEW next, NEW e, Switch(n, d, next), Silent(n, d, next),
         Checked(d, next, lag, e), hub' = [hub EXCEPT ![n] = e]
  PROVE  Served(n)'
<1>1. /\ n \in Nodes /\ n \in alive /\ IInv /\ HubOK /\ Served(n) /\ DeviceOK(hub[n])
      /\ lag = 0 /\ Timeout \in Nat \ {0} /\ hub[n].timeouts \in Nat /\ ~ Lossy
  BY TimelyFacts
<1>2. /\ UNCHANGED <<temporaryUid, requests, replies>>
      /\ d.pending = hub[n].pending /\ d.timeouts = hub[n].timeouts
      /\ d = hub[n] \/ Settles(n, d)
  BY DEF Silent, Switch
<1>3. hub'[n] = e /\ n \in alive'
  BY <1>1 DEF HubOK, IterationFrame
<1>4. Loadable(d)
  BY <1>1, <1>2, SettlesLoadable DEF Served
<1>5. Loadable(e)
  BY <1>4, CheckedLoadable
<1>6. d.state # "Lost"
  BY <1>1, <1>2 DEF Settles, Served
<1>7. Strays(n)' <= Strays(n) /\ Strays(n)' \in Nat /\ Strays(n) \in Nat
  BY <1>1, <1>2, UnheardShrinks, StraysKept, UnheardFinite
<1>8. \A k : Carried(n, k)' <=> Carried(n, k)
  BY <1>2 DEF Carried, Parsable
<1>9. CASE e.state = d.state /\ e.pending = d.pending /\ e.timeouts = d.timeouts
  <2>1. Awaiting(hub'[n]) => SamePending(n)
    BY <1>2, <1>3, <1>8, <1>9 DEF SamePending, Awaiting
  <2> QED
    BY <1>1, <1>2, <1>3, <1>5, <1>6, <1>7, <1>9, <2>1, ServedKept
<1>10. CASE /\ Awaiting(d) /\ d.pending.age - lag >= Timeout
            /\ e.pending = NoPending /\ TimesOut(d, e)
  <2>1. d.pending.age # 0
    BY <1>1, <1>10
  <2>2. Missing(n)
    BY <1>1, <1>2, <1>10, <2>1 DEF Served, Awaiting
  <2>3. /\ Owed(n) = hub[n].timeouts + 1 + Strays(n) /\ Owed(n) < Cardinality(Nodes)
        /\ Cardinality(Nodes) <= LostLimit /\ LostLimit \in Nat /\ Cardinality(Nodes) \in Nat
    BY <1>1, <2>2, UnheardFinite, LimitAssumption DEF Owed, Served, Smooth
  <2>4. hub[n].timeouts + 1 < LostLimit /\ hub[n].timeouts + 1 + Strays(n)' < Cardinality(Nodes)
    BY <1>1, <1>7, <2>3
  <2>5. ~ (d.timeouts + 1 >= LostLimit)
    BY <1>1, <1>2, <2>3, <2>4
  <2>6. e.timeouts = hub[n].timeouts + 1 /\ e.state # "Lost"
    BY <1>2, <1>6, <1>10, <2>5 DEF TimesOut
  <2>7. ~ Missing(n)' /\ ~ Awaiting(hub'[n])
    BY <1>3, <1>10 DEF Missing, Awaiting, NoPending
  <2>8. Owed(n)' = hub[n].timeouts + 1 + 0 + Strays(n)'
    BY <1>3, <2>6, <2>7 DEF Owed
  <2>9. Owed(n)' < Cardinality(Nodes)
    BY <1>1, <1>7, <2>4, <2>8
  <2> QED
    BY <1>3, <1>5, <2>6, <2>7, <2>9 DEF Served, Loadable
<1> QED
  BY <1>9, <1>10 DEF Checked

LEMMA VisitServed ==
  ASSUME Smooth, NEW q \in Nat, TimelyInv(q), NEW n \in Stable, LifeMoves,
         NEW u \in scan, Visit(u)
  PROVE  Served(n)'
<1>1. HubOK /\ RestOK
  BY TimelyFacts
<1>2. CASE u # n
  BY <1>2, OtherVisitServed
<1>3. CASE u = n
  <2>1. IterationFrame(n)
    BY <1>1, <1>3, VisitSwitches
  <2>2. PICK d, next, e :
          /\ Switch(n, d, next) /\ Checked(d, next, lag, e) /\ hub' = [hub EXCEPT ![n] = e]
    BY <1>1, <1>3, VisitSwitches
  <2> QED
    BY <2>1, <2>2, SilentServed, AskedServed DEF Switch
<1> QED
  BY <1>2, <1>3

LEMMA StepServed ==
  ASSUME Smooth, NEW q \in Nat, TimelyInv(q), NEW n \in Stable, [Next]_vars
  PROVE  Served(n)'
<1>1. IInv /\ HubOK /\ RestOK
  BY TimelyFacts
<1>2. LifeMoves
  BY <1>1, StepOK
<1>3. CASE Application
  <2>1. ASSUME NEW name \in Names, Registered(name),
               NEW e, Called(hub[UidOf(name)], e), Update(name, e)
        PROVE  Served(n)'
    BY <1>2, <2>1, CallServed
  <2> QED
    BY <1>1, <1>2, <1>3, <2>1, CallOK, ProbeAllServed
<1>4. CASE Environment
  BY <1>2, <1>4, BusServed, TickServed DEF Environment
<1>5. CASE BeginPass \/ UNCHANGED vars
  BY <1>2, <1>5, BusServed
<1> QED
  BY <1>2, <1>3, <1>4, <1>5, HandleServed, VisitServed DEF Next

-----------------------------------------------------------------------------
(* The invariant.                                                           *)

\* Only devices put replies on the bus.
LEMMA AnswersTypedKept ==
  ASSUME IInv, AnswersTyped, [Next]_vars
  PROVE  AnswersTyped'
<1>1. HubOK /\ RestOK
  BY DEF IInv
<1>2. ASSUME NEW f \in requests, NEW code \in Codes, NodeReceive(f, code)
      PROVE  AnswersTyped'
  <2>1. ASSUME NEW a \in Reply(f.type, code)
        PROVE  /\ a.type \in {"Ack", "BlobAnswer", "DeviceInfoAnw", "HealthAnw"}
               /\ a.type = "BlobAnswer" => f.type = "BlobRequest"
               /\ a.type = "DeviceInfoAnw" => f.type = "DeviceInfoReq"
               /\ a.type = "HealthAnw" => f.type = "HealthReq"
    BY <2>1 DEF Reply
  <2> QED
    BY <1>2, <2>1 DEF NodeReceive, AnswersTyped
<1>3. CASE replies' \subseteq replies
  BY <1>3 DEF AnswersTyped
<1>4. ASSUME NEW u \in scan, Visit(u) PROVE replies' \subseteq replies
  <2>1. PICK d, next : Switch(u, d, next)
    BY <1>1, <1>4, VisitSwitches
  <2> QED
    BY <2>1 DEF Switch, Silent, Asking, Transmit, Recent
<1>5. ASSUME NEW r \in replies, Handle(r) PROVE replies' \subseteq replies
  BY <1>1, <1>5, HandleOK DEF Receive
<1>6. ASSUME Application PROVE replies' \subseteq replies
  BY <1>1, <1>6, CallOK DEF Update, ProbeAll, Recent
<1>7. ASSUME Environment
      PROVE  \/ replies' \subseteq replies
             \/ \E f \in requests : \E code \in Codes : NodeReceive(f, code)
  BY <1>7 DEF Environment, LoseRequest, LoseReply, PowerOff, PowerOn, Tick
<1> QED
  BY <1>2, <1>3, <1>4, <1>5, <1>6, <1>7 DEF Next, BeginPass, vars

LEMMA InitTimely ==
  ASSUME NEW q, Init
  PROVE  TimelyInv(q)
<1>1. NumbersInv(q) /\ PendingTold /\ AnswersTyped
  BY InitNumbers, InitOrder DEF Init, AnswersTyped
<1>2. ASSUME NEW n \in Stable PROVE Served(n)
  <2>1. /\ n \in Nodes /\ hub[n] = AbsentDevice /\ temporaryUid = NoUid /\ alive = Nodes
    BY DEF Init, Stable
  <2>2. /\ hub[n].state = "Absent" /\ hub[n].timeouts = 0 /\ ~ Awaiting(hub[n])
    BY <2>1 DEF AbsentDevice, NewDevice, Awaiting, NoPending
  <2>3. Owed(n) = Cardinality(Unheard(n))
    <3>1. Owed(n) = 0 + 0 + (Cardinality(Unheard(n)) + 0)
      BY <2>1, <2>2 DEF Owed, Strays, Missing
    <3> QED
      BY <2>1, <3>1, UnheardFinite
  <2>4. Owed(n) < Cardinality(Nodes)
    BY <2>1, <2>3, UnheardFinite
  <2> QED
    BY <2>1, <2>2, <2>4 DEF Served, Loadable, Missing
<1> QED
  BY <1>1, <1>2 DEF TimelyInv

LEMMA StepTimely ==
  ASSUME Smooth, NEW q, FewFor(q), TimelyInv(q), [Next]_vars
  PROVE  TimelyInv(q)'
<1>1. /\ q \in Nat /\ NumbersInv(q) /\ OrderInv /\ IInv /\ RestOK /\ BusOK
      /\ PendingTold /\ AnswersTyped
  BY DEF FewFor, TimelyInv, NumbersInv, OrderInv, IInv
<1>2. NumbersInv(q)' /\ NumbersFree /\ Shape
  BY <1>1, StepNumbers, StepOrder
<1>3. PendingTold' /\ AnswersTyped'
  BY <1>1, <1>2, PendingToldKept, AnswersTypedKept
<1>4. \A n \in Stable : Served(n)'
  BY <1>1, StepServed
<1> QED
  BY <1>2, <1>3, <1>4 DEF TimelyInv

\* On a good bus no device that stays switched on is taken for lost (DeviceHub.hpp:547-562),
\* although the hub remembers a single UID for its information requests and sends them to
\* the wrong device, which may be off, whenever another one is heard of in the meantime.
THEOREM NoFalseLossCorrect == Smooth => (Spec => []NoFalseLoss)
<1> SUFFICES ASSUME Smooth PROVE Spec => []NoFalseLoss
  OBVIOUS
<1>1. PICK q : FewFor(q)
  BY DEF Smooth, Few
<1>2. Init => TimelyInv(q)
  BY InitTimely
<1>3. TimelyInv(q) /\ [Next]_vars => TimelyInv(q)'
  BY <1>1, StepTimely
<1>4. TimelyInv(q) => NoFalseLoss
  BY DEF TimelyInv, Stable, Served, NoFalseLoss
<1> QED
  BY <1>2, <1>3, <1>4, PTL DEF Spec

-----------------------------------------------------------------------------
(* A transfer is not disturbed.                                             *)

\* A frame of a transfer is awaited of n.
Loading(n) == hub[n].pending.type \in FileTypes

\* It is answered before n is visited again, and is the only one on the bus.
Undisturbed(n) ==
  /\ Loading(n) => hub[n].wait > 0 /\ hub[n].state = "FileTransfer"
  /\ \A k \in Abroad(n, FileTypes) : Loading(n) /\ k = hub[n].pending.num

\* What is awaited in a transfer was sent, in this tick.
LEMMA LoadingNow ==
  ASSUME Smooth, NEW q \in Nat, TimelyInv(q), NEW n \in Stable, Loading(n)
  PROVE  Awaiting(hub[n]) /\ ~ Missing(n) /\ hub[n].pending.age = 0
<1>1. Served(n)
  BY TimelyFacts
<1> QED
  BY <1>1 DEF Served, Loading, FileTypes, Awaiting

\* So the visits to its device pass it by.
LEMMA LoadingPassed ==
  ASSUME Smooth, NEW q \in Nat, TimelyInv(q), NEW n \in Stable, Undisturbed(n), Loading(n),
         n \in scan, Visit(n)
  PROVE  /\ UNCHANGED <<messageNumber, requests, replies, temporaryUid>>
         /\ hub'[n].state = hub[n].state /\ hub'[n].pending = hub[n].pending
         /\ hub'[n].file = hub[n].file /\ hub'[n].wait = hub[n].wait
<1>1. /\ n \in Nodes /\ HubOK /\ RestOK /\ lag = 0 /\ Timeout \in Nat \ {0}
      /\ hub[n].wait \in Int
  BY TimelyFacts, ClockTypes
<1>2. PICK d, next, e :
        /\ Switch(n, d, next) /\ Checked(d, next, lag, e) /\ hub' = [hub EXCEPT ![n] = e]
  BY <1>1, VisitSwitches
<1>3. ~ Due(n)
  BY <1>1 DEF Undisturbed, Due
<1>4. d = hub[n] /\ next = hub[n].wait + lag
      /\ UNCHANGED <<messageNumber, requests, replies, temporaryUid>>
  BY <1>2, <1>3 DEF Switch, Silent, Asking
<1>5. ~ (d.pending.age - lag >= Timeout)
  BY <1>1, <1>4, LoadingNow
<1>6. /\ e.state = d.state /\ e.pending = d.pending /\ e.file = d.file
      /\ e.wait = next - lag
  BY <1>2, <1>5 DEF Checked
<1>7. hub'[n] = e
  BY <1>1, <1>2 DEF HubOK
<1> QED
  BY <1>1, <1>4, <1>6, <1>7

\* No device is sent a frame of the transfer to another.
LEMMA OthersRest ==
  ASSUME HubOK, RestOK, NEW n \in Nodes, NEW u \in scan, u # n, Visit(u)
  PROVE  BusRests(n) /\ hub'[n] = hub[n]
<1>1. PICK d, next, e : Switch(u, d, next) /\ hub' = [hub EXCEPT ![u] = e]
  BY VisitSwitches
<1>2. hub'[n] = hub[n] /\ u \in Nodes
  BY <1>1 DEF HubOK, RestOK, Known
<1>3. CASE Silent(u, d, next)
  BY <1>2, <1>3 DEF Silent, BusRests, Shrinks
<1>4. CASE Asking(u, d, next)
  <2>1. PICK dst \in Nat, type \in MessageType, arg \in Nat :
          /\ Transmit(dst, type, arg) /\ Addressed(u, dst, type)
          /\ Issues(hub[u], d, type, arg)
    BY <1>4 DEF Asking
  <2>2. 1 \in 0 .. NumMod /\ Sends(1, Frames(dst, type, arg))
    BY <2>1, TransmitSends
  <2>3. type \in FileTypes => Reached(dst) \subseteq {u}
    <3> SUFFICES ASSUME type \in FileTypes PROVE Reached(dst) \subseteq {u}
      OBVIOUS
    <3>1. dst = u /\ u # kReservedUID
      BY <1>2, <2>1, OwnName DEF Issues, Addressed, FileTypes
    <3> QED
      BY <3>1 DEF Reached
  <2>4. \A f \in Frames(dst, type, arg) : f.to = n => f.type \notin FileTypes
    BY <2>3 DEF Frames
  <2> QED
    BY <1>2, <2>2, <2>4 DEF BusRests
<1> QED
  BY <1>1, <1>2, <1>3, <1>4 DEF Switch

\* n is left alone.
LEMMA UndisturbedRests ==
  ASSUME RestOK, BusOK, NEW n, Undisturbed(n), BusRests(n),
         Loading(n)' => /\ Loading(n) /\ hub'[n].pending.num = hub[n].pending.num
                        /\ hub'[n].wait = hub[n].wait /\ hub'[n].state = hub[n].state,
         Loading(n) => Loading(n)'
  PROVE  Undisturbed(n)'
<1>1. Abroad(n, FileTypes)' \subseteq Abroad(n, FileTypes)
  BY RestingBus
<1> QED
  BY <1>1 DEF Undisturbed

\* n is visited.
LEMMA UndisturbedVisit ==
  ASSUME Smooth, NEW q \in Nat, TimelyInv(q), NEW n \in Stable, Undisturbed(n),
         n \in scan, Visit(n)
  PROVE  Undisturbed(n)'
<1>1. /\ n \in Nodes /\ HubOK /\ RestOK /\ BusOK /\ lag = 0
  BY TimelyFacts
<1>2. CASE Loading(n)
  <2>1. /\ UNCHANGED <<messageNumber, requests, replies>>
        /\ hub'[n].state = hub[n].state /\ hub'[n].pending = hub[n].pending
        /\ hub'[n].wait = hub[n].wait
    BY <1>2, LoadingPassed
  <2> QED
    BY <1>1, <2>1, UndisturbedRests DEF BusRests, Shrinks, Loading
<1>3. CASE ~ Loading(n)
  <2>1. PICK d, next, e :
          /\ Switch(n, d, next) /\ Checked(d, next, lag, e) /\ hub' = [hub EXCEPT ![n] = e]
    BY <1>1, VisitSwitches
  <2>2. hub'[n] = e
    BY <1>1, <2>1 DEF HubOK
  <2>3. Abroad(n, FileTypes) = {}
    BY <1>3 DEF Undisturbed
  <2>4. (e.pending = d.pending /\ e.state = d.state) \/ ~ Awaiting(e)
    BY <2>1 DEF Checked, Awaiting, NoPending
  <2>5. CASE Silent(n, d, next)
    <3>1. UNCHANGED <<messageNumber, requests, replies>> /\ d.pending = hub[n].pending
      BY <2>5 DEF Silent
    <3>2. ~ Loading(n)'
      BY <1>3, <2>2, <2>4, <3>1 DEF Loading, Awaiting, FileTypes
    <3> QED
      BY <1>1, <1>3, <3>1, <3>2, UndisturbedRests DEF BusRests, Shrinks
  <2>6. CASE Asking(n, d, next)
    <3>1. PICK dst \in Nat, type \in MessageType, arg \in Nat :
            /\ Pause(type) <= next /\ Transmit(dst, type, arg)
            /\ d.pending = Asked(type) /\ Issues(hub[n], d, type, arg)
      BY <2>6 DEF Asking
    <3>2. 1 \in 0 .. NumMod /\ Sends(1, Frames(dst, type, arg))
      BY <1>1, <3>1, TransmitSends
    <3>3. ASSUME NEW k \in Abroad(n, FileTypes)'
          PROVE  type \in FileTypes /\ k = NextNumber
      <4>1. \E f \in Frames(dst, type, arg) : f.to = n /\ f.type \in FileTypes /\ f.num = k
        BY <1>1, <2>3, <3>2, AbroadSends
      <4> QED
        BY <4>1 DEF Frames
    <3>4. d.pending.age = 0 /\ d.pending.num = NextNumber /\ d.pending.type = type
      BY <3>1 DEF Asked
    <3>5. ~ (d.pending.age - lag >= Timeout) /\ next \in Int /\ Pause(type) > 0
      BY <1>1, <2>1, <3>4, TimingAssumption DEF Switch, Pause
    <3>6. e.state = d.state /\ e.pending = d.pending /\ e.wait > 0
      BY <1>1, <2>1, <3>1, <3>5, TimingAssumption DEF Checked, Pause
    <3>7. type \in FileTypes => d.state = "FileTransfer"
      BY <3>1 DEF Issues
    <3> QED
      BY <2>2, <3>3, <3>4, <3>6, <3>7 DEF Undisturbed, Loading
  <2> QED
    BY <2>1, <2>5, <2>6 DEF Switch
<1> QED
  BY <1>2, <1>3

\* A step that leaves the record of n alone.
LEMMA UndisturbedAlone ==
  ASSUME RestOK, BusOK, NEW n, Undisturbed(n), BusRests(n), hub'[n] = hub[n]
  PROVE  Undisturbed(n)'
<1>1. Loading(n)' <=> Loading(n)
  BY DEF Loading
<1> QED
  BY <1>1, UndisturbedRests

LEMMA InitUndisturbed ==
  ASSUME Init, NEW n \in Nodes
  PROVE  Undisturbed(n)
<1>1. hub[n].pending.type = "None" /\ requests = {} /\ replies = {}
  BY DEF Init, AbsentDevice, NewDevice, NoPending
<1> QED
  BY <1>1 DEF Undisturbed, Loading, FileTypes, Abroad

\* A call of the program that uses the hub.
LEMMA UndisturbedCall ==
  ASSUME Smooth, NEW q \in Nat, TimelyInv(q), NEW n \in Stable, Undisturbed(n), Application
  PROVE  Undisturbed(n)'
<1>1. n \in Nodes /\ IInv /\ HubOK /\ RestOK /\ BusOK
  BY TimelyFacts
<1>2. CASE ProbeAll
  <2>1. hub' = hub
    BY <1>2 DEF ProbeAll
  <2>2. BusRests(n)
    BY <1>1, <1>2, ProbeAllSends DEF BusRests, FileTypes
  <2> QED
    BY <1>1, <2>1, <2>2, UndisturbedAlone
<1>3. ASSUME NEW name \in Names, Registered(name),
             NEW e, Called(hub[UidOf(name)], e), Update(name, e)
      PROVE  Undisturbed(n)'
  <2> DEFINE u == UidOf(name)
  <2>1. hub'[u] = e /\ (n # u => hub'[n] = hub[n])
    BY <1>1, <1>3, NamedDevice DEF Update, HubOK
  <2>2. BusRests(n)
    BY <1>3 DEF Update, BusRests, Shrinks
  <2>3. CASE n = u
    <3>1. hub'[n].pending = hub[n].pending /\ hub'[n].wait = hub[n].wait
      BY <1>3, <2>1, <2>3 DEF Called
    <3>2. Loading(n)' <=> Loading(n)
      BY <3>1 DEF Loading
    <3>3. Loading(n) => hub'[n].state = hub[n].state
      BY <1>3, <2>1, <2>3 DEF Called, Undisturbed
    <3> QED
      BY <1>1, <2>2, <3>1, <3>2, <3>3, UndisturbedRests
  <2> QED
    BY <1>1, <2>1, <2>2, <2>3, UndisturbedAlone
<1> QED
  BY <1>1, <1>2, <1>3, CallOK

\* A reply is received.
LEMMA UndisturbedHandle ==
  ASSUME Smooth, NEW q \in Nat, TimelyInv(q), NEW n \in Stable, Undisturbed(n),
         NEW r \in replies, Handle(r)
  PROVE  Undisturbed(n)'
<1>1. /\ n \in Nodes /\ HubOK /\ RestOK /\ BusOK /\ PendingLast
  BY TimelyFacts DEF OrderInv
<1>2. Receive(r) /\ r.from \in Nodes
  BY <1>1, HandleOK
<1>3. PICK e : Handled(hub[r.from], r, e) /\ hub' = [hub EXCEPT ![r.from] = e]
  BY <1>1, HandleOK
<1>4. hub'[r.from] = e /\ (n # r.from => hub'[n] = hub[n])
  BY <1>1, <1>2, <1>3 DEF HubOK
<1>5. BusRests(n)
  BY <1>2 DEF Receive, BusRests, Shrinks
<1>6. CASE hub'[n] = hub[n]
  BY <1>1, <1>5, <1>6, UndisturbedAlone
<1>7. CASE n = r.from /\ hub[n].state = "Absent" /\ e = NewDevice(uptime)
  <2>1. ~ Loading(n) /\ ~ Loading(n)'
    BY <1>4, <1>7 DEF Undisturbed, Loading, NewDevice, NoPending, FileTypes
  <2> QED
    BY <1>1, <1>5, <2>1, UndisturbedRests
<1>8. CASE n = r.from /\ Completed(hub[n], r, e)
  <2>1. ~ Loading(n)'
    BY <1>4, <1>8 DEF Completed, Loading, NoPending, FileTypes
  <2>2. Abroad(n, FileTypes)' = {}
    BY <1>1, <1>2, <1>8, AnswerIsLast DEF Completed, Completes
  <2> QED
    BY <2>1, <2>2 DEF Undisturbed
<1> QED
  BY <1>3, <1>4, <1>6, <1>7, <1>8 DEF Handled

\* A tick cannot come while a frame of a transfer is awaited.
LEMMA UndisturbedTick ==
  ASSUME Smooth, NEW q \in Nat, TimelyInv(q), NEW n \in Stable, Undisturbed(n), Tick
  PROVE  ~ Loading(n) /\ Undisturbed(n)'
<1>1. n \in Nodes /\ RestOK /\ BusOK /\ DeviceOK(hub[n]) /\ Timely
  BY TimelyFacts
<1>2. /\ requests = {} /\ replies = {} /\ UNCHANGED <<messageNumber, requests, replies>>
      /\ hub'[n] = IF hub[n].state = "Absent" THEN hub[n] ELSE Aged(hub[n])
  BY <1>1 DEF Tick
<1>3. ~ Loading(n)
  <2>1. ~ Carried(n, hub[n].pending.num)
    BY <1>2 DEF Carried
  <2> QED
    BY <2>1, LoadingNow DEF Missing
<1>4. ~ Loading(n)'
  <2>1. hub[n] \in DeviceWrapper /\ hub[n].pending \in PendingTrans
    BY <1>1 DEF DeviceOK, DeviceWrapper
  <2>2. Aged(hub[n]).pending.type = hub[n].pending.type
    BY <2>1 DEF Aged, DeviceWrapper, OlderPending, PendingTrans
  <2> QED
    BY <1>2, <1>3, <2>2 DEF Loading
<1>5. BusRests(n)
  BY <1>2 DEF BusRests, Shrinks
<1> QED
  BY <1>1, <1>3, <1>4, <1>5, UndisturbedRests

\* The bus and the switches.
LEMMA UndisturbedBus ==
  ASSUME Smooth, NEW q \in Nat, TimelyInv(q), NEW n \in Stable, Undisturbed(n),
         \/ \E f \in requests : LoseRequest(f) \/ \E code \in Codes : NodeReceive(f, code)
         \/ \E r \in replies : LoseReply(r)
         \/ \E v \in Nodes : PowerOff(v) \/ PowerOn(v)
         \/ BeginPass
         \/ UNCHANGED vars
  PROVE  Undisturbed(n)'
<1>1. n \in Nodes /\ RestOK /\ BusOK
  BY TimelyFacts
<1>2. hub' = hub
  BY DEF LoseRequest, NodeReceive, LoseReply, PowerOff, PowerOn, BeginPass, hubVars, vars
<1>3. ASSUME NEW f \in requests, NEW code \in Codes, NodeReceive(f, code)
      PROVE  BusRests(n)
  BY <1>1, <1>3, ReceiveArrives DEF BusRests
<1>4. ASSUME NEW f \in requests, LoseRequest(f) PROVE BusRests(n)
  BY <1>4 DEF LoseRequest, hubVars, BusRests, Shrinks
<1>5. ASSUME NEW r \in replies, LoseReply(r) PROVE BusRests(n)
  BY <1>5 DEF LoseReply, hubVars, BusRests, Shrinks
<1>6. ASSUME NEW v \in Nodes, PowerOff(v) \/ PowerOn(v) PROVE BusRests(n)
  BY <1>6 DEF PowerOff, PowerOn, hubVars, BusRests, Shrinks
<1>7. ASSUME BeginPass \/ UNCHANGED vars PROVE BusRests(n)
  BY <1>7 DEF BeginPass, vars, hubVars, BusRests, Shrinks
<1>8. BusRests(n)
  BY <1>3, <1>4, <1>5, <1>6, <1>7
<1> QED
  BY <1>1, <1>2, <1>8, UndisturbedAlone

LEMMA StepUndisturbed ==
  ASSUME Smooth, NEW q \in Nat, TimelyInv(q), NEW n \in Stable, Undisturbed(n), [Next]_vars
  PROVE  Undisturbed(n)'
<1>1. n \in Nodes /\ HubOK /\ RestOK /\ BusOK
  BY TimelyFacts
<1>2. ASSUME NEW u \in scan, Visit(u) PROVE Undisturbed(n)'
  BY <1>1, <1>2, UndisturbedVisit, OthersRest, UndisturbedAlone
<1>3. CASE Environment
  BY <1>3, UndisturbedBus, UndisturbedTick DEF Environment
<1>4. CASE BeginPass \/ UNCHANGED vars
  BY <1>4, UndisturbedBus
<1> QED
  BY <1>2, <1>3, <1>4, UndisturbedCall, UndisturbedHandle DEF Next

=============================================================================
