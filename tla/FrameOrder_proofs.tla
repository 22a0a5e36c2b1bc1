------------------------- MODULE FrameOrder_proofs --------------------------
(***************************************************************************)
(* The frames under way and their numbers.  All that is on the bus for a   *)
(* device and from it stands in one line, ordered by age: its answers      *)
(* before the frames it has yet to get.  A frame of a file transfer is     *)
(* never younger than the request that is pending, since whatever process  *)
(* sends to a device takes the place of that request.  So the answer to    *)
(* the pending request is the last thing of the transfer on the bus.       *)
(***************************************************************************)
EXTENDS FileAcks_proofs

Numbers == 0 .. NumMod - 1

\* Each frame under way to or from a device has a number of its own, and what a
\* device has answered is older than what it has yet to receive.
BusOK ==
  /\ \A f \in requests : f.num \in Numbers
  /\ \A r \in replies : r.num \in Numbers
  /\ \A f, g \in requests : f.to = g.to /\ f.num = g.num => f = g
  /\ \A r, s \in replies : r.from = s.from /\ r.num = s.num => r = s
  /\ \A f \in requests, r \in replies : f.to = r.from => Age(f.num) < Age(r.num)

\* The numbers of the frames of these types on their way to u, and of the answers
\* to such frames on their way back.
Abroad(u, types) ==
  {f.num : f \in {g \in requests : g.to = u /\ g.type \in types}}
    \cup {r.num : r \in {q \in replies : q.from = u /\ q.re \in types}}

\* No frame of a transfer is younger than the pending request.
PendingLast ==
  \A u \in Nodes : Awaiting(hub[u]) =>
    /\ hub[u].pending.num \in Numbers
    /\ \A k \in Abroad(u, FileTypes) : Age(hub[u].pending.num) <= Age(k)

Sending(d) == d.state = "FileTransfer" /\ d.file.state = "Sending"

\* The next chunk may be sent, as the first or since the last one was answered.
MaySend(d) ==
  d.file.first \/ (d.file.ack # "None" /\ d.pending.type # "FileWriteChunk")

\* No chunk is under way when the next one may be sent.
ChunksAlone ==
  \A u \in Nodes :
    Sending(hub[u]) /\ MaySend(hub[u]) => Abroad(u, {"FileWriteChunk"}) = {}

\* Whatever has the number of the pending request is that request, or its answer.
PendingTold ==
  \A u \in Nodes : Awaiting(hub[u]) =>
    /\ \A f \in requests : f.to = u /\ f.num = hub[u].pending.num =>
                             f.type = hub[u].pending.type
    /\ \A r \in replies : r.from = u /\ r.num = hub[u].pending.num =>
                            r.re = hub[u].pending.type

-----------------------------------------------------------------------------
(* Numbers.                                                                 *)

\* A remainder, for numbers that are less than one round away.
LEMMA Around ==
  ASSUME NEW n \in Nat \ {0}, NEW a \in Int, -n <= a, a < n + n
  PROVE  a % n = IF a < 0 THEN a + n ELSE IF a < n THEN a ELSE a - n
<1> DEFINE q == a \div n
           r == a % n
<1>1. q \in Int /\ r \in 0 .. n - 1 /\ a = n * q + r
  OBVIOUS
<1> HIDE DEF q, r
<1>2. q >= -1 /\ q <= 1
  <2>1. ASSUME q >= 2 PROVE FALSE
    <3>1. n * q >= n * 2
      BY <1>1, <2>1
    <3> QED
      BY <1>1, <3>1
  <2>2. ASSUME q <= -2 PROVE FALSE
    <3>1. n * q <= n * (-2)
      BY <1>1, <2>2
    <3> QED
      BY <1>1, <3>1
  <2> QED
    BY <1>1, <2>1, <2>2
<1>3. n * (-1) = -n /\ n * 0 = 0 /\ n * 1 = n
  OBVIOUS
<1>4. CASE q = -1
  BY <1>1, <1>3, <1>4 DEF r
<1>5. CASE q = 0
  BY <1>1, <1>3, <1>5 DEF r
<1>6. CASE q = 1
  BY <1>1, <1>3, <1>6 DEF r
<1> QED
  BY <1>1, <1>2, <1>4, <1>5, <1>6

\* The age of a number: how far messageNumber is from it.
LEMMA AgeIs ==
  ASSUME messageNumber \in Numbers, NEW k \in Numbers
  PROVE  /\ Age(k) \in Numbers
         /\ Age(k) = IF k <= messageNumber THEN messageNumber - k
                     ELSE messageNumber - k + NumMod
<1>1. NumMod \in Nat \ {0}
  BY BusAssumption
<1>2. messageNumber - k \in Int /\ -NumMod <= messageNumber - k /\ messageNumber - k < NumMod
  BY <1>1 DEF Numbers
<1>3. (messageNumber - k) % NumMod = IF messageNumber - k < 0 THEN messageNumber - k + NumMod
                                     ELSE messageNumber - k
  BY <1>1, <1>2, Around
<1> QED
  BY <1>1, <1>3 DEF Age, Numbers

\* No two numbers have the same age.
LEMMA AgeTells ==
  ASSUME messageNumber \in Numbers, NEW k \in Numbers, NEW l \in Numbers, Age(k) = Age(l)
  PROVE  k = l
BY AgeIs, BusAssumption DEF Numbers

\* The number i frames after the last one.
After(i) == (messageNumber + i) % NumMod

LEMMA AfterIs ==
  ASSUME messageNumber \in Numbers, NEW i \in 0 .. NumMod
  PROVE  /\ After(i) \in Numbers
         /\ After(i) = IF messageNumber + i < NumMod THEN messageNumber + i
                       ELSE messageNumber + i - NumMod
<1>1. NumMod \in Nat \ {0}
  BY BusAssumption
<1> DEFINE a == messageNumber + i
<1>2. a \in Int /\ -NumMod <= a /\ a < NumMod + NumMod /\ ~ (a < 0)
  BY <1>1 DEF Numbers
<1>3. After(i) = a % NumMod
  BY DEF After
<1> HIDE DEF a
<1>4. a % NumMod = IF a < NumMod THEN a ELSE a - NumMod
  BY <1>1, <1>2, Around
<1> QED
  BY <1>1, <1>2, <1>3, <1>4 DEF Numbers, a

\* When n frames are sent a number that is not used again meanwhile ages by n.
LEMMA AgeGrows ==
  ASSUME messageNumber \in Numbers, NEW k \in Numbers, NEW n \in 0 .. NumMod,
         messageNumber' = After(n), Age(k) + n < NumMod
  PROVE  Age(k)' = Age(k) + n
<1>1. NumMod \in Nat \ {0}
  BY BusAssumption
<1>2. messageNumber' \in Numbers
      /\ messageNumber' = IF messageNumber + n < NumMod THEN messageNumber + n
                          ELSE messageNumber + n - NumMod
  BY AfterIs
<1>3. Age(k) = IF k <= messageNumber THEN messageNumber - k ELSE messageNumber - k + NumMod
  BY AgeIs
<1>4. messageNumber' - k \in Int /\ -NumMod <= messageNumber' - k /\ messageNumber' - k < NumMod
  BY <1>1, <1>2 DEF Numbers
<1>5. Age(k)' = IF messageNumber' - k < 0 THEN messageNumber' - k + NumMod
                ELSE messageNumber' - k
  BY <1>1, <1>4, Around DEF Age
<1> QED
  BY <1>1, <1>2, <1>3, <1>5 DEF Numbers

\* The i-th of n frames that are sent is n - i frames old, and its number is that of
\* no frame that stays on the bus.
LEMMA AgeOfNew ==
  ASSUME messageNumber \in Numbers, NEW n \in 1 .. NumMod, NEW i \in 1 .. n,
         messageNumber' = After(n), NEW k, k = After(i)
  PROVE  k \in Numbers /\ Age(k)' = n - i /\ Age(k) + n >= NumMod
<1>1. NumMod \in Nat \ {0}
  BY BusAssumption
<1>2. i \in 0 .. NumMod /\ n \in 0 .. NumMod
  BY <1>1
<1>3. k \in Numbers
      /\ k = IF messageNumber + i < NumMod THEN messageNumber + i
             ELSE messageNumber + i - NumMod
  BY <1>2, AfterIs
<1>4. messageNumber' \in Numbers
      /\ messageNumber' = IF messageNumber + n < NumMod THEN messageNumber + n
                          ELSE messageNumber + n - NumMod
  BY <1>2, AfterIs
<1>5. Age(k) = IF k <= messageNumber THEN messageNumber - k
               ELSE messageNumber - k + NumMod
  BY <1>3, AgeIs
<1>6. /\ messageNumber' - k \in Int /\ -NumMod <= messageNumber' - k
      /\ messageNumber' - k < NumMod
  BY <1>1, <1>3, <1>4 DEF Numbers
<1>7. Age(k)' = IF messageNumber' - k < 0 THEN messageNumber' - k + NumMod
                ELSE messageNumber' - k
  BY <1>1, <1>6, Around DEF Age
<1> QED
  BY <1>1, <1>3, <1>4, <1>5, <1>7 DEF Numbers

-----------------------------------------------------------------------------
(* What may happen on the bus.                                              *)

Shrinks ==
  messageNumber' = messageNumber /\ requests' \subseteq requests /\ replies' \subseteq replies

\* n frames are sent; new are those that will reach a device.
Sends(n, new) ==
  /\ messageNumber' = After(n)
  /\ requests' = Recent(requests, n) \cup new
  /\ replies' = Recent(replies, n)
  /\ \A f \in new : \E i \in 1 .. n : f.num = After(i)
  /\ \A f, g \in new : f.to = g.to /\ f.num = g.num => f = g

\* f reaches its device, which answers or does not.
Arrives(f, answers) ==
  /\ NextRequest(f) /\ f \in requests
  /\ messageNumber' = messageNumber /\ requests' = requests \ {f}
  /\ replies' = replies \cup answers
  /\ \A a \in answers : a.from = f.to /\ a.num = f.num /\ a.re = f.type
  /\ \A a, b \in answers : a = b

BusMoves ==
  \/ Shrinks
  \/ \E n \in 0 .. NumMod : \E new : Sends(n, new)
  \/ \E f, answers : Arrives(f, answers)

\* What stays on the bus grows older by n; what is new is younger than that.
LEMMA SentAges ==
  ASSUME RestOK, BusOK, NEW n \in 0 .. NumMod, NEW new, Sends(n, new)
  PROVE  /\ \A f \in Recent(requests, n) : Age(f.num)' = Age(f.num) + n
         /\ \A r \in Recent(replies, n) : Age(r.num)' = Age(r.num) + n
         /\ \A f \in new : f.num \in Numbers /\ Age(f.num)' < n /\ Age(f.num)' >= 0
<1>1. messageNumber \in Numbers /\ messageNumber' = After(n)
  BY DEF RestOK, Numbers, Sends
<1>2. ASSUME NEW f \in Recent(requests, n) PROVE Age(f.num)' = Age(f.num) + n
  <2>1. f.num \in Numbers /\ Age(f.num) + n < NumMod
    BY DEF BusOK, Recent
  <2> QED
    BY <1>1, <2>1, AgeGrows
<1>3. ASSUME NEW r \in Recent(replies, n) PROVE Age(r.num)' = Age(r.num) + n
  <2>1. r.num \in Numbers /\ Age(r.num) + n < NumMod
    BY DEF BusOK, Recent
  <2> QED
    BY <1>1, <2>1, AgeGrows
<1>4. ASSUME NEW f \in new
      PROVE  f.num \in Numbers /\ Age(f.num)' < n /\ Age(f.num)' >= 0
  <2>1. PICK i \in 1 .. n : f.num = After(i)
    BY DEF Sends
  <2>2. n \in 1 .. NumMod
    BY <2>1
  <2>3. f.num \in Numbers /\ Age(f.num)' = n - i
    BY <1>1, <2>1, <2>2, AgeOfNew
  <2> QED
    BY <2>1, <2>2, <2>3
<1> QED
  BY <1>2, <1>3, <1>4

\* Sending keeps the bus in order.
LEMMA SendsBus ==
  ASSUME RestOK, BusOK, NEW n \in 0 .. NumMod, NEW new, Sends(n, new)
  PROVE  BusOK'
<1> DEFINE A(k) == Age(k)
           B(k) == (messageNumber' - k) % NumMod
<1>0. \A k : Age(k)' = B(k)
  BY DEF Age
<1>1. /\ \A f \in Recent(requests, n) : B(f.num) = A(f.num) + n
      /\ \A r \in Recent(replies, n) : B(r.num) = A(r.num) + n
      /\ \A f \in new : f.num \in Numbers /\ B(f.num) < n /\ B(f.num) >= 0
  BY <1>0, SentAges
<1>2. /\ requests' = Recent(requests, n) \cup new /\ replies' = Recent(replies, n)
      /\ Recent(requests, n) \subseteq requests /\ Recent(replies, n) \subseteq replies
  BY DEF Sends, Recent
<1>3. /\ \A f \in requests : f.num \in Numbers /\ A(f.num) \in Nat
      /\ \A r \in replies : r.num \in Numbers /\ A(r.num) \in Nat
  BY AgeIs, BusAssumption DEF BusOK, RestOK, Numbers
<1>4. n \in Nat /\ \A f \in new : B(f.num) \in Int
  <2>1. messageNumber' \in Int /\ NumMod \in Nat \ {0}
    BY AfterIs, BusAssumption DEF RestOK, Sends, Numbers
  <2> QED
    BY <1>1, <2>1 DEF Numbers
<1>5. \A f \in requests, r \in replies : f.to = r.from => A(f.num) < A(r.num)
  BY DEF BusOK
<1> HIDE DEF A, B
<1>6. ASSUME NEW f \in requests', NEW g \in requests', f.to = g.to, f.num = g.num
      PROVE  f = g
  <2>1. CASE f \in Recent(requests, n) /\ g \in Recent(requests, n)
    BY <1>2, <1>6, <2>1 DEF BusOK
  <2>2. CASE f \in new /\ g \in new
    BY <1>6, <2>2 DEF Sends
  <2>3. ASSUME NEW x \in Recent(requests, n), NEW y \in new, x.num = y.num
        PROVE  FALSE
    <3>1. B(x.num) = A(x.num) + n /\ A(x.num) \in Nat /\ B(x.num) < n
      BY <1>1, <1>2, <1>3, <2>3 DEF Recent
    <3> QED
      BY <1>4, <3>1
  <2> QED
    BY <1>2, <1>6, <2>1, <2>2, <2>3
<1>7. ASSUME NEW f \in requests', NEW r \in replies', f.to = r.from
      PROVE  B(f.num) < B(r.num)
  <2>1. B(r.num) = A(r.num) + n /\ A(r.num) \in Nat
    BY <1>1, <1>2, <1>3
  <2>2. CASE f \in Recent(requests, n)
    <3>1. A(f.num) < A(r.num) /\ A(f.num) \in Nat /\ B(f.num) = A(f.num) + n
      BY <1>1, <1>2, <1>3, <1>5, <1>7, <2>2
    <3> QED
      BY <1>4, <2>1, <3>1
  <2>3. CASE f \in new
    <3>1. B(f.num) < n /\ B(f.num) \in Int
      BY <1>1, <1>4, <2>3
    <3> QED
      BY <1>4, <2>1, <3>1
  <2> QED
    BY <1>2, <2>2, <2>3
<1>8. (\A f \in requests' : f.num \in Numbers) /\ (\A r \in replies' : r.num \in Numbers)
  BY <1>1, <1>2, <1>3
<1>9. \A r, s \in replies' : r.from = s.from /\ r.num = s.num => r = s
  BY <1>2 DEF BusOK
<1> QED
  BY <1>0, <1>6, <1>7, <1>8, <1>9 DEF BusOK

\* So does every other thing that may happen there.
LEMMA BusKept ==
  ASSUME RestOK, BusOK, BusMoves
  PROVE  BusOK'
<1>1. CASE Shrinks
  <2>1. \A k : Age(k)' = Age(k)
    BY <1>1 DEF Shrinks, Age
  <2> QED
    BY <1>1, <2>1 DEF Shrinks, BusOK
<1>2. ASSUME NEW f, NEW answers, Arrives(f, answers) PROVE BusOK'
  <2>1. \A k : Age(k)' = Age(k)
    BY <1>2 DEF Arrives, Age
  <2>2. /\ f \in requests /\ requests' = requests \ {f} /\ replies' = replies \cup answers
        /\ \A a \in answers : a.from = f.to /\ a.num = f.num
        /\ \A a, b \in answers : a = b
        /\ \A g \in requests : g.to = f.to => Age(g.num) <= Age(f.num)
    BY <1>2 DEF Arrives, NextRequest
  <2>3. \A g \in requests : g.num \in Numbers /\ Age(g.num) \in Int
    BY AgeIs DEF BusOK, RestOK, Numbers
  <2>4. ASSUME NEW g \in requests', NEW r \in replies', g.to = r.from
        PROVE  Age(g.num) < Age(r.num)
    <3>1. CASE r \in answers
      <4>1. g.to = f.to /\ g # f /\ r.num = f.num
        BY <2>2, <2>4, <3>1
      <4>2. g.num # f.num
        BY <2>2, <4>1 DEF BusOK
      <4>3. Age(g.num) # Age(f.num)
        BY <2>2, <2>3, <4>2, AgeTells DEF RestOK, Numbers
      <4> QED
        BY <2>2, <2>3, <4>1, <4>3
    <3>2. CASE r \in replies
      BY <2>2, <2>4, <3>2 DEF BusOK
    <3> QED
      BY <2>2, <3>1, <3>2
  <2>5. ASSUME NEW r \in replies', NEW s \in replies', r.from = s.from, r.num = s.num
        PROVE  r = s
    <3>1. ASSUME NEW a \in answers, NEW q \in replies, a.from = q.from, a.num = q.num
          PROVE  FALSE
      <4>1. Age(f.num) < Age(q.num) /\ q.num = f.num
        BY <2>2, <3>1 DEF BusOK
      <4> QED
        BY <2>2, <2>3, <4>1
    <3> QED
      BY <2>2, <2>5, <3>1 DEF BusOK
  <2>6. (\A g \in requests' : g.num \in Numbers) /\ (\A r \in replies' : r.num \in Numbers)
    BY <2>2 DEF BusOK
  <2>7. \A g, h \in requests' : g.to = h.to /\ g.num = h.num => g = h
    BY <2>2 DEF BusOK
  <2> QED
    BY <2>1, <2>4, <2>5, <2>6, <2>7 DEF BusOK
<1> QED
  BY <1>1, <1>2, SendsBus DEF BusMoves

\* A send function is one frame to each device it reaches.
Frames(dst, type, arg) ==
  {[to |-> v, dst |-> dst, type |-> type, num |-> NextNumber, arg |-> arg] : v \in Reached(dst)}

LEMMA TransmitSends ==
  ASSUME RestOK, NEW dst, NEW type, NEW arg, Transmit(dst, type, arg)
  PROVE  1 \in 0 .. NumMod /\ Sends(1, Frames(dst, type, arg))
<1>1. NextNumber = After(1) /\ 1 \in 0 .. NumMod
  BY BusAssumption DEF NextNumber, After
<1>2. \A f \in Frames(dst, type, arg) : f.num = NextNumber
  BY DEF Frames
<1>3. \A f, g \in Frames(dst, type, arg) : f.to = g.to => f = g
  BY DEF Frames
<1>4. /\ requests' = Recent(requests, 1) \cup Frames(dst, type, arg)
      /\ replies' = Recent(replies, 1) /\ messageNumber' = NextNumber
  BY DEF Transmit, Frames
<1> HIDE DEF Frames
<1> QED
  BY <1>1, <1>2, <1>3, <1>4 DEF Sends

\* probeAll
LEMMA ProbeAllSends ==
  ASSUME RestOK, ProbeAll
  PROVE  /\ MaxDeviceCount - 1 \in 0 .. NumMod
         /\ \E new : Sends(MaxDeviceCount - 1, new) /\ \A f \in new : f.type = "Probe"
<1> DEFINE k == MaxDeviceCount - 1
           Dst(b, i) == IF b THEN kReservedUID ELSE i
           Probes(b, i) == {[to |-> v, dst |-> Dst(b, i), type |-> "Probe",
                             num |-> (messageNumber + i) % NumMod, arg |-> 0]
                              : v \in Reached(Dst(b, i))}
           New(b) == UNION {Probes(b, i) : i \in 1 .. k}
<1>1. PICK b \in Broadcasts :
        /\ messageNumber' = After(k)
        /\ requests' = Recent(requests, k) \cup New(b)
        /\ replies' = Recent(replies, k)
  BY DEF ProbeAll, After
<1>2. k \in 0 .. NumMod
  BY BusAssumption
<1>3. ASSUME NEW f \in New(b)
      PROVE  f.type = "Probe" /\ \E i \in 1 .. k : f.num = After(i) /\ f.dst = Dst(b, i)
                /\ f = [to |-> f.to, dst |-> f.dst, type |-> "Probe", num |-> f.num, arg |-> 0]
  <2>1. PICK i \in 1 .. k : f \in Probes(b, i)
    OBVIOUS
  <2> QED
    BY <2>1 DEF After
<1>4. ASSUME NEW f \in New(b), NEW g \in New(b), f.to = g.to, f.num = g.num
      PROVE  f = g
  <2>1. PICK i \in 1 .. k : /\ f.num = After(i) /\ f.dst = Dst(b, i)
                            /\ f = [to |-> f.to, dst |-> f.dst, type |-> "Probe",
                                    num |-> f.num, arg |-> 0]
    BY <1>3
  <2>2. PICK j \in 1 .. k : /\ g.num = After(j) /\ g.dst = Dst(b, j)
                            /\ g = [to |-> g.to, dst |-> g.dst, type |-> "Probe",
                                    num |-> g.num, arg |-> 0]
    BY <1>3
  <2>3. k \in 1 .. NumMod /\ messageNumber \in Numbers
    BY <1>2, <2>1 DEF RestOK, Numbers
  <2> HIDE DEF k, Dst
  <2>4. Age(f.num)' = k - i
    BY <1>1, <2>1, <2>3, AgeOfNew
  <2>5. Age(f.num)' = k - j
    BY <1>1, <1>4, <2>2, <2>3, AgeOfNew
  <2>6. i = j
    BY <1>2, <2>4, <2>5
  <2> QED
    BY <1>4, <2>1, <2>2, <2>6
<1> HIDE DEF New, k
<1>5. Sends(k, New(b)) /\ \A f \in New(b) : f.type = "Probe"
  BY <1>1, <1>3, <1>4 DEF Sends
<1> QED
  BY <1>2, <1>5 DEF k

\* RsHandler::process on a device.
LEMMA ReceiveArrives ==
  ASSUME NEW f \in requests, NEW code, NodeReceive(f, code)
  PROVE  \E answers : Arrives(f, answers)
<1> DEFINE answers == {[from |-> f.to, type |-> a.type, num |-> f.num, code |-> a.code,
                        re |-> f.type] : a \in Reply(f.type, code)}
<1>1. \A a, b \in Reply(f.type, code) : a = b
  BY DEF Reply, ApplicationDecides
<1>2. \A a \in answers : a.from = f.to /\ a.num = f.num /\ a.re = f.type
  OBVIOUS
<1>3. \A a, b \in answers : a = b
  BY <1>1
<1>4. /\ NextRequest(f) /\ messageNumber' = messageNumber /\ requests' = requests \ {f}
      /\ replies' = replies \cup answers
  BY DEF NodeReceive, hubVars
<1> HIDE DEF answers
<1> QED
  BY <1>2, <1>3, <1>4 DEF Arrives

-----------------------------------------------------------------------------
(* What an iteration of process does to a device and to the bus.            *)

Totals == {f.total : f \in Files}

\* What the switch may make of u's record when it sends nothing.
QuietTurn(u, b) ==
  LET d == hub[u]
  IN  \/ b.state = d.state /\ b.file = d.file
      \/ d.state = "Lost" /\ b.state = "Probing"
      \/ /\ d.state = "FileTransfer" /\ b.state = "FileTransfer" /\ d.file.state = "Sending"
         /\ b.file.total = d.file.total /\ ~ b.file.first /\ b.file.ack = "None"
      \/ /\ FileCancel(u) /\ d.state = "FileTransfer"
         /\ \/ b.state = "Running"
            \/ b.state = "FileTransfer" /\ b.file.state = "Request" /\ b.file.total \in Totals

\* What it may make of it when it sends a frame of this type to dst.
AskTurn(u, b, dst, type) ==
  LET d == hub[u]
  IN  /\ b.state = d.state /\ b.file.total = d.file.total
      /\ type \in FileTypes => dst = u /\ d.state = "FileTransfer"
      /\ type # "FileWriteChunk" => b.file = d.file
      /\ type = "FileWriteChunk" =>
           /\ d.file.state = "Sending" /\ ~ b.file.first
           /\ \/ d.file.first /\ b.file.ack = d.file.ack
              \/ d.file.ack # "None" /\ b.file.ack = "None"

\* What the timeout check may make of the record b.
CheckedTurn(b, e) ==
  \/ e = b
  \/ /\ Awaiting(b) /\ e.pending = NoPending
     /\ \/ e.state = "Lost" /\ e.file.total = b.file.total
        \/ e.state = b.state /\ e.state # "FileTransfer"
        \/ /\ e.state = "FileTransfer" /\ e.file.state = "Cancel"
           /\ \/ b.state = "FileTransfer" /\ e.file.total = b.file.total
              \/ b.state = "Running" /\ e.file.total \in Totals

Turn(u) ==
  \E b, e :
    /\ hub' = [hub EXCEPT ![u] = e] /\ CheckedTurn(b, e) /\ PendingOK(e)
    /\ \/ /\ UNCHANGED <<messageNumber, requests, replies>>
          /\ b.pending = hub[u].pending /\ QuietTurn(u, b)
       \/ \E dst \in Nat, type \in MessageType, arg \in Nat :
            /\ Transmit(dst, type, arg)
            /\ b.pending = Asked(type) /\ AskTurn(u, b, dst, type)

\* Every iteration.
LEMMA VisitTurn ==
  ASSUME HubOK, RestOK, NEW u \in scan, Visit(u)
  PROVE  Turn(u)
<1> DEFINE o == hub[u]
<1>1. PICK d, next, e :
        /\ Switch(u, d, next) /\ Checked(d, next, lag, e)
        /\ DeviceOK(e) /\ PendingOK(e) /\ hub' = [hub EXCEPT ![u] = e]
  BY VisitSwitches
<1>2. /\ DeviceOK(d) /\ o.file \in FileTransferContext
      /\ Silent(u, d, next) \/ Asking(u, d, next)
  BY <1>1, Visited DEF Switch
<1>3. PICK b : /\ CheckedTurn(b, e)
               /\ b.state = d.state /\ b.pending = d.pending /\ b.file = d.file
  <2>1. CASE e.state = d.state /\ e.pending = d.pending /\ e.file = d.file
    BY <2>1 DEF CheckedTurn
  <2>2. CASE Awaiting(d) /\ e.pending = NoPending /\ TimesOut(d, e)
    <3>1. \/ e.state = "Lost" /\ e.file.total = d.file.total
          \/ e.state = d.state /\ e.state # "FileTransfer"
          \/ /\ e.state = "FileTransfer" /\ e.file.state = "Cancel"
             /\ \/ d.state = "FileTransfer" /\ e.file.total = d.file.total
                \/ d.state = "Running" /\ e.file.total \in Totals
      BY <2>2 DEF TimesOut, Totals
    <3> QED
      BY <2>2, <3>1 DEF CheckedTurn
  <2> QED
    BY <1>1, <2>1, <2>2 DEF Checked
<1>4. /\ Forget(o.file).total = o.file.total /\ Forget(o.file).first = o.file.first
      /\ Forget(o.file).ack = "None"
      /\ LET c == Advanced(Forget(o.file)) IN
           c.total = o.file.total /\ c.first = o.file.first /\ c.ack = "None"
      /\ LET c == Cancelled(Forget(o.file)) IN
           c.total = o.file.total /\ c.first = o.file.first /\ c.ack = "None"
      /\ LET c == [o.file EXCEPT !.first = FALSE] IN
           c.total = o.file.total /\ ~ c.first /\ c.ack = o.file.ack
  BY <1>2 DEF Forget, Advanced, Cancelled, FileTransferContext
<1>5. CASE Silent(u, d, next)
  <2>1. \/ d.state = o.state /\ d.file = o.file
        \/ o.state = "Lost" /\ d.state = "Probing"
        \/ /\ o.state = "FileTransfer" /\ d.state = "FileTransfer" /\ o.file.state = "Sending"
           /\ d.file.total = o.file.total /\ ~ d.file.first /\ d.file.ack = "None"
        \/ /\ FileCancel(u) /\ o.state = "FileTransfer"
           /\ \/ d.state = "Running"
              \/ d.state = "FileTransfer" /\ d.file.state = "Request" /\ d.file.total \in Totals
    BY <1>4, <1>5 DEF Silent, Settles, Started, Totals
  <2>2. QuietTurn(u, b)
    BY <1>3, <2>1 DEF QuietTurn
  <2> QED
    BY <1>1, <1>3, <1>5, <2>2 DEF Turn, Silent
<1>6. CASE Asking(u, d, next)
  <2>1. PICK dst \in Nat, type \in MessageType, arg \in Nat :
          /\ Transmit(dst, type, arg) /\ Addressed(u, dst, type)
          /\ d.pending = Asked(type) /\ Issues(o, d, type, arg)
    BY <1>6 DEF Asking
  <2>2. type \in FileTypes => dst = u /\ o.state = "FileTransfer"
    <3>1. CASE type \in FileTypes
      <4>1. o.state = "FileTransfer" /\ type # "DeviceInfoReq" /\ u \in Nodes
        BY <2>1, <3>1, Visited DEF Issues, FileTypes
      <4>2. UidOf(o.name) = u
        BY <4>1, OwnName
      <4> QED
        BY <2>1, <4>1, <4>2 DEF Addressed
    <3> QED
      BY <3>1
  <2>3. AskTurn(u, b, dst, type)
    BY <1>3, <1>4, <2>1, <2>2 DEF AskTurn, Issues, FileTypes
  <2> QED
    BY <1>1, <1>3, <2>1, <2>3 DEF Turn
<1> QED
  BY <1>2, <1>5, <1>6

-----------------------------------------------------------------------------
(* What a step does to the numbers on the bus for one device.               *)

\* What is on the bus for v after frames were sent is new or was there before.
LEMMA AbroadSends ==
  ASSUME RestOK, BusOK, NEW n \in 0 .. NumMod, NEW new, Sends(n, new),
         NEW v, NEW types, NEW k, k \in Abroad(v, types)'
  PROVE  \/ \E f \in new : f.to = v /\ f.type \in types /\ f.num = k
         \/ k \in Abroad(v, types) /\ k \in Numbers /\ Age(k) + n < NumMod
<1>1. /\ requests' = Recent(requests, n) \cup new /\ replies' = Recent(replies, n)
      /\ \A f \in Recent(requests, n) : f \in requests /\ Age(f.num) + n < NumMod
      /\ \A r \in Recent(replies, n) : r \in replies /\ Age(r.num) + n < NumMod
  BY DEF Sends, Recent
<1>2. CASE \E f \in requests' : f.to = v /\ f.type \in types /\ f.num = k
  BY <1>1, <1>2 DEF Abroad, BusOK
<1>3. CASE \E r \in replies' : r.from = v /\ r.re \in types /\ r.num = k
  BY <1>1, <1>3 DEF Abroad, BusOK
<1> QED
  BY <1>2, <1>3 DEF Abroad

\* A frame that arrives leaves its number to its answer.
LEMMA AbroadOld ==
  ASSUME Shrinks \/ \E f, answers : Arrives(f, answers), NEW v, NEW types
  PROVE  Abroad(v, types)' \subseteq Abroad(v, types) /\ messageNumber' = messageNumber
<1>1. CASE Shrinks
  BY <1>1 DEF Shrinks, Abroad
<1>2. ASSUME NEW f, NEW answers, Arrives(f, answers)
      PROVE  Abroad(v, types)' \subseteq Abroad(v, types) /\ messageNumber' = messageNumber
  BY <1>2 DEF Arrives, Abroad
<1> QED
  BY <1>1, <1>2

LEMMA AbroadNumbers ==
  ASSUME BusOK, NEW v, NEW types
  PROVE  Abroad(v, types) \subseteq Numbers
BY DEF BusOK, Abroad

\* No file frame for v is sent.
BusRests(v) ==
  \/ Shrinks
  \/ \E f, answers : Arrives(f, answers)
  \/ \E n \in 0 .. NumMod : \E new :
       Sends(n, new) /\ \A f \in new : f.to = v => f.type \notin FileTypes

\* What is on the bus for v of a transfer was there before, and stays in order with
\* any other number.
LEMMA RestingBus ==
  ASSUME RestOK, BusOK, NEW v, BusRests(v), NEW types, types \subseteq FileTypes
  PROVE  /\ Abroad(v, types)' \subseteq Abroad(v, types)
         /\ \A k \in Abroad(v, types)' : \A p \in Numbers :
              Age(p) <= Age(k) => Age(p)' <= Age(k)'
<1>1. messageNumber \in Numbers /\ NumMod \in Nat
  BY BusAssumption DEF RestOK, Numbers
<1>2. CASE Shrinks \/ \E f, answers : Arrives(f, answers)
  <2>1. Abroad(v, types)' \subseteq Abroad(v, types) /\ messageNumber' = messageNumber
    BY <1>2, AbroadOld
  <2> QED
    BY <2>1 DEF Age
<1>3. ASSUME NEW n \in 0 .. NumMod, NEW new, Sends(n, new),
             \A f \in new : f.to = v => f.type \notin FileTypes
      PROVE  /\ Abroad(v, types)' \subseteq Abroad(v, types)
             /\ \A k \in Abroad(v, types)' : \A p \in Numbers :
                  Age(p) <= Age(k) => Age(p)' <= Age(k)'
  <2>1. messageNumber' = After(n)
    BY <1>3 DEF Sends
  <2>2. ASSUME NEW k, k \in Abroad(v, types)'
        PROVE  k \in Abroad(v, types) /\ k \in Numbers /\ Age(k) + n < NumMod
    BY <1>3, <2>2, AbroadSends
  <2>3. ASSUME NEW k, k \in Abroad(v, types)', NEW p \in Numbers, Age(p) <= Age(k)
        PROVE  Age(p)' <= Age(k)'
    <3>1. k \in Numbers /\ Age(k) + n < NumMod
      BY <2>2, <2>3
    <3>2. Age(k) \in Int /\ Age(p) \in Int
      BY <1>1, <3>1, AgeIs DEF Numbers
    <3>3. Age(p) + n < NumMod
      BY <1>1, <2>3, <3>1, <3>2
    <3>4. Age(k)' = Age(k) + n
      BY <1>1, <2>1, <3>1, AgeGrows
    <3>5. Age(p)' = Age(p) + n
      BY <1>1, <2>1, <3>3, AgeGrows
    <3> QED
      BY <2>3, <3>2, <3>4, <3>5
  <2> QED
    BY <2>2, <2>3
<1> QED
  BY <1>2, <1>3 DEF BusRests

\* The answer to the pending request is the last thing of a transfer on the bus.
LEMMA AnswerIsLast ==
  ASSUME RestOK, BusOK, PendingLast, NEW r \in replies, Matches(hub[r.from], r), Receive(r)
  PROVE  Abroad(r.from, FileTypes)' = {}
<1> DEFINE u == r.from
           p == r.num
<1>1. /\ u \in Nodes /\ p \in Numbers /\ hub[u].pending.num = p /\ Awaiting(hub[u])
      /\ messageNumber \in Numbers
  BY DEF RestOK, ReplyFrame, BusOK, Matches, Numbers
<1>2. \A k \in Abroad(u, FileTypes) : Age(p) <= Age(k)
  BY <1>1 DEF PendingLast
<1>3. ASSUME NEW f \in requests', f.to = u, f.type \in FileTypes PROVE FALSE
  <2>1. f \in requests /\ Age(f.num) < Age(p) /\ f.num \in Numbers
    BY <1>3 DEF Receive, BusOK
  <2>2. Age(p) <= Age(f.num)
    BY <1>2, <1>3, <2>1 DEF Abroad
  <2>3. Age(p) \in Int /\ Age(f.num) \in Int
    BY <1>1, <2>1, AgeIs DEF Numbers
  <2> QED
    BY <2>1, <2>2, <2>3
<1>4. ASSUME NEW q \in replies', q.from = u, q.re \in FileTypes PROVE FALSE
  <2>1. q \in replies /\ q # r /\ Age(q.num) <= Age(p) /\ q.num \in Numbers
    BY <1>4 DEF Receive, NextReply, BusOK
  <2>2. q.num # p
    BY <1>4, <2>1 DEF BusOK
  <2>3. Age(p) <= Age(q.num)
    BY <1>2, <1>4, <2>1 DEF Abroad
  <2>4. Age(p) \in Int /\ Age(q.num) \in Int /\ Age(p) # Age(q.num)
    BY <1>1, <2>1, <2>2, AgeIs, AgeTells DEF Numbers
  <2> QED
    BY <2>1, <2>3, <2>4
<1> QED
  BY <1>3, <1>4 DEF Abroad

-----------------------------------------------------------------------------
(* What a step does to a device, as far as the order of its frames goes.    *)

\* No file frame is sent to v, and its next chunk may be sent only if it might before
\* or nothing of the transfer is under way.
Rests(v) ==
  LET d == hub[v]
      e == hub'[v]
  IN  /\ BusRests(v)
      /\ Awaiting(e) => /\ Awaiting(d) /\ e.pending.num = d.pending.num
                        /\ e.pending.type = d.pending.type
                        /\ e.pending.type = "FileWriteFinalize" =>
                             e.file.total = d.file.total
      /\ Sending(e) => \/ Abroad(v, FileTypes)' = {}
                       \/ Sending(d) /\ (MaySend(e) => MaySend(d))

\* A frame is sent and awaited from v.
Asks(v) ==
  LET d == hub[v]
      e == hub'[v]
  IN  \E dst, type, arg :
        /\ Sends(1, Frames(dst, type, arg)) /\ type \in MessageType
        /\ type \in FileTypes => /\ dst = v /\ d.state = "FileTransfer"
                                 /\ e.file.total = d.file.total
        /\ type = "FileWriteChunk" =>
             Sending(d) /\ (d.file.first \/ d.file.ack # "None")
        /\ Awaiting(e) => e.pending = Asked(type)
        /\ Sending(e) => ~ MaySend(e)

Shape == BusMoves /\ \A v \in Nodes : Rests(v) \/ Asks(v)

\* An iteration is a step of this shape.
LEMMA TurnShape ==
  ASSUME HubOK, RestOK, NEW u \in Nodes, Turn(u)
  PROVE  Shape
<1>1. PICK b, e :
        /\ hub' = [hub EXCEPT ![u] = e] /\ CheckedTurn(b, e) /\ PendingOK(e)
        /\ \/ /\ UNCHANGED <<messageNumber, requests, replies>>
              /\ b.pending = hub[u].pending /\ QuietTurn(u, b)
           \/ \E dst \in Nat, type \in MessageType, arg \in Nat :
                /\ Transmit(dst, type, arg)
                /\ b.pending = Asked(type) /\ AskTurn(u, b, dst, type)
  BY DEF Turn
<1>2. hub'[u] = e /\ \A v \in Nodes \ {u} : hub'[v] = hub[v]
  BY <1>1 DEF HubOK
<1>3. ASSUME NEW v \in Nodes \ {u}, BusRests(v) PROVE Rests(v)
  BY <1>2, <1>3 DEF Rests
<1>4. Awaiting(e) => e = b
  BY <1>1 DEF CheckedTurn, NoPending, Awaiting
<1>5. Sending(e) => e = b
  BY <1>1 DEF CheckedTurn, Sending
<1>6. CASE /\ UNCHANGED <<messageNumber, requests, replies>>
           /\ b.pending = hub[u].pending /\ QuietTurn(u, b)
  <2>1. Shrinks
    BY <1>6 DEF Shrinks
  <2>2. Sending(b) => Sending(hub[u]) /\ (MaySend(b) => MaySend(hub[u]))
    BY <1>6 DEF QuietTurn, Sending, MaySend
  <2>3. b.pending.type = "FileWriteFinalize" => b.file.total = hub[u].file.total
    <3>1. b.pending.type = "FileWriteFinalize" =>
            hub[u].state # "Lost" /\ ~ FileCancel(u)
      BY <1>6 DEF HubOK, PendingOK, MayAwait, MayAwaitAt, FileCancel, TransferAt, Visiting
    <3> QED
      BY <1>6, <3>1 DEF QuietTurn
  <2>4. Rests(u)
    BY <1>2, <1>4, <1>5, <1>6, <2>1, <2>2, <2>3 DEF Rests, BusRests, Awaiting
  <2> QED
    BY <1>3, <2>1, <2>4 DEF BusRests, BusMoves, Shape
<1>7. ASSUME NEW dst \in Nat, NEW type \in MessageType, NEW arg \in Nat,
             Transmit(dst, type, arg), b.pending = Asked(type), AskTurn(u, b, dst, type)
      PROVE  Shape
  <2>1. 1 \in 0 .. NumMod /\ Sends(1, Frames(dst, type, arg))
    BY <1>7, TransmitSends
  <2>2. ASSUME NEW v \in Nodes \ {u} PROVE BusRests(v)
    <3>1. ASSUME NEW f \in Frames(dst, type, arg), f.to = v, f.type \in FileTypes
          PROVE  FALSE
      <4>1. f.type = type /\ f.to \in Reached(dst)
        BY <3>1 DEF Frames
      <4>2. dst = u /\ u # kReservedUID
        BY <1>7, <3>1, <4>1, BusAssumption DEF AskTurn, kReservedUID
      <4> QED
        BY <3>1, <4>1, <4>2 DEF Reached
    <3> QED
      BY <2>1, <3>1 DEF BusRests
  <2>3. /\ type = "FileWriteChunk" =>
             Sending(hub[u]) /\ (hub[u].file.first \/ hub[u].file.ack # "None")
        /\ Sending(e) => ~ MaySend(e)
    <3>1. type = "FileWriteChunk" =>
            /\ Sending(hub[u]) /\ (hub[u].file.first \/ hub[u].file.ack # "None")
            /\ ~ b.file.first
      BY <1>7 DEF AskTurn, Sending, FileTypes
    <3>2. Sending(e) => e.pending.type = type /\ type = "FileWriteChunk"
      <4>1. Sending(e) => e.pending.type = type
        BY <1>5, <1>7 DEF Asked
      <4>2. type # "None"
        BY DEF MessageType
      <4> QED
        BY <1>1, <4>1, <4>2 DEF Sending, PendingOK, MayAwait, MayAwaitAt
    <3> QED
      BY <1>5, <3>1, <3>2 DEF MaySend
  <2>4. type \in FileTypes => /\ dst = u /\ hub[u].state = "FileTransfer"
                              /\ e.file.total = hub[u].file.total
    <3>1. hub[u].state = "FileTransfer" => e.file.total = b.file.total
      BY <1>1, <1>7 DEF AskTurn, CheckedTurn
    <3> QED
      BY <1>7, <3>1 DEF AskTurn
  <2>5. Asks(u)
    BY <1>2, <1>4, <1>5, <1>7, <2>1, <2>3, <2>4 DEF Asks
  <2> QED
    BY <1>3, <2>1, <2>2, <2>5 DEF BusMoves, Shape
<1> QED
  BY <1>1, <1>6, <1>7

\* A step of one device that sends nothing.
LEMMA QuietShape ==
  ASSUME HubOK, Shrinks, NEW u \in Nodes, NEW e, hub' = [hub EXCEPT ![u] = e],
         Awaiting(e) => e.pending = hub[u].pending,
         e.pending.type = "FileWriteFinalize" => e.file.total = hub[u].file.total,
         Sending(e) => \/ Abroad(u, FileTypes)' = {}
                       \/ Sending(hub[u]) /\ (MaySend(e) => MaySend(hub[u]))
  PROVE  Shape
<1>1. hub'[u] = e /\ \A v \in Nodes \ {u} : hub'[v] = hub[v]
  BY DEF HubOK
<1>2. Rests(u)
  BY <1>1 DEF Rests, BusRests, Awaiting
<1>3. ASSUME NEW v \in Nodes \ {u} PROVE Rests(v)
  BY <1>1 DEF Rests, BusRests
<1> QED
  BY <1>2, <1>3 DEF Shape, BusMoves

\* The hub stays as it is.
LEMMA BusShape ==
  ASSUME hub' = hub, \A v : BusRests(v), BusMoves
  PROVE  Shape
BY DEF Shape, Rests

LEMMA ApplicationShape ==
  ASSUME IInv, Application
  PROVE  Shape
<1>1. HubOK /\ RestOK
  BY DEF IInv
<1>2. ASSUME NEW name \in Names, Registered(name)
      PROVE  LET d == hub[UidOf(name)] IN
             UidOf(name) \in Nodes /\ DeviceOK(d) /\ d \in DeviceWrapper
  <2>1. UidOf(name) \in Nodes
    BY <1>1, <1>2, InputAssumption DEF Registered, UidOf, HubOK
  <2> QED
    BY <1>1, <2>1 DEF HubOK, DeviceOK
<1>3. ASSUME NEW name \in Names, NEW e, Registered(name), Update(name, e),
             e.pending = hub[UidOf(name)].pending,
             \/ e.state = hub[UidOf(name)].state /\ e.file = hub[UidOf(name)].file
             \/ hub[UidOf(name)].state = "Running" /\ e.file.state = "Request"
      PROVE  Shape
  <2>1. UidOf(name) \in Nodes /\ hub' = [hub EXCEPT ![UidOf(name)] = e] /\ Shrinks
    BY <1>2, <1>3 DEF Update, Shrinks
  <2>2. hub[UidOf(name)].state = "Running" =>
          hub[UidOf(name)].pending.type # "FileWriteFinalize"
    BY <1>1, <2>1 DEF HubOK, PendingOK, MayAwait
  <2> QED
    BY <1>1, <1>3, <2>1, <2>2, QuietShape DEF Sending, MaySend
<1>4. CASE ProbeAll
  <2>1. MaxDeviceCount - 1 \in 0 .. NumMod
    BY <1>1, <1>4, ProbeAllSends
  <2>2. PICK new : Sends(MaxDeviceCount - 1, new) /\ \A f \in new : f.type = "Probe"
    BY <1>1, <1>4, ProbeAllSends
  <2>3. BusMoves /\ \A v : BusRests(v)
    BY <2>1, <2>2 DEF BusMoves, BusRests, FileTypes
  <2> QED
    BY <1>4, <2>3, BusShape DEF ProbeAll
<1>5. ASSUME NEW name \in Names, SendCmdToDevice(name) PROVE Shape
  <2> DEFINE d == hub[UidOf(name)]
             e == [d EXCEPT !.cmds = @ + 1]
  <2>1. Registered(name) /\ Update(name, e)
    BY <1>5 DEF SendCmdToDevice
  <2>2. e.state = d.state /\ e.pending = d.pending /\ e.file = d.file
    BY <1>2, <2>1 DEF DeviceWrapper
  <2> HIDE DEF e
  <2> QED
    BY <1>3, <2>1, <2>2
<1>6. ASSUME NEW name \in Names, SendBlobRequestToDevice(name) PROVE Shape
  <2> DEFINE d == hub[UidOf(name)]
             e == [d EXCEPT !.reqs = @ + 1]
  <2>1. Registered(name) /\ Update(name, e)
    BY <1>6 DEF SendBlobRequestToDevice
  <2>2. e.state = d.state /\ e.pending = d.pending /\ e.file = d.file
    BY <1>2, <2>1 DEF DeviceWrapper
  <2> HIDE DEF e
  <2> QED
    BY <1>3, <2>1, <2>2
<1>7. ASSUME NEW name \in Names, NEW period \in Periods, CreateSchedRequest(name, period)
      PROVE  Shape
  <2> DEFINE d == hub[UidOf(name)]
             unit == [period |-> period, age |-> Lower(uptime, period + MaxLag)]
             e == [d EXCEPT !.telem = Append(@, unit)]
  <2>1. Registered(name) /\ Update(name, e)
    BY <1>7 DEF CreateSchedRequest
  <2>2. e.state = d.state /\ e.pending = d.pending /\ e.file = d.file
    BY <1>2, <2>1 DEF DeviceWrapper
  <2> HIDE DEF e
  <2> QED
    BY <1>3, <2>1, <2>2
<1>8. ASSUME NEW name \in Names, NEW f \in Files, SendFile(name, f) PROVE Shape
  <2> DEFINE d == hub[UidOf(name)]
             e == StartFile(d, f)
  <2>1. Registered(name) /\ Update(name, e)
    BY <1>8 DEF SendFile
  <2>2. /\ e.pending = d.pending /\ d.state = "Running"
        /\ (e.state = d.state /\ e.file = d.file) \/ e.file.state = "Request"
    BY <1>2, <1>8, <2>1, StartFileOK DEF SendFile
  <2> HIDE DEF e
  <2> QED
    BY <1>3, <2>1, <2>2
<1> QED
  BY <1>4, <1>5, <1>6, <1>7, <1>8 DEF Application

LEMMA EnvironmentShape ==
  ASSUME IInv, Environment
  PROVE  Shape
<1>1. HubOK /\ RestOK
  BY DEF IInv
<1>2. ASSUME hub' = hub, Shrinks PROVE Shape
  BY <1>2, BusShape DEF BusRests, BusMoves
<1>3. ASSUME NEW f \in requests, LoseRequest(f) PROVE Shape
  BY <1>2, <1>3 DEF LoseRequest, Shrinks, hubVars
<1>4. ASSUME NEW f \in requests, NEW code \in Codes, NodeReceive(f, code) PROVE Shape
  <2>1. \E answers : Arrives(f, answers)
    BY <1>4, ReceiveArrives
  <2>2. hub' = hub
    BY <1>4 DEF NodeReceive, hubVars
  <2> QED
    BY <2>1, <2>2, BusShape DEF BusRests, BusMoves
<1>5. ASSUME NEW r \in replies, LoseReply(r) PROVE Shape
  BY <1>2, <1>5 DEF LoseReply, Shrinks, hubVars
<1>6. ASSUME NEW n \in Nodes, PowerOff(n) \/ PowerOn(n) PROVE Shape
  BY <1>2, <1>6 DEF PowerOff, PowerOn, Shrinks, hubVars
<1>7. CASE Tick
  <2>1. Shrinks
    BY <1>7 DEF Tick, Shrinks
  <2>2. ASSUME NEW v \in Nodes PROVE Rests(v)
    <3> DEFINE a == Aged(hub[v])
    <3>1. DeviceOK(hub[v]) /\ PendingOK(hub[v]) /\ hub[v] \in DeviceWrapper
      BY <1>1, <2>2 DEF HubOK, DeviceOK
    <3>2. /\ a.state = hub[v].state /\ a.file = hub[v].file /\ Awaiting(a) = Awaiting(hub[v])
      BY <3>1, AgedOK
    <3>3. a.pending.num = hub[v].pending.num /\ a.pending.type = hub[v].pending.type
      BY <3>1 DEF Aged, OlderPending, DeviceWrapper, PendingTrans
    <3> HIDE DEF a
    <3>4. hub'[v] = a \/ hub'[v] = hub[v]
      BY <1>7, <2>2 DEF Tick, a
    <3> QED
      BY <2>1, <3>2, <3>3, <3>4 DEF Rests, BusRests, Sending, MaySend
  <2> QED
    BY <2>1, <2>2 DEF Shape, BusMoves
<1> QED
  BY <1>3, <1>4, <1>5, <1>6, <1>7 DEF Environment

\* After the answer to the pending request nothing of a transfer is under way.
LEMMA HandleShape ==
  ASSUME IInv, BusOK, PendingLast, NEW r \in replies, Handle(r)
  PROVE  Shape
<1> DEFINE u == r.from
           d == hub[u]
<1>1. HubOK /\ RestOK
  BY DEF IInv
<1>2. u \in Nodes /\ r.code \in Result /\ Receive(r) /\ Shrinks
  BY <1>1, ReceiveOK DEF Handle, HandleAck, HandleBlobAnswer, HandleDeviceInfoAnswer,
                         HandleDeviceHealth, Receive, Shrinks
<1>3. d \in DeviceWrapper /\ DeviceOK(d) /\ PendingOK(d)
  BY <1>1, <1>2 DEF HubOK, DeviceOK
<1>4. Matches(d, r) => Abroad(u, FileTypes)' = {}
  BY <1>1, <1>2, AnswerIsLast
<1>5. ASSUME NEW again \in Agains, HandleAck(r, again) PROVE Shape
  <2> DEFINE e == IF d.state = "Absent" THEN NewDevice(uptime)
                  ELSE IF Matches(d, r) THEN Acked(d, r.code, again)
                  ELSE d
  <2>1. hub' = [hub EXCEPT ![u] = e]
    BY <1>5 DEF HandleAck
  <2>2. /\ NewDevice(uptime).state = "InfoRequest"
        /\ NewDevice(uptime).pending = NoPending
    BY DEF NewDevice
  <2>3. Acked(d, r.code, again).pending = NoPending
    BY <1>2, <1>3, AckedOK
  <2>4. Awaiting(e) => e.pending = d.pending
    BY <2>2, <2>3 DEF Awaiting, NoPending
  <2>5. Sending(e) => \/ Abroad(u, FileTypes)' = {}
                      \/ Sending(d) /\ (MaySend(e) => MaySend(d))
    BY <1>4, <2>2 DEF Sending
  <2>6. e.pending = NoPending \/ e = d
    BY <2>2, <2>3
  <2> HIDE DEF e
  <2>7. e.pending.type = "FileWriteFinalize" => e.file.total = d.file.total
    BY <2>6 DEF NoPending
  <2> QED
    BY <1>1, <1>2, <2>1, <2>4, <2>5, <2>7, QuietShape
<1>6. ASSUME NEW e, hub' = [hub EXCEPT ![u] = e],
             e = d \/ (Matches(d, r) /\ e.pending = NoPending)
      PROVE  Shape
  <2>1. Awaiting(e) => e.pending = d.pending
    BY <1>6 DEF Awaiting, NoPending
  <2>2. Sending(e) => \/ Abroad(u, FileTypes)' = {}
                      \/ Sending(d) /\ (MaySend(e) => MaySend(d))
    BY <1>4, <1>6
  <2>3. e.pending.type = "FileWriteFinalize" => e.file.total = d.file.total
    BY <1>6 DEF NoPending
  <2> QED
    BY <1>1, <1>2, <1>6, <2>1, <2>2, <2>3, QuietShape
<1>7. CASE HandleBlobAnswer(r) \/ HandleDeviceHealth(r)
  <2> DEFINE e == [d EXCEPT !.pending = NoPending]
  <2>1. (Matches(d, r) /\ hub' = [hub EXCEPT ![u] = e]) \/ hub' = [hub EXCEPT ![u] = d]
    BY <1>1, <1>2, <1>3, <1>7 DEF HandleBlobAnswer, HandleDeviceHealth, HubOK, DeviceWrapper
  <2>2. e.pending = NoPending
    BY <1>3 DEF DeviceWrapper
  <2> HIDE DEF e
  <2> QED
    BY <1>6, <2>1, <2>2
<1>8. CASE HandleDeviceInfoAnswer(r)
  <2> DEFINE a == [d EXCEPT !.pending = NoPending, !.name = NameOf[u], !.state = "Running"]
  <2>1. (Matches(d, r) /\ hub' = [hub EXCEPT ![u] = a]) \/ hub' = [hub EXCEPT ![u] = d]
    BY <1>8 DEF HandleDeviceInfoAnswer, Expected
  <2>2. a.pending = NoPending
    BY <1>3 DEF DeviceWrapper
  <2> HIDE DEF a
  <2> QED
    BY <1>6, <2>1, <2>2
<1> QED
  BY <1>5, <1>7, <1>8 DEF Handle

\* Every step.
LEMMA StepShape ==
  ASSUME IInv, BusOK, PendingLast, [Next]_vars
  PROVE  Shape
<1>1. CASE BeginPass \/ UNCHANGED vars
  BY <1>1, BusShape DEF BeginPass, vars, hubVars, Shrinks, BusRests, BusMoves
<1>2. ASSUME NEW u \in scan, Visit(u) PROVE Shape
  BY <1>2, VisitTurn, TurnShape DEF IInv, RestOK, Known
<1> QED
  BY <1>1, <1>2, ApplicationShape, EnvironmentShape, HandleShape DEF Next

-----------------------------------------------------------------------------
(* The invariants.                                                          *)

\* A frame that is sent is the youngest of all, whatever else is on the bus.
LEMMA AskedYoungest ==
  ASSUME RestOK, BusOK, NEW dst, NEW type, NEW arg, Sends(1, Frames(dst, type, arg)),
         NEW k, k = NextNumber
  PROVE  /\ k \in Numbers /\ Age(k)' = 0
         /\ \A l \in Numbers : Age(l)' \in Nat
         /\ \A f \in Recent(requests, 1) : f.num # k
         /\ \A r \in Recent(replies, 1) : r.num # k
<1>1. 1 \in 1 .. NumMod /\ 1 \in 0 .. NumMod /\ messageNumber \in Numbers
      /\ k = After(1) /\ messageNumber' = After(1) /\ NumMod \in Nat
  BY BusAssumption DEF RestOK, Numbers, Sends, NextNumber, After
<1>2. k \in Numbers /\ Age(k)' = 1 - 1 /\ Age(k) + 1 >= NumMod
  BY <1>1, AgeOfNew
<1>3. messageNumber' \in Numbers
  BY <1>1, AfterIs
<1>4. ASSUME NEW l \in Numbers PROVE Age(l)' \in Nat
  <2>1. messageNumber' - l \in Int /\ NumMod \in Nat \ {0}
    BY <1>3, BusAssumption DEF Numbers
  <2>2. (messageNumber' - l) % NumMod \in 0 .. NumMod - 1
    BY <2>1
  <2>3. (messageNumber' - l) % NumMod \in Nat
    BY <2>2
  <2> QED
    BY <2>3 DEF Age
<1>5. Age(k) \in Int
  BY <1>1, <1>2, AgeIs DEF Numbers
<1>6. \A f \in Recent(requests, 1) : f.num # k
  BY <1>1, <1>2, <1>5 DEF Recent
<1>7. \A r \in Recent(replies, 1) : r.num # k
  BY <1>1, <1>2, <1>5 DEF Recent
<1> QED
  BY <1>2, <1>4, <1>6, <1>7

\* What is sent takes the place of the pending request.
LEMMA PendingLastKept ==
  ASSUME RestOK, BusOK, BusOK', PendingLast, Shape
  PROVE  PendingLast'
<1>1. ASSUME NEW v \in Nodes, Awaiting(hub'[v]), NEW p, p = hub'[v].pending.num
      PROVE  p \in Numbers /\ \A k \in Abroad(v, FileTypes)' : Age(p)' <= Age(k)'
  <2>1. CASE Rests(v)
    <3>1. BusRests(v) /\ hub[v].pending.num = p /\ Awaiting(hub[v])
      BY <1>1, <2>1 DEF Rests
    <3>2. p \in Numbers /\ \A k \in Abroad(v, FileTypes) : Age(p) <= Age(k)
      BY <3>1 DEF PendingLast
    <3>3. /\ Abroad(v, FileTypes)' \subseteq Abroad(v, FileTypes)
          /\ \A k \in Abroad(v, FileTypes)' : Age(p) <= Age(k) => Age(p)' <= Age(k)'
      BY <3>1, <3>2, RestingBus
    <3> QED
      BY <3>2, <3>3
  <2>2. CASE Asks(v)
    <3>1. PICK dst, type, arg : /\ Sends(1, Frames(dst, type, arg))
                                /\ hub'[v].pending = Asked(type)
      BY <1>1, <2>2 DEF Asks
    <3>2. p = NextNumber
      BY <1>1, <3>1 DEF Asked
    <3>3. p \in Numbers /\ Age(p)' = 0 /\ \A k \in Numbers : Age(k)' \in Nat
      BY <3>1, <3>2, AskedYoungest
    <3>4. Abroad(v, FileTypes)' \subseteq Numbers
      BY DEF BusOK, Abroad
    <3>5. \A k \in Abroad(v, FileTypes)' : Age(k)' >= 0
      BY <3>3, <3>4
    <3> QED
      BY <3>3, <3>5
  <2> QED
    BY <2>1, <2>2 DEF Shape
<1>2. ASSUME NEW v \in Nodes, Awaiting(hub'[v])
      PROVE  /\ hub'[v].pending.num \in Numbers
             /\ \A k \in Abroad(v, FileTypes)' : Age(hub[v].pending.num)' <= Age(k)'
  <2>1. PICK p : p = hub'[v].pending.num
    OBVIOUS
  <2>2. p \in Numbers /\ \A k \in Abroad(v, FileTypes)' : Age(p)' <= Age(k)'
    BY <1>1, <1>2, <2>1
  <2> QED
    BY <2>1, <2>2 DEF Age
<1> QED
  BY <1>2 DEF PendingLast

\* The answer to a chunk leaves none behind, and after a chunk its answer is awaited.
LEMMA ChunksAloneKept ==
  ASSUME RestOK, BusOK, ChunksAlone, Shape
  PROVE  ChunksAlone'
<1> DEFINE Chunk == {"FileWriteChunk"}
<1>1. Chunk \subseteq FileTypes
  BY DEF FileTypes
<1>2. ASSUME NEW v \in Nodes, Sending(hub'[v]), MaySend(hub'[v])
      PROVE  Abroad(v, Chunk)' = {}
  <2>1. Rests(v)
    BY <1>2 DEF Shape, Asks
  <2>2. CASE Abroad(v, FileTypes)' = {}
    BY <2>2 DEF Abroad, FileTypes
  <2>3. CASE Sending(hub[v]) /\ MaySend(hub[v])
    <3>1. Abroad(v, Chunk) = {}
      BY <2>3 DEF ChunksAlone
    <3>2. Abroad(v, Chunk)' \subseteq Abroad(v, Chunk)
      BY <1>1, <2>1, RestingBus DEF Rests
    <3> QED
      BY <3>1, <3>2
  <2> QED
    BY <1>2, <2>1, <2>2, <2>3 DEF Rests
<1> QED
  BY <1>2 DEF ChunksAlone, Sending, MaySend

\* A chunk is sent to a device that is asked, when it may be, or early for an answer that
\* was left over.
LEMMA ChunkSentAlone ==
  ASSUME RestOK', ChunksAlone, AllAcksFit, Shape
  PROVE  SendsAlone
<1> SUFFICES ASSUME NEW f \in requests', f \notin requests, f.type = "FileWriteChunk",
                    ~ LeftOver(hub[f.to])
             PROVE  ChunksUnderWay(f.to) = {}
  BY DEF SendsAlone
<1> DEFINE v == f.to
<1>1. v \in Nodes
  BY DEF RestOK, Frame
<1>2. \A n, new : Sends(n, new) => f \in new
  BY DEF Sends, Recent
<1>3. CASE Rests(v)
  BY <1>2, <1>3 DEF Rests, BusRests, Shrinks, Arrives, FileTypes
<1>4. CASE Asks(v)
  <2>1. PICK dst, type, arg :
          /\ Sends(1, Frames(dst, type, arg))
          /\ type = "FileWriteChunk" =>
               Sending(hub[v]) /\ (hub[v].file.first \/ hub[v].file.ack # "None")
    BY <1>4 DEF Asks
  <2>2. type = "FileWriteChunk"
    BY <1>2, <2>1 DEF Frames
  <2>3. MaySend(hub[v])
    BY <1>1, <2>1, <2>2 DEF MaySend, LeftOver, AllAcksFit, AckFits
  <2>4. Abroad(v, {"FileWriteChunk"}) = {}
    BY <1>1, <2>1, <2>2, <2>3 DEF ChunksAlone
  <2> QED
    BY <2>4 DEF ChunksUnderWay, Abroad
<1> QED
  BY <1>1, <1>3, <1>4 DEF Shape

\* While no number is used again the pending request is told by its own.
LEMMA PendingToldKept ==
  ASSUME RestOK, BusOK, PendingTold, Shape, NumbersFree
  PROVE  PendingTold'
<1>1. ASSUME NEW v \in Nodes, Awaiting(hub'[v])
      PROVE  /\ \A f \in requests' : f.to = v /\ f.num = hub'[v].pending.num =>
                                       f.type = hub'[v].pending.type
             /\ \A r \in replies' : r.from = v /\ r.num = hub'[v].pending.num =>
                                      r.re = hub'[v].pending.type
  <2>1. CASE Rests(v)
    <3> DEFINE p == hub[v].pending
    <3>1. /\ Awaiting(hub[v]) /\ hub'[v].pending.num = p.num
          /\ hub'[v].pending.type = p.type
      BY <1>1, <2>1 DEF Rests
    <3>2. /\ \A f \in requests : f.to = v /\ f.num = p.num => f.type = p.type
          /\ \A r \in replies : r.from = v /\ r.num = p.num => r.re = p.type
      BY <3>1 DEF PendingTold
    <3>3. \A f \in requests' : f.to = v /\ f.num = p.num => f.type = p.type
      BY <3>1, <3>2 DEF NumbersFree
    <3>4. ASSUME NEW r \in replies', r \notin replies
          PROVE  \E f \in requests : r.from = f.to /\ r.num = f.num /\ r.re = f.type
      <4>1. ~ Shrinks
        BY <3>4 DEF Shrinks
      <4>2. ASSUME NEW n, NEW new, Sends(n, new) PROVE FALSE
        BY <3>4, <4>2 DEF Sends, Recent
      <4>3. PICK f, answers : Arrives(f, answers)
        BY <2>1, <4>1, <4>2 DEF Rests, BusRests
      <4> QED
        BY <3>4, <4>3 DEF Arrives
    <3>5. \A r \in replies' : r.from = v /\ r.num = p.num => r.re = p.type
      BY <3>2, <3>4
    <3> QED
      BY <3>1, <3>3, <3>5
  <2>2. CASE Asks(v)
    <3>1. PICK dst, type, arg : /\ Sends(1, Frames(dst, type, arg))
                                /\ hub'[v].pending = Asked(type)
      BY <1>1, <2>2 DEF Asks
    <3>2. hub'[v].pending.num = NextNumber /\ hub'[v].pending.type = type
      BY <3>1 DEF Asked
    <3>3. /\ \A f \in Recent(requests, 1) : f.num # NextNumber
          /\ \A r \in Recent(replies, 1) : r.num # NextNumber
      <4>1. PICK k : k = NextNumber
        OBVIOUS
      <4> QED
        BY <3>1, <4>1, AskedYoungest
    <3>4. /\ requests' = Recent(requests, 1) \cup Frames(dst, type, arg)
          /\ replies' = Recent(replies, 1)
      BY <3>1 DEF Sends
    <3>5. \A f \in Frames(dst, type, arg) : f.type = type
      BY DEF Frames
    <3> QED
      BY <3>2, <3>3, <3>4, <3>5
  <2> QED
    BY <2>1, <2>2 DEF Shape
<1> QED
  BY <1>1 DEF PendingTold

-----------------------------------------------------------------------------
(* The theorems.                                                            *)

\* What holds of the bus and of the pending requests in every behaviour.
OrderInv == IInv /\ BusOK /\ PendingLast

LEMMA InitOrder ==
  ASSUME Init
  PROVE  OrderInv /\ ChunksAlone /\ PendingTold
<1>1. IInv
  BY InitOK
<1>2. requests = {} /\ replies = {} /\ \A u \in Nodes : hub[u] = AbsentDevice
  BY DEF Init
<1>3. \A u \in Nodes : ~ Awaiting(hub[u]) /\ hub[u].state # "FileTransfer"
  BY <1>2 DEF AbsentDevice, NewDevice, NoPending, Awaiting
<1> QED
  BY <1>1, <1>2, <1>3 DEF OrderInv, BusOK, PendingLast, ChunksAlone, Sending, PendingTold

LEMMA StepOrder ==
  ASSUME OrderInv, [Next]_vars
  PROVE  OrderInv' /\ Shape
<1>1. IInv' /\ Shape
  BY StepOK, StepShape DEF OrderInv
<1>2. BusOK'
  BY <1>1, BusKept DEF OrderInv, IInv, Shape
<1>3. PendingLast'
  BY <1>1, <1>2, PendingLastKept DEF OrderInv, IInv
<1> QED
  BY <1>1, <1>2, <1>3 DEF OrderInv

\* Chunks are sent one at a time (DeviceHub.hpp:563-613): when one is sent no other, of
\* this or of an earlier transfer, is on its way, nor an answer to one, although a pass may
\* take any time, the bus may delay what it carries at will, and a transfer may be cut
\* short by a timeout and a new one begin at once.  The exception, in the property, is
\* the chunk that an answer left over from an earlier transfer calls for.
THEOREM StopAndWaitCorrect == Spec => StopAndWait
<1> DEFINE Inv == OrderInv /\ AllAcksFit /\ ChunksAlone
<1>1. Init => Inv
  BY InitOrder, InitAcksFit
<1>2. Inv /\ [Next]_vars => Inv' /\ [SendsAlone]_vars
  BY StepOrder, StepKeepsAck, ChunksAloneKept, ChunkSentAlone DEF OrderInv, IInv
<1> QED
  BY <1>1, <1>2, PTL DEF Spec, StopAndWait

\* handleAck tells an answer by its number only (DeviceHub.hpp:310), and of numbers there
\* are 256; the other handlers look at what is pending, not at what was asked.  As long
\* as none is given out again to a device that has one pending with it, what is taken for
\* the answer to a request does answer it: late answers to requests given up before are
\* told apart, however late they are.
THEOREM AnswersFitCorrect == Spec /\ NumbersStayFree => []AnswersFit
<1> DEFINE Inv == OrderInv /\ PendingTold
<1>1. Init => Inv
  BY InitOrder
<1>2. Inv /\ [Next]_vars /\ [NumbersFree]_vars => Inv'
  <2> SUFFICES ASSUME Inv, [Next]_vars, [NumbersFree]_vars PROVE Inv'
    OBVIOUS
  <2>1. OrderInv' /\ Shape
    BY StepOrder
  <2>2. UNCHANGED vars => NumbersFree
    BY DEF vars, NumbersFree
  <2> QED
    BY <2>1, <2>2, PendingToldKept DEF OrderInv, IInv
<1>3. Inv => AnswersFit
  <2> SUFFICES ASSUME Inv, NEW r \in replies, Matches(hub[r.from], r)
               PROVE  r.re = hub[r.from].pending.type
    BY DEF AnswersFit
  <2>1. r.from \in Nodes
    BY DEF OrderInv, IInv, RestOK, ReplyFrame
  <2> QED
    BY <2>1 DEF PendingTold, Matches
<1> QED
  BY <1>1, <1>2, <1>3, PTL DEF Spec, NumbersStayFree

=============================================================================
