---------------------------- MODULE FilePromise ----------------------------
(***************************************************************************)
(* What the hub promises its application of the files it sends, without    *)
(* frames, chunks or time: a transfer ends with a report, or without one   *)
(* when the device is given up, and the report is Ok only if the device    *)
(* has found the file right.                                               *)
(***************************************************************************)
EXTENDS Naturals

CONSTANTS
  Devices,
  Contents,  \* the files
  None       \* stands for no file

VARIABLES
  offered,  \* the file that is being sent to each device
  found,    \* the file each device found right since it last began one
  result    \* what the last step reported of each device

vars == <<offered, found, result>>

NoReport == [u \in Devices |-> "None"]

Init ==
  /\ offered = [u \in Devices |-> None] /\ found = [u \in Devices |-> None]
  /\ result = NoReport

Report(u, code) == result' = [NoReport EXCEPT ![u] = code]

Begin(u) ==
  /\ offered[u] = None
  /\ \E t \in Contents : offered' = [offered EXCEPT ![u] = t]
  /\ result' = NoReport /\ UNCHANGED found

\* The device finds a file right, or begins to take another.
Judge(u) ==
  /\ \E t \in Contents \cup {None} : found' = [found EXCEPT ![u] = t]
  /\ result' = NoReport /\ UNCHANGED offered

\* The transfer to u ends; next is offered instead.
End(u, next) ==
  offered[u] # None /\ offered' = [offered EXCEPT ![u] = next] /\ UNCHANGED found

Succeed(u) == found[u] = offered[u] /\ End(u, None) /\ Report(u, "Ok")
GiveUp(u) == End(u, None) /\ result' = NoReport

\* As it is told of the failure the application may offer a file at once.
Fail(u) == \E next \in Contents \cup {None} : End(u, next) /\ Report(u, "Error")

\* A report is made once.
Silence == result' = NoReport /\ UNCHANGED <<offered, found>>

Next == Silence \/ \E u \in Devices :
          Begin(u) \/ Judge(u) \/ Succeed(u) \/ GiveUp(u) \/ Fail(u)

Spec == Init /\ [][Next]_vars

=============================================================================
