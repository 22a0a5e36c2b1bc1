-------------------------- MODULE DeviceLifecycle --------------------------
(***************************************************************************)
(* What the hub promises of the life of a device, without numbers, queues  *)
(* or clocks: a device is in service only after it answered a question     *)
(* about its identity that the hub put to it in that phase, a device given *)
(* up as lost has to answer a probe and to be identified again, and one    *)
(* question at a time is open.                                             *)
(***************************************************************************)

CONSTANT Devices

VARIABLES
  phase,   \* one of Phases for every device
  asked    \* is an answer of the device awaited?

vars == <<phase, asked>>

Phases == {"Absent", "Probing", "InfoRequest", "Running", "FileTransfer", "Lost"}

InService == {"Running", "FileTransfer"}

\* The step takes u to this phase and leaves its question open, or not.
To(u, p, open) ==
  /\ phase' = [phase EXCEPT ![u] = p]
  /\ asked' = [asked EXCEPT ![u] = open]

Init ==
  /\ phase = [u \in Devices |-> "Absent"]
  /\ asked = [u \in Devices |-> FALSE]

Appear(u) == phase[u] = "Absent" /\ To(u, "InfoRequest", FALSE)

Ask(u) == phase[u] \notin {"Absent", "Lost"} /\ To(u, phase[u], TRUE)

\* The question was answered or timed out, and nothing else came of it.
Settle(u) == asked[u] /\ To(u, phase[u], FALSE)

\* The question was answered.
Identify(u) == phase[u] = "InfoRequest" /\ asked[u] /\ To(u, "Running", FALSE)
Reappear(u) == phase[u] = "Probing" /\ asked[u] /\ To(u, "InfoRequest", FALSE)

BeginFile(u) ==
  \E open \in {asked[u], FALSE} : phase[u] = "Running" /\ To(u, "FileTransfer", open)

EndFile(u) ==
  \E open \in {asked[u], FALSE} : phase[u] = "FileTransfer" /\ To(u, "Running", open)

\* The question was not answered.
Lose(u) == phase[u] # "Lost" /\ asked[u] /\ To(u, "Lost", FALSE)

Reprobe(u) == phase[u] = "Lost" /\ To(u, "Probing", FALSE)

Next == \E u \in Devices :
  \/ Appear(u) \/ Ask(u) \/ Settle(u) \/ Identify(u) \/ Reappear(u)
  \/ BeginFile(u) \/ EndFile(u) \/ Lose(u) \/ Reprobe(u)

Spec == Init /\ [][Next]_vars

=============================================================================
