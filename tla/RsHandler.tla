----------------------------- MODULE RsHandler -----------------------------
(***************************************************************************)
(* What a node answers to a frame addressed to it: the dispatch of         *)
(* RsHandler::process (include/UtilitaryRS/RsHandler.hpp).  The virtual    *)
(* handlers are application code, so their result is a parameter.          *)
(***************************************************************************)
EXTENDS RsTypes

\* Frames whose result is decided by a virtual handler of the application.
ApplicationDecides == {"Command", "BlobRequest", "Reboot", "BlobAnswer",
                       "FileWriteRequest", "FileWriteChunk",
                       "FileWriteFinalize"}

\* The frame put on the bus in answer to one of the given type, code being
\* what the application's handler returned: an Ack is never acknowledged, a
\* blob request whose handler succeeded was already answered by sendAnswer.
Reply(type, code) ==
  CASE type = "Ack"           -> {}
    [] type = "DeviceInfoReq" -> {[type |-> "DeviceInfoAnw", code |-> "Ok"]}
    [] type = "HealthReq"     -> {[type |-> "HealthAnw", code |-> "Ok"]}
    [] type = "BlobRequest" /\ code = "Ok" ->
                                 {[type |-> "BlobAnswer", code |-> "Ok"]}
    [] type \in ApplicationDecides /\ ~ (type = "BlobRequest" /\ code = "Ok") ->
                                 {[type |-> "Ack", code |-> code]}
    [] OTHER                  -> {[type |-> "Ack", code |-> "Ok"]}

=============================================================================
