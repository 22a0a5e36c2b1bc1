------------------------------ MODULE RsTypes ------------------------------
(***************************************************************************)
(* The vocabulary of the UtilitaryRS protocol: message types, result       *)
(* codes and the reserved UID (include/UtilitaryRS/RsTypes.hpp).           *)
(* Payload contents are abstract; the few that steer the protocol (the     *)
(* result code of an Ack, the length of a chunk, the chunk count of a      *)
(* FileWriteFinalize) travel as fields of the frames that carry them.      *)
(***************************************************************************)

MessageType == {"Probe", "Ack", "Command", "BlobRequest", "BlobAnswer",
                "DeviceInfoReq", "DeviceInfoAnw",
                "FileWriteRequest", "FileWriteChunk", "FileWriteFinalize",
                "HealthReq", "HealthAnw", "Reboot"}

Result == {"Ok", "Error", "Wait", "Busy", "InvalidArg", "Timeout",
           "Unsupported", "ChecksumFailed"}

\* The messages of a file transfer.
FileTypes == {"FileWriteRequest", "FileWriteChunk", "FileWriteFinalize"}

\* The broadcast UID; getUIDFromName also returns it for an unknown name.
kReservedUID == 255

=============================================================================
