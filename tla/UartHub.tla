------------------------------ MODULE UartHub ------------------------------
(***************************************************************************)
(* The PC UART hub (PC_UART_API.c) over the bulk transfer: the PC selects   *)
(* one operation, the CAN bridge or the bulk file service, and every frame  *)
(* is dispatched to it and answered before the next one is read.            *)
(*                                                                          *)
(* A frame whose envelope, length or field is invalid is answered with NACK *)
(* and changes nothing; the one exception, an END with a payload, is here.  *)
(***************************************************************************)
EXTENDS BulkProperties

CONSTANT Commands   \* the frames the PC sends in a run

VARIABLES
  eActiveOperation,    \* the operation the PC selected
  bBulkSessionActive,  \* a START was answered with ACK and no END after it
  endAcked,            \* history: the last answer was the ACK of an END
  offered              \* history: content announced by the last accepted START

hubVars == <<eActiveOperation, bBulkSessionActive, endAcked, offered>>

PcFrames ==
       [cmd : {"Select"}, op : {"FirmwareBridge", "LocalBulkFile"}]
  \cup [cmd : {"BulkStart"}, size : Sizes, crc : Images]
  \cup [cmd : {"BulkData"}, id : Ids, chunk : Chunks, sound : BOOLEAN]
  \cup [cmd : {"BulkEnd"}, payload : BOOLEAN]
  \cup [cmd : {"Release", "ConfigRead", "Bootloader"}]

HubInit ==
  /\ Init
  /\ eActiveOperation = "Idle" /\ bBulkSessionActive = FALSE
  /\ endAcked = FALSE /\ offered = Absent

-----------------------------------------------------------------------------
Answer(cmd, ack) == endAcked' = (cmd = "BulkEnd" /\ ack)

\* A frame that is answered without a call of the file service.
Answered(f, ack) ==
  /\ At("idle")
  /\ Answer(f.cmd, ack)
  /\ UNCHANGED <<bulkVars, bBulkSessionActive, offered>>

\* eSelect_Operation
Select(f) ==
  /\ f.cmd = "Select"
  /\ \/ /\ eActiveOperation \in {"Idle", f.op}
        /\ eActiveOperation' = f.op
        /\ Answered(f, TRUE)
     \/ /\ eActiveOperation \notin {"Idle", f.op}
        /\ Answered(f, FALSE)
        /\ UNCHANGED eActiveOperation

Releasable == ~ (eActiveOperation = "LocalBulkFile" /\ bBulkSessionActive)

\* eRelease_Operation
Release(f) ==
  /\ f.cmd = "Release"
  /\ eActiveOperation' = IF Releasable THEN "Idle" ELSE eActiveOperation
  /\ Answered(f, Releasable)

\* A frame the selected operation does not know.
Unserved(f) ==
  /\ f.cmd \notin {"Select", "Release"}
  /\ eActiveOperation = "FirmwareBridge" => f.cmd # "Bootloader"
  /\ eActiveOperation = "LocalBulkFile" => f.cmd = "Bootloader"

RefuseFrame(f) ==
  /\ Unserved(f)
  /\ Answered(f, FALSE)
  /\ UNCHANGED eActiveOperation

\* ePC_UART_FWBridgeService_Process: the CAN controller queues the frame or not.
Bridge(f) ==
  /\ f.cmd = "Bootloader" /\ eActiveOperation = "FirmwareBridge"
  /\ \E queued \in BOOLEAN : Answered(f, queued)
  /\ UNCHANGED eActiveOperation

\* eProcess_ConfigRead: the record may be missing or unreadable.
ConfigRead(f) ==
  /\ f.cmd = "ConfigRead" /\ eActiveOperation = "LocalBulkFile"
  /\ \E found \in BOOLEAN : Answered(f, found /\ ~bBulkSessionActive)
  /\ UNCHANGED eActiveOperation

\* eProcess_BulkStart, up to the call of bStart_BulkDataTransfer.
BulkStart(f) ==
  /\ f.cmd = "BulkStart" /\ eActiveOperation = "LocalBulkFile"
  /\ Call([api |-> "start", size |-> f.size, crc |-> f.crc])
  /\ UNCHANGED hubVars

\* eProcess_BulkData
BulkData(f) ==
  /\ f.cmd = "BulkData" /\ eActiveOperation = "LocalBulkFile"
  /\ \/ /\ bBulkSessionActive
        /\ Call([api |-> "send", id |-> f.id, chunk |-> f.chunk, sound |-> f.sound])
        /\ UNCHANGED hubVars
     \/ /\ ~bBulkSessionActive
        /\ Answered(f, FALSE)
        /\ UNCHANGED eActiveOperation

\* eProcess_BulkEnd: the operation is complete before the frame is looked at, so
\* that the hub is Idle afterwards even if the END was refused.
BulkEnd(f) ==
  /\ f.cmd = "BulkEnd" /\ eActiveOperation = "LocalBulkFile"
  /\ \/ /\ ~f.payload /\ bBulkSessionActive
        /\ Call([api |-> "end"])
        /\ UNCHANGED hubVars
     \/ /\ f.payload \/ ~bBulkSessionActive
        /\ Answered(f, FALSE)
        /\ eActiveOperation' = "Idle"

Dispatch(f) ==
  \/ Select(f) \/ Release(f) \/ RefuseFrame(f) \/ Bridge(f) \/ ConfigRead(f)
  \/ BulkStart(f) \/ BulkData(f) \/ BulkEnd(f)

-----------------------------------------------------------------------------
(* The calls of the file service return, and the frame is answered. *)

\* Seeded fault: an error of the service has no error code and is acknowledged.
NoErrorCode == uart.result # "refused"

Accepted == uart.result = "ok"

StartReply ==
  /\ uart.call.api = "start" /\ Reply
  /\ Answer("BulkStart", Accepted)
  /\ bBulkSessionActive' = (bBulkSessionActive \/ Accepted)
  /\ offered' = IF Accepted THEN uart.call.crc ELSE offered
  /\ UNCHANGED eActiveOperation

DataReply ==
  /\ uart.call.api = "send" /\ Reply
  /\ Answer("BulkData", Accepted)
  /\ UNCHANGED <<eActiveOperation, bBulkSessionActive, offered>>

\* Whatever vEnd_BulkDataTransfer reports, the session is over.
EndReply ==
  /\ uart.call.api = "end" /\ Reply
  /\ Answer("BulkEnd", Accepted)
  /\ bBulkSessionActive' = FALSE
  /\ eActiveOperation' = "Idle"
  /\ UNCHANGED offered

\* The PC keeps the answer it got.
Reset ==
  /\ PowerCut
  /\ eActiveOperation' = "Idle" /\ bBulkSessionActive' = FALSE
  /\ UNCHANGED <<endAcked, offered>>

HubNext ==
  \/ \E f \in PcFrames : f.cmd \in Commands /\ Dispatch(f)
  \/ StartReply \/ DataReply \/ EndReply
  \/ Internal /\ UNCHANGED hubVars
  \/ Reset

HubSpec == HubInit /\ [][HubNext]_<<bulkVars, hubVars>>

\* The threads of the transfer, and the UART thread, which answers a frame before it reads
\* the next; the PC owes no frame.
HubFairSpec ==
  HubSpec /\ BulkFairness /\ WF_bulkVars(StartReply \/ DataReply \/ EndReply)

-----------------------------------------------------------------------------
\* An ACK of END is the truth for the PC: the file is on the flash with the content
\* the accepted START announced, at that moment and after any power cut.
EndAckTruthful == endAcked => file = offered

\* PC_UART_Protocol.md: "A release is rejected while a local bulk session is active.
\* A completed bulk END automatically returns the hub to Idle."  So the hub stays in
\* the bulk operation until the session it serves is over.
HubKeepsSession == bBulkSessionActive => eActiveOperation = "LocalBulkFile"
=============================================================================
