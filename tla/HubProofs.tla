------------------------------ MODULE HubProofs ------------------------------
(***************************************************************************)
(* What is proved about the PC UART hub over the bulk transfer: every step  *)
(* of the hub is one of the transfer or leaves it alone, so that the        *)
(* invariant of the transfer holds below the hub, and the answer of an END  *)
(* follows from it.                                                         *)
(***************************************************************************)
EXTENDS UartHub, BulkProofs

(***************************************************************************)
(* The invariant: what the session of the hub knows of the transfer.        *)
(***************************************************************************)

HubTypeOK ==
  /\ eActiveOperation \in {"Idle", "FirmwareBridge", "LocalBulkFile"}
  /\ bBulkSessionActive \in BOOLEAN /\ endAcked \in BOOLEAN
  /\ offered \in Contents \cup {Absent}

\* The file service is called for the bulk operation only, and END ends where it began.
CallInOperation ==
  /\ uart.pc # "idle" => eActiveOperation = "LocalBulkFile"
  /\ uart.pc \in {"endLock", "endCheck"} \cup Ending => uart.call.api = "end"

\* A START that succeeded and was not answered yet.
StartMade == uart.pc = "return" /\ uart.call.api = "start" /\ uart.result = "ok"

\* The transfer is for the content of the last START that was answered with ACK, or is going
\* to be.
TransferOffered ==
  bulk.state # "Idle" => bulk.crc = IF StartMade THEN uart.call.crc ELSE offered

\* What an END has vouched for, as long as the PC may take its answer for the last word.
EndVouched ==
  /\ uart.pc = "return" /\ uart.call.api = "end" /\ uart.result = "ok" =>
       vouched = offered /\ vouched # Absent
  /\ endAcked =>
       /\ uart.pc = "idle" /\ eActiveOperation = "Idle"
       /\ vouched = offered /\ vouched # Absent

HInv == HubTypeOK /\ CallInOperation /\ TransferOffered /\ EndVouched

-----------------------------------------------------------------------------
(* The steps of the transfer, as the hub sees them. *)

\* Every step of the hub is a step of the transfer, or leaves it alone.
LEMMA HubStepsTransfer ==
  ASSUME HubNext
  PROVE  [Next]_bulkVars
<1>1. ASSUME NEW f \in PcFrames, Dispatch(f)
      PROVE  [Next]_bulkVars
  <2>1. CASE BulkStart(f)
    <3>1. f.cmd = "BulkStart"
      BY <2>1 DEF BulkStart
    <3>2. f \in [cmd : {"BulkStart"}, size : Sizes, crc : Images]
      BY <3>1 DEF PcFrames
    <3>3. [api |-> "start", size |-> f.size, crc |-> f.crc] \in Calls
      BY <3>2 DEF Calls
    <3> QED
      BY <2>1, <3>3 DEF BulkStart, Next
  <2>2. CASE BulkData(f) /\ bBulkSessionActive
    <3>1. f.cmd = "BulkData"
      BY <2>2 DEF BulkData
    <3>2. f \in [cmd : {"BulkData"}, id : Ids, chunk : Chunks, sound : BOOLEAN]
      BY <3>1 DEF PcFrames
    <3>3. [api |-> "send", id |-> f.id, chunk |-> f.chunk, sound |-> f.sound] \in Calls
      BY <3>2 DEF Calls
    <3> QED
      BY <2>2, <3>3 DEF BulkData, Next
  <2>3. CASE BulkEnd(f)
    <3>1. [api |-> "end"] \in Calls
      BY DEF Calls
    <3>2. Call([api |-> "end"]) \/ Answered(f, FALSE)
      BY <2>3 DEF BulkEnd
    <3> QED
      BY <3>1, <3>2 DEF Next, Answered
  <2>4. CASE (BulkData(f) /\ ~ bBulkSessionActive) \/ Select(f) \/ Release(f) \/ RefuseFrame(f)
             \/ Bridge(f) \/ ConfigRead(f)
    BY <2>4 DEF BulkData, Select, Release, RefuseFrame, Bridge, ConfigRead, Answered
  <2> QED
    BY <1>1, <2>1, <2>2, <2>3, <2>4 DEF Dispatch
<1>2. CASE StartReply \/ DataReply \/ EndReply \/ Internal \/ Reset
  BY <1>2 DEF StartReply, DataReply, EndReply, Reset, Next
<1> QED
  BY <1>1, <1>2 DEF HubNext

\* The invariant of the transfer holds below the hub.
LEMMA TransferKept ==
  ASSUME IInv, Ordered, [HubNext]_<<bulkVars, hubVars>>
  PROVE  IInv' /\ Ordered'
<1>1. [Next]_bulkVars
  BY HubStepsTransfer DEF bulkVars
<1> QED
  BY <1>1, TypeStep, SafeStep, OrderStep DEF IInv, Safe

\* The points of an END.
EndPoints == {"endLock", "endCheck"} \cup Ending

\* A call goes on until it returns; it returns "ok" at three points.
CallGoesOn ==
  /\ uart'.call = uart.call
  /\ uart.pc \notin {"idle", "return"} /\ uart'.pc # "idle"
  /\ uart'.pc \in EndPoints => uart.pc \in EndPoints
  /\ uart'.pc = "return" /\ uart'.result = "ok" => StartOpen \/ SendCount \/ (EndExit /\ Succeeded)

LEMMA RunningGoesOn ==
  ASSUME uart \in UartThreads, bulk \in Transfers, Running
  PROVE  CallGoesOn
<1> USE DEF At, CallGoesOn, EndPoints, Ending, EndingOpen
<1>1. CASE StartLock \/ SendLock \/ EndLock
  BY <1>1, Moved, Returned DEF StartLock, SendLock, EndLock, Lock
<1>2. CASE StartBusy \/ SendRefused \/ SendFull \/ EndRefused \/ StartOpenFailed
  BY <1>2, Returned DEF AtFs, StartBusy, SendRefused, SendFull, EndRefused, StartOpenFailed
<1>3. CASE Start \/ SendChecked \/ SendPut \/ EndChecked \/ EndFinalize \/ EndPut
  BY <1>3, Moved DEF Start, SendChecked, SendPut, EndChecked, EndFinalize, EndPut
<1>4. CASE StartDelete \/ StartCreate
  <2>1. /\ uart.pc \in {"startDelete", "startCreate"}
        /\ Goto("startCreate") \/ Goto("startOpen") \/ Return("refused")
    BY <1>4 DEF AtFs, StartDelete, StartCreate
  <2> QED
    BY <2>1, Moved, Returned
<1>5. CASE StartOpen \/ SendCount
  BY <1>5, Returned DEF AtFs, StartOpen, SendCount
<1>6. CASE EndPutTimeout \/ EndWait \/ EndWaitTimeout \/ EndFail \/ EndKill \/ EndDrop
  BY <1>6, Moved DEF EndPutTimeout, EndWait, EndWaitTimeout, EndFail, EndKill, EndDrop
<1>7. CASE EndJudge \/ EndAbort
  <2>1. /\ uart.pc \in {"endJudge", "endAbort"}
        /\ \E l \in {"endSync", "endAbort", "endKill", "endDrop"} : Goto(l)
    BY <1>7 DEF EndJudge, EndAbort
  <2> QED
    BY <2>1, Moved
<1>8. CASE EndSync \/ EndClose \/ EndCatalog \/ EndDelete
  <2>1. /\ uart.pc \in {"endSync", "endClose", "endCatalog", "endDelete"}
        /\ \E l \in {"endClose", "endAbort", "endCatalog", "endExit"} : Goto(l)
    BY <1>8 DEF AtFs, EndSync, EndClose, EndCatalog, EndDelete
  <2> QED
    BY <2>1, Moved
<1>9. CASE EndExit
  <2>1. /\ uart.pc = "endExit" /\ uart'.pc = "return" /\ uart'.call = uart.call
        /\ uart'.result = IF Succeeded THEN "ok" ELSE bulk.error
    BY <1>9, Returned DEF EndExit
  <2>2. bulk.error # "ok"
    BY DEF Transfers, Errors
  <2> QED
    BY <1>9, <2>1, <2>2
<1> QED
  BY <1>1, <1>2, <1>3, <1>4, <1>5, <1>6, <1>7, <1>8, <1>9 DEF Running

\* What was vouched for is changed by the next START, or by an END that succeeds.
LEMMA VouchedKept ==
  ASSUME Internal, uart.pc \notin {"startDelete", "endExit"}
  PROVE  vouched' = vouched
BY DEF AtFs, Internal, Running, Worker, Workqueue, StartLock, Lock, StartBusy, Start, StartDelete,
       StartCreate, StartOpenFailed, StartOpen, SendLock, SendRefused, SendChecked, SendPut,
       SendCount, SendFull, EndLock, EndRefused, EndChecked, EndFinalize, EndPut, EndPutTimeout,
       EndWait, EndWaitTimeout, EndJudge, EndSync, EndClose, EndCatalog, EndFail, EndAbort, EndKill,
       EndDrop, EndDelete, EndExit, WorkerTimeout, WorkerEnd, WorkerTake, WorkerWrite,
       WorkerWriteFails, CleanupLock, CleanupOver, CleanupClose, CleanupDelete, At, history

-----------------------------------------------------------------------------
(* Every step of the hub keeps its invariant. *)

\* While a call is served, or none is made.
LEMMA InternalStep ==
  ASSUME IInv, HInv, Internal, UNCHANGED hubVars
  PROVE  HInv'
<1>1. /\ uart \in UartThreads /\ bulk \in Transfers /\ CallServed /\ Phase
      /\ HubTypeOK /\ CallInOperation /\ TransferOffered /\ EndVouched
  BY DEF IInv, TypeOK, Safe, Control, HInv
<1>2. UNCHANGED <<eActiveOperation, bBulkSessionActive, endAcked, offered>>
  BY DEF hubVars
<1>3. uart' = uart \/ CallGoesOn
  <2>1. CASE Running
    BY <1>1, <2>1, RunningGoesOn
  <2>2. CASE Worker \/ Workqueue
    BY <2>2 DEF Worker, Workqueue, WorkerTimeout, WorkerEnd, WorkerTake, WorkerWrite,
       WorkerWriteFails, CleanupLock, CleanupOver, CleanupClose, CleanupDelete
  <2> QED
    BY <2>1, <2>2 DEF Internal
<1>4. HubTypeOK'
  BY <1>1, <1>2 DEF HubTypeOK
<1>5. CallInOperation'
  BY <1>1, <1>2, <1>3 DEF CallInOperation, CallGoesOn, EndPoints
<1>6. TransferOffered'
  <2>1. CASE StartOpen
    <3>1. /\ bulk'.crc = uart.call.crc
          /\ uart'.pc = "return" /\ uart'.result = "ok" /\ uart'.call = uart.call
      BY <1>1, <2>1, Returned DEF AtFs, StartOpen, Transfers
    <3>2. uart.call.api = "start"
      BY <1>1, <2>1 DEF AtFs, StartOpen, At, CallServed, Preparing
    <3> QED
      BY <3>1, <3>2 DEF TransferOffered, StartMade
  <2>2. CASE ~ StartOpen /\ bulk'.state # "Idle"
    <3>1. bulk.state # "Idle" /\ bulk'.crc = bulk.crc
      BY <2>2, TransferGoesOn DEF Next
    <3>2. StartMade' <=> StartMade
      <4>1. CASE uart' = uart
        BY <4>1 DEF StartMade
      <4>2. CASE CallGoesOn
        <5>1. ~ StartMade
          BY <4>2 DEF CallGoesOn, StartMade
        <5>2. SendCount => uart.call.api = "send"
          BY <1>1 DEF SendCount, At, CallServed
        <5>3. EndExit => uart.call.api = "end"
          BY <1>1 DEF EndExit, At, CallInOperation, Ending
        <5> QED
          BY <2>2, <4>2, <5>1, <5>2, <5>3 DEF CallGoesOn, StartMade
      <4> QED
        BY <1>3, <4>1, <4>2
    <3>3. StartMade => uart'.call = uart.call
      BY <1>3 DEF CallGoesOn
    <3> QED
      BY <1>1, <1>2, <3>1, <3>2, <3>3 DEF TransferOffered
  <2> QED
    BY <2>1, <2>2 DEF TransferOffered
<1>7. CASE EndExit
  <2>1. /\ uart.pc = "endExit" /\ uart'.pc = "return" /\ uart.call.api = "end"
        /\ uart'.result = IF Succeeded THEN "ok" ELSE bulk.error
        /\ vouched' = IF Succeeded THEN bulk.crc ELSE vouched
    BY <1>1, <1>7, Returned DEF EndExit, At, CallInOperation, Ending
  <2>2. bulk.error # "ok" /\ bulk.crc \in Contents
    BY <1>1 DEF Transfers, Errors
  <2>3. bulk.crc = offered
    BY <1>1, <2>1 DEF Phase, Ending, TransferOffered, StartMade
  <2>4. bulk.crc # Absent
    BY <2>2, ContentTypes
  <2>5. EndVouched'
    BY <1>1, <1>2, <2>1, <2>2, <2>3, <2>4 DEF EndVouched
  <2> QED
    BY <1>4, <1>5, <1>6, <2>5 DEF HInv
<1>8. CASE ~ EndExit
  <2>1. uart'.pc = "return" /\ uart'.call.api = "end" /\ uart'.result = "ok" => uart' = uart
    <3>1. SendCount => uart.call.api = "send"
      BY <1>1 DEF SendCount, At, CallServed
    <3>2. StartOpen => uart.call.api = "start"
      BY <1>1 DEF AtFs, StartOpen, At, CallServed, Preparing
    <3> QED
      BY <1>3, <1>8, <3>1, <3>2 DEF CallGoesOn
  <2>2. uart.pc \in {"idle", "return"} => uart' = uart /\ vouched' = vouched
    BY <1>3, VouchedKept DEF CallGoesOn
  <2>3. EndVouched'
    BY <1>1, <1>2, <2>1, <2>2 DEF EndVouched
  <2> QED
    BY <1>4, <1>5, <1>6, <2>3 DEF HInv
<1> QED
  BY <1>7, <1>8

\* A frame that calls the file service.
LEMMA CallStep ==
  ASSUME IInv, HInv, NEW c \in Calls, Call(c), eActiveOperation = "LocalBulkFile",
         UNCHANGED hubVars
  PROVE  HInv'
<1>1. /\ HubTypeOK /\ CallInOperation /\ TransferOffered /\ EndVouched
      /\ UNCHANGED <<eActiveOperation, bBulkSessionActive, endAcked, offered, bulk, vouched>>
  BY DEF HInv, hubVars, Call, history
<1>2. /\ uart.pc = "idle" /\ uart'.call = c /\ uart'.result # "ok"
      /\ uart'.pc \in {"return", "startLock", "sendLock", "endLock"}
      /\ uart'.pc = "endLock" => c.api = "end"
  <2>1. c.api \in {"start", "send", "end"}
    BY CallFields
  <2> QED
    BY <2>1 DEF Call, At
<1>3. HubTypeOK'
  BY <1>1 DEF HubTypeOK
<1>4. CallInOperation'
  BY <1>1, <1>2 DEF CallInOperation, Ending, EndingOpen
<1>5. TransferOffered'
  BY <1>1, <1>2 DEF TransferOffered, StartMade
<1>6. EndVouched'
  BY <1>1, <1>2 DEF EndVouched
<1> QED
  BY <1>3, <1>4, <1>5, <1>6 DEF HInv

\* A frame that is answered without a call: never the ACK of an END.
LEMMA AnsweredStep ==
  ASSUME IInv, HInv, uart.pc = "idle",
         UNCHANGED <<bulkVars, bBulkSessionActive, offered>>,
         eActiveOperation' \in {"Idle", "FirmwareBridge", "LocalBulkFile"}, endAcked' = FALSE
  PROVE  HInv'
<1>1. HubTypeOK /\ CallInOperation /\ TransferOffered /\ UNCHANGED <<bulk, uart, offered, bBulkSessionActive>>
  BY DEF HInv, bulkVars
<1>2. HubTypeOK'
  BY <1>1 DEF HubTypeOK
<1>3. CallInOperation'
  BY <1>1 DEF CallInOperation, Ending, EndingOpen
<1>4. TransferOffered'
  BY <1>1 DEF TransferOffered, StartMade
<1>5. EndVouched'
  BY <1>1 DEF EndVouched
<1> QED
  BY <1>2, <1>3, <1>4, <1>5 DEF HInv

LEMMA DispatchStep ==
  ASSUME IInv, HInv, NEW f \in PcFrames, Dispatch(f)
  PROVE  HInv'
<1>1. HubTypeOK /\ eActiveOperation \in {"Idle", "FirmwareBridge", "LocalBulkFile"}
  BY DEF HInv, HubTypeOK
<1>2. CASE BulkStart(f)
  <2>1. f \in [cmd : {"BulkStart"}, size : Sizes, crc : Images]
    BY <1>2 DEF BulkStart, PcFrames
  <2>2. [api |-> "start", size |-> f.size, crc |-> f.crc] \in Calls
    BY <2>1 DEF Calls
  <2> QED
    BY <1>2, <2>2, CallStep DEF BulkStart
<1>3. CASE BulkData(f) /\ bBulkSessionActive
  <2>1. f.cmd = "BulkData" /\ eActiveOperation = "LocalBulkFile"
    BY <1>3 DEF BulkData
  <2>2. f \in [cmd : {"BulkData"}, id : Ids, chunk : Chunks, sound : BOOLEAN]
    BY <2>1 DEF PcFrames
  <2>3. [api |-> "send", id |-> f.id, chunk |-> f.chunk, sound |-> f.sound] \in Calls
    BY <2>2 DEF Calls
  <2>4. Call([api |-> "send", id |-> f.id, chunk |-> f.chunk, sound |-> f.sound]) /\ UNCHANGED hubVars
    BY <1>3 DEF BulkData
  <2> QED
    BY <2>1, <2>3, <2>4, CallStep
<1>4. CASE BulkEnd(f) /\ ~ f.payload /\ bBulkSessionActive
  <2>1. [api |-> "end"] \in Calls
    BY DEF Calls
  <2>2. eActiveOperation = "LocalBulkFile" /\ Call([api |-> "end"]) /\ UNCHANGED hubVars
    BY <1>4 DEF BulkEnd
  <2> QED
    BY <2>1, <2>2, CallStep
<1>5. CASE \/ Select(f) \/ Release(f) \/ RefuseFrame(f) \/ Bridge(f) \/ ConfigRead(f)
           \/ (BulkData(f) /\ ~ bBulkSessionActive)
           \/ (BulkEnd(f) /\ (f.payload \/ ~ bBulkSessionActive))
  <2>1. \E ack \in BOOLEAN : Answered(f, ack) /\ (f.cmd # "BulkEnd" \/ ack = FALSE)
    BY <1>5 DEF Select, Release, Releasable, RefuseFrame, Bridge, ConfigRead, BulkData, BulkEnd
  <2>2. eActiveOperation' \in {"Idle", "FirmwareBridge", "LocalBulkFile"}
    <3>1. CASE Select(f)
      <4>1. f.cmd = "Select"
        BY <3>1 DEF Select
      <4>2. f.op \in {"FirmwareBridge", "LocalBulkFile"}
        BY <4>1 DEF PcFrames
      <4> QED
        BY <1>1, <3>1, <4>2 DEF Select
    <3>2. CASE ~ Select(f)
      BY <1>1, <1>5, <3>2 DEF Release, RefuseFrame, Bridge, ConfigRead, BulkData, BulkEnd
    <3> QED
      BY <3>1, <3>2
  <2>3. /\ uart.pc = "idle" /\ endAcked' = FALSE
        /\ UNCHANGED <<bulkVars, bBulkSessionActive, offered>>
    BY <2>1 DEF Answered, Answer, At
  <2> QED
    BY <2>2, <2>3, AnsweredStep
<1> QED
  BY <1>2, <1>3, <1>4, <1>5 DEF Dispatch

\* The call returned and the frame is answered.
LEMMA ReplyStep ==
  ASSUME IInv, HInv, StartReply \/ DataReply \/ EndReply
  PROVE  HInv'
<1>1. /\ uart \in UartThreads /\ bulk \in Transfers
      /\ HubTypeOK /\ CallInOperation /\ TransferOffered /\ EndVouched
  BY DEF IInv, TypeOK, HInv
<1>2. uart.pc = "return" /\ uart'.pc = "idle" /\ UNCHANGED <<bulk, vouched>>
  BY <1>1, Moved DEF StartReply, DataReply, EndReply, Reply, At, history
<1>3. bulk.crc \in Contents /\ uart.call \in Calls
  BY <1>1 DEF Transfers, UartThreads
<1>4. CASE StartReply
  <2>1. /\ uart.call.api = "start" /\ endAcked' = FALSE /\ UNCHANGED eActiveOperation
        /\ bBulkSessionActive' = (bBulkSessionActive \/ Accepted)
        /\ offered' = IF Accepted THEN uart.call.crc ELSE offered
    BY <1>4 DEF StartReply, Answer
  <2>2. HubTypeOK'
    BY <1>1, <1>3, <2>1, CallFields DEF HubTypeOK, Accepted
  <2>3. TransferOffered'
    BY <1>1, <1>2, <2>1 DEF TransferOffered, StartMade, Accepted
  <2> QED
    BY <1>2, <2>1, <2>2, <2>3 DEF HInv, CallInOperation, EndVouched, Ending, EndingOpen
<1>5. CASE DataReply
  <2>1. /\ uart.call.api = "send" /\ endAcked' = FALSE
        /\ UNCHANGED <<eActiveOperation, bBulkSessionActive, offered>>
    BY <1>5 DEF DataReply, Answer
  <2> QED
    BY <1>1, <1>2, <2>1
       DEF HInv, HubTypeOK, CallInOperation, TransferOffered, StartMade, EndVouched, Ending,
          EndingOpen
<1>6. CASE EndReply
  <2>1. /\ uart.call.api = "end" /\ endAcked' = (uart.result = "ok") /\ UNCHANGED offered
        /\ bBulkSessionActive' = FALSE /\ eActiveOperation' = "Idle"
    BY <1>6 DEF EndReply, Answer, Accepted
  <2>2. endAcked' \in BOOLEAN
    BY <2>1
  <2>3. HubTypeOK'
    BY <1>1, <2>1, <2>2 DEF HubTypeOK
  <2>4. EndVouched'
    BY <1>1, <1>2, <2>1 DEF EndVouched
  <2> QED
    BY <1>1, <1>2, <2>1, <2>3, <2>4
       DEF HInv, CallInOperation, TransferOffered, StartMade, Ending, EndingOpen
<1> QED
  BY <1>4, <1>5, <1>6

LEMMA ResetStep ==
  ASSUME IInv, HInv, Reset
  PROVE  HInv'
<1>1. /\ uart \in UartThreads /\ HubTypeOK /\ EndVouched
  BY DEF IInv, TypeOK, HInv
<1>2. /\ bulk'.state = "Idle" /\ uart'.pc = "idle" /\ UNCHANGED <<vouched, endAcked, offered>>
      /\ eActiveOperation' = "Idle" /\ bBulkSessionActive' = FALSE
  BY <1>1, Moved DEF Reset, PowerCut, Fresh
<1> QED
  BY <1>1, <1>2
     DEF HInv, HubTypeOK, CallInOperation, TransferOffered, EndVouched, Ending, EndingOpen

-----------------------------------------------------------------------------
(* The theorems. *)

LEMMA HubInitHolds == HubInit => IInv /\ Ordered /\ HInv
<1> SUFFICES ASSUME HubInit PROVE IInv /\ Ordered /\ HInv
  OBVIOUS
<1>1. IInv /\ Ordered
  BY InitHolds, InitOrdered DEF HubInit
<1>2. uart.pc = "idle" /\ bulk.state = "Idle"
  BY DEF HubInit, Init, Fresh
<1>3. /\ eActiveOperation = "Idle" /\ bBulkSessionActive = FALSE /\ endAcked = FALSE
      /\ offered = Absent
  BY DEF HubInit
<1> QED
  BY <1>1, <1>2, <1>3
     DEF HInv, HubTypeOK, CallInOperation, TransferOffered, EndVouched, Ending, EndingOpen

LEMMA HubStep ==
  IInv /\ Ordered /\ HInv /\ [HubNext]_<<bulkVars, hubVars>> => IInv' /\ Ordered' /\ HInv'
<1> SUFFICES ASSUME IInv, Ordered, HInv, [HubNext]_<<bulkVars, hubVars>> PROVE HInv'
  BY TransferKept
<1>1. CASE UNCHANGED <<bulkVars, hubVars>>
  BY <1>1 DEF bulkVars, hubVars, HInv, HubTypeOK, CallInOperation, TransferOffered, StartMade,
     EndVouched
<1>2. CASE HubNext
  BY <1>2, DispatchStep, ReplyStep, InternalStep, ResetStep DEF HubNext
<1> QED
  BY <1>1, <1>2

\* Below the hub the transfer keeps its invariant, and the session of the hub fits it.
THEOREM HubInvariant == HubSpec => [](IInv /\ Ordered /\ HInv)
BY HubInitHolds, HubStep, PTL DEF HubSpec

\* The hub implements the transfer: what PC_UART_BulkFileService.c makes of the frames of the
\* PC is a sequence of calls of the transfer, each made when the one before has returned, and
\* nothing else the hub does touches its state.
THEOREM HubImplementsTransfer == HubSpec => Spec
<1>1. HubInit => Init
  BY DEF HubInit
<1>2. [HubNext]_<<bulkVars, hubVars>> => [Next]_bulkVars
  BY HubStepsTransfer
<1> QED
  BY <1>1, <1>2, PTL DEF HubSpec, Spec

\* What the transfer keeps by itself it keeps below the hub.
THEOREM HubKeepsTransfer ==
  HubSpec => /\ [](TypeOK /\ AcknowledgedIsStored /\ LeftClean /\ WorkerBelongs /\ InOrder)
             /\ ErrorSticks
BY HubImplementsTransfer, BulkTypeCorrect, AcknowledgedSafe, CleanAfter, WorkerOwned,
   DataInOrder, ErrorNotForgotten, PTL

\* The ACK of an END is the truth: the file holds what the accepted START announced, then and
\* after every loss of power, until the PC has another frame answered.
THEOREM EndAckIsTrue == HubSpec => []EndAckTruthful
<1>1. IInv /\ HInv => EndAckTruthful
  BY DEF IInv, Safe, HInv, EndVouched, EndAckTruthful, AcknowledgedIsStored
<1> QED
  BY <1>1, HubInvariant, PTL
=============================================================================
