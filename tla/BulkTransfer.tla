---------------------------- MODULE BulkTransfer ----------------------------
(***************************************************************************)
(* The bulk file transfer of LittleFs_Controller.c: a file is announced,    *)
(* its data frames are queued by the caller and written by a worker thread  *)
(* made for the transfer, and the end of the transfer checks size and CRC   *)
(* and keeps the file or deletes it.                                        *)
(*                                                                          *)
(* Three threads run this code: "uart", the PC UART thread that calls the   *)
(* interface, one call at a time; the worker, of higher priority; and "wq", *)
(* the cooperative system workqueue, which cleans up after a transfer that  *)
(* failed without its END.  A thread of higher priority runs until it       *)
(* blocks: on the queue, on the mutex, or in a file-system operation (the   *)
(* flash is slow).  Between two such points a step of the worker is atomic; *)
(* the UART thread may be preempted between any two steps below, and moves  *)
(* only while the others are blocked (MayRun).                              *)
(*                                                                          *)
(* A thread in a file-system operation holds the lock of LittleFS, and for  *)
(* the flash operations below it the mutex of the flash driver; both are    *)
(* asked for with K_FOREVER.  The kernel gives neither back when the thread *)
(* is aborted: from then on no file-system operation returns.               *)
(*                                                                          *)
(* Data are sequences; a CRC is idealised as the sequence it was computed   *)
(* from.  One path of the file system is modelled: `file` is what a reader, *)
(* or the next boot, finds there.                                           *)
(***************************************************************************)
EXTENDS Integers, Sequences

CONSTANTS Depth,      \* MAX_MSGQ_DEPTH
          Data,       \* units of a file's content
          Sizes,      \* file sizes a caller announces
          Images,     \* contents whose CRC a caller announces
          Chunks,     \* contents of a data frame
          Ids,        \* frame identifiers a caller sends
          FsFails,    \* file-system operations may fail
          PowerCuts,  \* the power may be lost
          Absent,     \* the path names no file
          Closed,     \* no open file
          None        \* no thread

ASSUME BulkConstantsAssumption ==
  /\ Depth \in Nat \ {0}
  /\ Sizes \subseteq Nat /\ Ids \subseteq Nat
  /\ Images \subseteq Seq(Data)
  /\ Chunks \subseteq Seq(Data) \ {<<>>}
  /\ {FsFails, PowerCuts} \subseteq BOOLEAN
  /\ None \notin {"uart", "wq"}
  /\ {Absent, Closed} \cap Seq(Data) = {}

VARIABLES
  bulk,     \* stTBulkDataCtrl
  queue,    \* stMsgQueue_FileTransfer
  done,     \* kSem_BulkWorkerDone
  worker,   \* the transfer thread, with the data it is writing
  wq,       \* where the workqueue is in vDataTransfer_TimeOutHandler
  owner,    \* holder of kMutex_BulkTransfer
  uart,     \* where the UART thread is, its call and what the call returned
  file,     \* content of the path, as committed to the flash
  handle,   \* content of the file open for the transfer
  listed,   \* the path is in the file catalogue
  orphaned, \* a thread was aborted with the locks below the file system
  taken,    \* history: the data accepted in this transfer
  vouched   \* history: what the last successful END acknowledged

fs == <<file, handle, listed, orphaned>>
history == <<taken, vouched>>
bulkVars == <<bulk, queue, done, worker, wq, owner, uart, file, handle, listed,
              orphaned, taken, vouched>>

Calls ==
       [api : {"start"}, size : Sizes, crc : Images]
  \cup [api : {"send"}, id : Ids, chunk : Chunks, sound : BOOLEAN]
  \cup [api : {"end"}]

\* stTBulkDataCtrl after vSet_BulkkTransferData_ToDefault.
Fresh == [state |-> "Idle", error |-> "None", size |-> 0, crc |-> <<>>,
          accepted |-> 0, nextId |-> 0, running |-> <<>>, received |-> 0,
          bFileOpen |-> FALSE, bMsgQ |-> FALSE, bThread |-> FALSE]

Dead == [pc |-> "dead", chunk |-> <<>>]
Waiting == [pc |-> "get", chunk |-> <<>>]
Writing(c) == [pc |-> "write", chunk |-> c]

DataMsg(c) == [type |-> "Data", chunk |-> c]
EndMsg == [type |-> "End", chunk |-> <<>>]

\* Power-on: the path may hold a file of an earlier session, which is listed.
Init ==
  /\ bulk = Fresh /\ queue = <<>> /\ done = 0
  /\ worker = Dead /\ wq = "idle" /\ owner = None
  /\ uart = [pc |-> "idle", call |-> [api |-> "end"], result |-> "ok"]
  /\ file \in Images \cup {Absent}
  /\ handle = Closed /\ listed = (file # Absent) /\ orphaned = FALSE
  /\ taken = <<>> /\ vouched = file

-----------------------------------------------------------------------------
(* Scheduling, the mutex, and the record of the transfer. *)

\* The UART thread runs while the worker waits for a message that is not there, or
\* for the flash, and the workqueue for the mutex, or for the flash.
MayRun ==
  /\ ~ (worker.pc = "get" /\ queue # <<>>)
  /\ ~ (wq = "lock" /\ owner # "uart")

At(label) == uart.pc = label /\ MayRun
Goto(label) == uart' = [uart EXCEPT !.pc = label]
Return(result) == uart' = [uart EXCEPT !.pc = "return", !.result = result]

\* k_mutex_unlock hands the mutex to the workqueue when it waits.
Unlock == owner' = IF wq = "lock" THEN "wq" ELSE None

\* k_mutex_lock with K_MSEC(100): only the cleanup can hold it that long.
Lock(label, next, busy) ==
  /\ At(label)
  /\ \/ owner = None /\ owner' = "uart" /\ Goto(next)
     \/ owner = "wq" /\ UNCHANGED owner /\ Return(busy)
  /\ UNCHANGED <<bulk, queue, done, worker, wq, fs, history>>

Fails(error) == [bulk EXCEPT !.error = error, !.state = "Failed"]

\* Seeded fault: the semaphore keeps the signal of the former worker.
DefaultWithoutReset ==
  /\ bulk' = Fresh
  /\ queue' = IF bulk.bMsgQ THEN <<>> ELSE queue
  /\ worker' = IF bulk.bThread THEN Dead ELSE worker
  /\ UNCHANGED done

\* vSet_BulkkTransferData_ToDefault
ToDefault ==
  /\ bulk' = Fresh
  /\ queue' = IF bulk.bMsgQ THEN <<>> ELSE queue
  /\ worker' = IF bulk.bThread THEN Dead ELSE worker
  /\ done' = 0

-----------------------------------------------------------------------------
(* The file system below the transfer: what an operation may leave. *)

\* The UART thread is at an operation of the file system, which returns.
AtFs(label) == At(label) /\ ~orphaned

FsOutcome(f, l, ok) == [file |-> f, listed |-> l, ok |-> ok]

\* iDelete_FileInternal: a path that is not listed, or whose file is gone, is
\* -ENOENT, which every caller accepts; the refresh of the catalogue may fail
\* after the file was unlinked.
Deleted ==
  IF ~listed \/ file = Absent THEN {FsOutcome(file, listed, TRUE)}
  ELSE {FsOutcome(Absent, FALSE, TRUE)} \cup
       {FsOutcome(f, TRUE, FALSE) : f \in IF FsFails THEN {file, Absent} ELSE {}}

\* iCreate_File: refused when the path exists; the new file is empty.
Created ==
  IF file # Absent THEN {FsOutcome(file, listed, FALSE)}
  ELSE {FsOutcome(<<>>, TRUE, TRUE)} \cup
       {FsOutcome(f, listed, FALSE) : f \in IF FsFails THEN {<<>>, Absent} ELSE {}}

\* fs_close: what was not synced reaches the flash, or not when something failed.
AfterClose == IF FsFails THEN {handle, file} ELSE {handle}

Refreshed(f) == f # Absent

Becomes(outcome) == file' = outcome.file /\ listed' = outcome.listed

-----------------------------------------------------------------------------
(* bStart_BulkDataTransfer *)

\* Parameters are checked before the mutex is asked for.
Call(c) ==
  /\ At("idle")
  /\ uart' = [pc |-> IF c.api = "start" THEN
                       IF c.size = 0 THEN "return" ELSE "startLock"
                     ELSE IF c.api = "send" THEN "sendLock" ELSE "endLock",
              call |-> c,
              result |-> IF c.api = "end" THEN "InvalidRequest" ELSE "refused"]
  /\ UNCHANGED <<bulk, queue, done, worker, wq, owner, fs, history>>

StartLock == Lock("startLock", "start", "refused")

CanStart == bulk.state = "Idle"

StartBusy ==
  /\ At("start") /\ ~CanStart
  /\ Unlock /\ Return("refused")
  /\ UNCHANGED <<bulk, queue, done, worker, wq, fs, history>>

Start ==
  /\ At("start") /\ CanStart
  /\ ToDefault
  /\ taken' = <<>>
  /\ Goto("startDelete")
  /\ UNCHANGED <<wq, owner, fs, vouched>>

\* The former file of that name goes; a failure ends the start with state Idle.
StartDelete ==
  /\ AtFs("startDelete")
  /\ \E o \in Deleted :
        /\ Becomes(o)
        /\ vouched' = IF o.file = Absent THEN Absent ELSE vouched
        /\ \/ o.ok /\ Goto("startCreate") /\ UNCHANGED owner
           \/ ~o.ok /\ Unlock /\ Return("refused")
  /\ UNCHANGED <<bulk, queue, done, worker, wq, handle, orphaned, taken>>

StartCreate ==
  /\ AtFs("startCreate")
  /\ \E o \in Created :
        /\ Becomes(o)
        /\ \/ o.ok /\ Goto("startOpen") /\ UNCHANGED owner
           \/ ~o.ok /\ Unlock /\ Return("refused")
  /\ UNCHANGED <<bulk, queue, done, worker, wq, handle, orphaned, history>>

\* fs_open failed: the empty file is deleted, if it can be.
StartOpenFailed ==
  /\ AtFs("startOpen") /\ FsFails
  /\ \E o \in Deleted : Becomes(o)
  /\ Unlock /\ Return("refused")
  /\ UNCHANGED <<bulk, queue, done, worker, wq, handle, orphaned, history>>

\* The file is open: queue, semaphore, work item and thread are made anew.
StartOpen ==
  /\ AtFs("startOpen")
  /\ handle' = <<>>
  /\ queue' = <<>> /\ done' = 0 /\ wq' = "idle"
  /\ worker' = Waiting
  /\ bulk' = [bulk EXCEPT !.size = uart.call.size, !.crc = uart.call.crc,
                          !.running = <<>>, !.bFileOpen = TRUE, !.bMsgQ = TRUE,
                          !.bThread = TRUE, !.state = "Receiving"]
  /\ Unlock /\ Return("ok")
  /\ UNCHANGED <<file, listed, orphaned, history>>

-----------------------------------------------------------------------------
(* iSend_BulkTransferData *)

SendLock == Lock("sendLock", "send", "EBUSY")

Acceptable(c) ==
  /\ bulk.state = "Receiving" /\ bulk.error = "None"
  /\ c.id = bulk.nextId
  /\ bulk.accepted + Len(c.chunk) <= bulk.size
  /\ c.sound

SendRefused ==
  /\ At("send") /\ ~Acceptable(uart.call)
  /\ Unlock /\ Return("refused")
  /\ UNCHANGED <<bulk, queue, done, worker, wq, fs, history>>

SendChecked ==
  /\ At("send") /\ Acceptable(uart.call)
  /\ Goto("sendPut")
  /\ UNCHANGED <<bulk, queue, done, worker, wq, owner, fs, history>>

\* Seeded fault: a full queue is not noticed.
PutUnbounded ==
  /\ At("sendPut")
  /\ queue' = Append(queue, DataMsg(uart.call.chunk))
  /\ taken' = taken \o uart.call.chunk
  /\ Goto("sendCount")
  /\ UNCHANGED <<bulk, done, worker, wq, owner, fs, vouched>>

SendPut ==
  /\ At("sendPut") /\ Len(queue) < Depth
  /\ queue' = Append(queue, DataMsg(uart.call.chunk))
  /\ taken' = taken \o uart.call.chunk
  /\ Goto("sendCount")
  /\ UNCHANGED <<bulk, done, worker, wq, owner, fs, vouched>>

\* The worker may have run since the message was queued.
SendCount ==
  /\ At("sendCount")
  /\ bulk' = [bulk EXCEPT !.accepted = @ + Len(uart.call.chunk), !.nextId = @ + 1]
  /\ Unlock /\ Return("ok")
  /\ UNCHANGED <<queue, done, worker, wq, fs, history>>

SendFull ==
  /\ At("sendPut") /\ Len(queue) = Depth
  /\ Unlock /\ Return("ENOMSG")
  /\ UNCHANGED <<bulk, queue, done, worker, wq, fs, history>>

-----------------------------------------------------------------------------
(* vEnd_BulkDataTransfer *)

EndLock == Lock("endLock", "endCheck", "InvalidRequest")

EndRefused ==
  /\ At("endCheck") /\ bulk.state # "Receiving"
  /\ Unlock /\ Return("InvalidRequest")
  /\ UNCHANGED <<bulk, queue, done, worker, wq, fs, history>>

EndChecked ==
  /\ At("endCheck") /\ bulk.state = "Receiving"
  /\ Goto("endFinalize")
  /\ UNCHANGED <<bulk, queue, done, worker, wq, owner, fs, history>>

\* The worker may have failed since the check: its state is overwritten.
EndFinalize ==
  /\ At("endFinalize")
  /\ bulk' = [bulk EXCEPT !.state = "Finalizing"]
  /\ Goto("endPut")
  /\ UNCHANGED <<queue, done, worker, wq, owner, fs, history>>

EndPut ==
  /\ At("endPut") /\ Len(queue) < Depth
  /\ queue' = Append(queue, EndMsg)
  /\ Goto("endWait")
  /\ UNCHANGED <<bulk, done, worker, wq, owner, fs, history>>

\* Seeded fault: the END marker waits for ever for room in the queue.
PutForever == FALSE /\ UNCHANGED bulkVars

\* No room for the END marker within DATA_TRANSFER_THREAD_TIMEOUT_ms.
EndPutTimeout ==
  /\ At("endPut") /\ Len(queue) = Depth
  /\ bulk' = [bulk EXCEPT !.error = "QueueError"]
  /\ Goto("endFail")
  /\ UNCHANGED <<queue, done, worker, wq, owner, fs, history>>

EndWait ==
  /\ At("endWait") /\ done = 1
  /\ done' = 0
  /\ Goto("endJudge")
  /\ UNCHANGED <<bulk, queue, worker, wq, owner, fs, history>>

EndWaitTimeout ==
  /\ At("endWait") /\ done = 0
  /\ bulk' = [bulk EXCEPT !.error = "TimeOut"]
  /\ Goto("endFail")
  /\ UNCHANGED <<queue, done, worker, wq, owner, fs, history>>

\* Seeded fault: the error of the worker is not asked for.
JudgeIgnoringErrors(b) ==
  IF b.received # b.size THEN "ReceivedByteCountMismatch"
  ELSE IF b.running # b.crc THEN "CRCMismatch" ELSE "None"

\* The verdict on a transfer the worker has finished.
Judged(b) ==
  IF b.error # "None" THEN b.error
  ELSE IF b.received # b.size THEN "ReceivedByteCountMismatch"
  ELSE IF b.running # b.crc THEN "CRCMismatch" ELSE "None"

EndJudge ==
  /\ At("endJudge")
  /\ bulk' = [bulk EXCEPT !.error = Judged(bulk),
                          !.state = IF Judged(bulk) = "None" THEN "Success" ELSE "Failed"]
  /\ Goto(IF Judged(bulk) = "None" THEN "endSync" ELSE "endAbort")
  /\ UNCHANGED <<queue, done, worker, wq, owner, fs, history>>

\* Seeded fault: the file is not synced, only closed.
NotSynced ==
  /\ AtFs("endSync")
  /\ Goto("endClose")
  /\ UNCHANGED <<bulk, queue, done, worker, wq, owner, fs, history>>

EndSync ==
  /\ AtFs("endSync")
  /\ \/ file' = handle /\ Goto("endClose") /\ UNCHANGED bulk
     \/ FsFails /\ file' \in {handle, file} /\ Goto("endAbort")
        /\ bulk' = Fails("FileSync")
  /\ UNCHANGED <<queue, done, worker, wq, owner, handle, listed, orphaned, history>>

\* A synced file that cannot be closed is kept, and END reports an error.
EndClose ==
  /\ AtFs("endClose")
  /\ handle' = Closed
  /\ \/ Goto("endCatalog") /\ bulk' = [bulk EXCEPT !.bFileOpen = FALSE]
     \/ FsFails /\ Goto("endExit")
        /\ bulk' = [Fails("FileClose") EXCEPT !.bFileOpen = FALSE]
  /\ UNCHANGED <<queue, done, worker, wq, owner, file, listed, orphaned, history>>

EndCatalog ==
  /\ AtFs("endCatalog")
  /\ Goto("endExit")
  /\ \/ listed' = Refreshed(file) /\ UNCHANGED bulk
     \/ FsFails /\ bulk' = Fails("RefreshFileCatalog") /\ UNCHANGED listed
  /\ UNCHANGED <<queue, done, worker, wq, owner, file, handle, orphaned, history>>

EndFail ==
  /\ At("endFail")
  /\ bulk' = [bulk EXCEPT !.state = "Failed"]
  /\ Goto("endAbort")
  /\ UNCHANGED <<queue, done, worker, wq, owner, fs, history>>

\* The worker may finish between the test of its flag and the abort.
EndAbort ==
  /\ At("endAbort")
  /\ Goto(IF bulk.bThread THEN "endKill" ELSE "endDrop")
  /\ UNCHANGED <<bulk, queue, done, worker, wq, owner, fs, history>>

\* Seeded fault: the flag is cleared and the thread goes on.
FlagOnly ==
  /\ At("endKill")
  /\ bulk' = [bulk EXCEPT !.bThread = FALSE]
  /\ Goto("endDrop")
  /\ UNCHANGED <<queue, done, worker, wq, owner, fs, history>>

\* A worker in a write waits for the lock of the file system, or for the flash with the
\* locks, which stay taken; its frame may have reached the file.
EndKill ==
  /\ At("endKill")
  /\ worker' = Dead
  /\ \/ UNCHANGED <<handle, orphaned>>
     \/ worker.pc = "write" /\ orphaned' = TRUE
        /\ handle' \in {handle, handle \o worker.chunk}
  /\ bulk' = [bulk EXCEPT !.bThread = FALSE]
  /\ Goto("endDrop")
  /\ UNCHANGED <<queue, done, wq, owner, file, listed, history>>

\* Closing commits what was written; the deletion below takes it away again.  After the abort
\* of a worker in its write it never returns, and END keeps the mutex of the transfer.
EndDrop ==
  /\ At("endDrop") /\ (bulk.bFileOpen => ~orphaned)
  /\ file' \in IF bulk.bFileOpen THEN AfterClose ELSE {file}
  /\ handle' = IF bulk.bFileOpen THEN Closed ELSE handle
  /\ bulk' = [bulk EXCEPT !.bFileOpen = FALSE]
  /\ Goto("endDelete")
  /\ UNCHANGED <<queue, done, worker, wq, owner, listed, orphaned, history>>

EndDelete ==
  /\ AtFs("endDelete")
  /\ \E o \in Deleted :
        /\ Becomes(o)
        /\ bulk' = IF o.ok THEN bulk ELSE [bulk EXCEPT !.error = "FileDelete"]
  /\ Goto("endExit")
  /\ UNCHANGED <<queue, done, worker, wq, owner, handle, orphaned, history>>

Succeeded == bulk.state = "Success" /\ bulk.error = "None"

EndExit ==
  /\ At("endExit")
  /\ Return(IF Succeeded THEN "ok" ELSE bulk.error)
  /\ vouched' = IF Succeeded THEN bulk.crc ELSE vouched
  /\ ToDefault /\ Unlock
  /\ UNCHANGED <<wq, fs, taken>>

Reply ==
  /\ At("return")
  /\ Goto("idle")
  /\ UNCHANGED <<bulk, queue, done, worker, wq, owner, fs, history>>

-----------------------------------------------------------------------------
(* vLittleFs_FileTransferMonitor, the worker. *)

\* vSignal_BulkWorkerDone: the worker is over; b is the record it leaves.
Signal(b, cleanup) ==
  /\ bulk' = [b EXCEPT !.bThread = FALSE]
  /\ done' = 1
  /\ wq' = IF cleanup /\ wq = "idle" THEN "lock" ELSE wq
  /\ worker' = Dead

\* Seeded fault: the worker gives up without asking for the cleanup.
SilentTimeout ==
  /\ worker.pc = "get" /\ queue = <<>>
  /\ Signal(Fails("TimeOut"), FALSE)
  /\ UNCHANGED <<queue, owner, uart, fs, history>>

\* No message within DATA_TRANSFER_TIMEOUT_ms.
WorkerTimeout ==
  /\ worker.pc = "get" /\ queue = <<>>
  /\ Signal(Fails("TimeOut"), TRUE)
  /\ UNCHANGED <<queue, owner, uart, fs, history>>

CanProcess == bulk.state \in {"Receiving", "Finalizing"}

WorkerEnd ==
  /\ worker.pc = "get" /\ queue # <<>> /\ Head(queue).type = "End"
  /\ queue' = Tail(queue)
  /\ Signal(bulk, FALSE)
  /\ UNCHANGED <<owner, uart, fs, history>>

WorkerTake ==
  /\ worker.pc = "get" /\ queue # <<>> /\ Head(queue).type = "Data"
  /\ queue' = Tail(queue)
  /\ \/ /\ CanProcess
        /\ worker' = Writing(Head(queue).chunk)
        /\ UNCHANGED <<bulk, done, wq>>
     \/ ~CanProcess /\ Signal(Fails("QueueError"), TRUE)
  /\ UNCHANGED <<owner, uart, fs, history>>

WorkerWrite ==
  /\ worker.pc = "write" /\ handle # Closed /\ ~orphaned
  /\ handle' = handle \o worker.chunk
  /\ bulk' = [bulk EXCEPT !.running = @ \o worker.chunk,
                          !.received = @ + Len(worker.chunk)]
  /\ worker' = Waiting
  /\ UNCHANGED <<queue, done, wq, owner, uart, file, listed, orphaned, history>>

\* Seeded fault: a write that failed is tried again.
WriteRetried ==
  /\ worker.pc = "write" /\ FsFails
  /\ handle' \in {handle, handle \o worker.chunk}
  /\ UNCHANGED <<bulk, queue, done, worker, wq, owner, uart, file, listed, orphaned, history>>

\* A write that fails may leave its data in the file.
WorkerWriteFails ==
  /\ worker.pc = "write" /\ (FsFails \/ handle = Closed) /\ ~orphaned
  /\ handle' \in IF handle = Closed THEN {Closed} ELSE {handle, handle \o worker.chunk}
  /\ Signal(Fails("WriteError"), TRUE)
  /\ UNCHANGED <<queue, owner, uart, file, listed, orphaned, history>>

-----------------------------------------------------------------------------
(* vDataTransfer_TimeOutHandler, in the system workqueue. *)

CleanupLock ==
  /\ wq = "lock" /\ owner = None
  /\ owner' = "wq"
  /\ UNCHANGED <<bulk, queue, done, worker, wq, uart, fs, history>>

CleanupNeeded == bulk.error # "None" /\ bulk.state # "Idle"

CleanupOver ==
  /\ wq = "lock" /\ owner = "wq" /\ ~CleanupNeeded
  /\ wq' = "idle" /\ owner' = None
  /\ UNCHANGED <<bulk, queue, done, worker, uart, fs, history>>

CleanupClose ==
  /\ wq = "lock" /\ owner = "wq" /\ CleanupNeeded
  /\ bulk.bFileOpen => ~orphaned
  /\ file' \in IF bulk.bFileOpen THEN AfterClose ELSE {file}
  /\ handle' = IF bulk.bFileOpen THEN Closed ELSE handle
  /\ bulk' = [bulk EXCEPT !.state = "Failed", !.bFileOpen = FALSE]
  /\ wq' = "delete"
  /\ UNCHANGED <<queue, done, worker, owner, uart, listed, orphaned, history>>

CleanupDelete ==
  /\ wq = "delete" /\ ~orphaned
  /\ \E o \in Deleted : Becomes(o)
  /\ ToDefault
  /\ wq' = "idle" /\ owner' = None
  /\ UNCHANGED <<uart, handle, orphaned, history>>

-----------------------------------------------------------------------------
\* A reset: what was not committed is lost, and the catalogue is read again.
PowerCut ==
  /\ PowerCuts
  /\ bulk' = Fresh /\ queue' = <<>> /\ done' = 0
  /\ worker' = Dead /\ wq' = "idle" /\ owner' = None
  /\ Goto("idle")
  /\ handle' = Closed /\ listed' = Refreshed(file) /\ orphaned' = FALSE
  /\ taken' = <<>>
  /\ UNCHANGED <<file, vouched>>

Running ==
  \/ StartLock \/ StartBusy \/ Start \/ StartDelete \/ StartCreate
  \/ StartOpenFailed \/ StartOpen
  \/ SendLock \/ SendRefused \/ SendChecked \/ SendPut \/ SendCount \/ SendFull
  \/ EndLock \/ EndRefused \/ EndChecked \/ EndFinalize \/ EndPut
  \/ EndPutTimeout \/ EndWait \/ EndWaitTimeout \/ EndJudge \/ EndSync
  \/ EndClose \/ EndCatalog \/ EndFail \/ EndAbort \/ EndKill \/ EndDrop
  \/ EndDelete \/ EndExit

Worker ==
  \/ WorkerTimeout \/ WorkerEnd \/ WorkerTake \/ WorkerWrite \/ WorkerWriteFails

Workqueue == CleanupLock \/ CleanupOver \/ CleanupClose \/ CleanupDelete

Internal == Running \/ Worker \/ Workqueue

Next == (\E c \in Calls : Call(c)) \/ Reply \/ Internal \/ PowerCut

Spec == Init /\ [][Next]_bulkVars

\* Time passes and flash operations end: every thread that can move moves.
BulkFairness == WF_bulkVars(Running) /\ WF_bulkVars(Worker) /\ WF_bulkVars(Workqueue)

FairSpec == Spec /\ BulkFairness /\ WF_bulkVars(Reply)
=============================================================================
