--------------------------- MODULE BulkProperties ---------------------------
(***************************************************************************)
(* What the bulk transfer has to guarantee to its caller and to the readers *)
(* of the file.                                                             *)
(***************************************************************************)
EXTENDS BulkTransfer

States == {"Idle", "Receiving", "Finalizing", "Success", "Failed"}
Errors == {"None", "TimeOut", "QueueError", "WriteError", "FileSync", "FileClose",
           "FileDelete", "RefreshFileCatalog", "ReceivedByteCountMismatch",
           "CRCMismatch"}
UartPcs == {"idle", "return", "startLock", "start", "startDelete", "startCreate",
            "startOpen", "sendLock", "send", "sendPut", "sendCount", "endLock",
            "endCheck", "endFinalize", "endPut", "endWait", "endJudge", "endSync",
            "endClose", "endCatalog", "endFail", "endAbort", "endKill", "endDrop",
            "endDelete", "endExit"}
Messages == [type : {"Data"}, chunk : Chunks] \cup {EndMsg}
Contents == Seq(Data)

Transfers == [state : States, error : Errors, size : Nat, crc : Contents,
              accepted : Nat, nextId : Nat, running : Contents, received : Nat,
              bFileOpen : BOOLEAN, bMsgQ : BOOLEAN, bThread : BOOLEAN]
Workers == [pc : {"dead", "get", "write"}, chunk : Contents]
Results == Errors \cup {"ok", "refused", "EBUSY", "ENOMSG", "InvalidRequest"}
UartThreads == [pc : UartPcs, call : Calls, result : Results]

\* The record of the transfer, the queue and every thread stay in their domains;
\* the queue never holds more than its MAX_MSGQ_DEPTH messages.
TypeOK ==
  /\ bulk \in Transfers
  /\ queue \in Seq(Messages) /\ Len(queue) <= Depth
  /\ done \in {0, 1}
  /\ worker \in Workers
  /\ wq \in {"idle", "lock", "delete"}
  /\ owner \in {"uart", "wq", None}
  /\ uart \in UartThreads
  /\ file \in Contents \cup {Absent}
  /\ handle \in Contents \cup {Closed}
  /\ {listed, orphaned} \subseteq BOOLEAN
  /\ taken \in Contents
  /\ vouched \in Contents \cup {Absent}

\* A file whose END was acknowledged has exactly the announced content, whatever
\* failed before or after, and keeps it over a power cut until the next START of
\* that name has deleted it.
AcknowledgedIsStored == vouched # Absent => file = vouched

AtRest == bulk.state = "Idle" /\ owner = None

\* Without file-system failures and power cuts no incomplete file survives its
\* transfer: whichever of END and cleanup came first, what is found at the path
\* afterwards is what the last successful END acknowledged, or nothing.
NothingHalfWritten == AtRest => file = vouched

\* A transfer that is over leaves nothing for the next one: no worker, no queued
\* frame, no signal of the worker and no open file.
LeftClean ==
  bulk.state = "Idle" =>
    /\ worker = Dead /\ queue = <<>> /\ done = 0
    /\ handle = Closed

\* A worker is alive only for the transfer that made it: it can be aborted, its
\* file is open, and the cleanup of an earlier transfer is over.
WorkerBelongs ==
  worker # Dead =>
    /\ bulk.bThread /\ bulk.state # "Idle"
    /\ handle # Closed
    /\ wq = "idle"

\* The content s is b followed by the chunks of the messages q, in their order: the first i of
\* them end where cut[i] units of s do.
Cuts(cut, s, b, q) ==
  /\ cut[0] = Len(b) /\ cut[Len(q)] = Len(s)
  /\ \A k \in 1 .. Len(b) : s[k] = b[k]
  /\ \A i \in 1 .. Len(q) :
       /\ cut[i] = cut[i - 1] + Len(q[i].chunk)
       /\ \A k \in 1 .. Len(q[i].chunk) : s[cut[i - 1] + k] = q[i].chunk[k]

Consists(s, b, q) == \E cut \in [0 .. Len(q) -> 0 .. Len(s)] : Cuts(cut, s, b, q)

\* Accepted data is written in order and once: as long as the transfer has no
\* error, what was accepted is what is written, being written and queued.
InOrder ==
  bulk.state # "Idle" /\ bulk.error = "None" =>
    /\ Consists(taken, bulk.running \o worker.chunk, queue)
    /\ handle \in {bulk.running, Closed}

\* One error makes the transfer fail: it is never forgotten before the transfer is
\* over, although END overwrites the Failed state of the worker.
ErrorSticks ==
  [][bulk.error # "None" => bulk'.error # "None" \/ bulk'.state = "Idle"]_bulk

\* END gave up waiting for the worker and aborted it inside its write: closing the file waits
\* for locks that a dead thread holds (292-297; ZephyrFlashMiddleWare.c:185-191).
StuckInEnd ==
  /\ orphaned /\ uart.pc = "endDrop" /\ owner = "uart"
  /\ bulk.error \in {"TimeOut", "QueueError"}

\* The caller never needs to send END: a transfer that is abandoned, or fails, is over at some
\* time.  Only an END that did not wait for the worker's write may never end the transfer.
TransferEnds == bulk.state # "Idle" ~> bulk.state = "Idle" \/ StuckInEnd

\* Every call returns: no thread waits for one that waits for it.  Only an END that did not
\* wait for the worker's write may never return.
CallsReturn == uart.pc # "idle" ~> uart.pc = "idle" \/ StuckInEnd
=============================================================================
