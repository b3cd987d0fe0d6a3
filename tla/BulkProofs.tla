----------------------------- MODULE BulkProofs -----------------------------
(***************************************************************************)
(* What is proved about the bulk transfer for every queue depth, file       *)
(* content and sequence of calls, with any file-system failures and power   *)
(* cuts.                                                                    *)
(***************************************************************************)
EXTENDS BulkProperties, TLAPS

-----------------------------------------------------------------------------
(* The inductive invariant. *)

Preparing == {"startDelete", "startCreate", "startOpen"}

\* The transfer is being ended, and its file is open.
EndingOpen == {"endFinalize", "endPut", "endWait", "endJudge", "endSync", "endClose",
               "endFail", "endAbort", "endKill"}

Ending == EndingOpen \cup {"endCatalog", "endDrop", "endDelete", "endExit"}

\* The UART thread holds the transfer mutex.
Critical == {"start", "send", "sendPut", "sendCount", "endCheck"} \cup Preparing \cup Ending

\* The worker is over, or was aborted.
Alone == {"endJudge", "endSync", "endClose", "endCatalog", "endDrop", "endDelete",
          "endExit"}

\* The end has found an error.
Failing == {"endFail", "endAbort", "endKill", "endDrop", "endDelete"}

\* The mutex excludes the UART thread and the cleanup; a cleanup that is late holds
\* the mutex before a new transfer can begin.
MutexHeld ==
  /\ owner = "uart" <=> uart.pc \in Critical
  /\ owner = "wq" => wq # "idle"
  /\ wq = "delete" => owner = "wq" /\ bulk.state # "Idle" /\ handle = Closed
  /\ bulk.state = "Idle" /\ wq = "lock" => owner = "wq"

\* The UART thread serves the call it was given.
CallServed ==
  /\ uart.pc \in {"startLock", "start"} \cup Preparing => uart.call.api = "start"
  /\ uart.pc \in {"sendLock", "send", "sendPut", "sendCount"} => uart.call.api = "send"

\* What is known of the transfer at each point of the UART thread.
Phase ==
  /\ uart.pc \in Preparing => bulk.state = "Idle"
  /\ uart.pc \in Ending \cup {"sendPut", "sendCount"} => bulk.state # "Idle"
  /\ uart.pc \in Ending \ {"endFinalize"} => bulk.state # "Receiving"
  /\ uart.pc \in Alone => worker = Dead
  /\ uart.pc \in Failing => bulk.error # "None"
  /\ bulk.state = "Receiving" \/ uart.pc \in EndingOpen => handle # Closed
  /\ uart.pc \in {"endCatalog", "endDelete", "endExit"} => handle = Closed

\* The flags of the record tell the truth about queue, worker and file.
Flags ==
  /\ bulk.bFileOpen <=> handle # Closed
  /\ bulk.state # "Idle" => bulk.bMsgQ
  /\ done = 1 => worker = Dead

\* Where the data is: written data is what the running CRC was computed from, and
\* a successful end has committed it.
DataPlaced ==
  /\ bulk.state # "Idle" \/ uart.pc = "startOpen" => vouched = Absent
  /\ bulk.state # "Idle" /\ bulk.error = "None" => handle \in {bulk.running, Closed}
  /\ uart.pc = "endSync" => bulk.error = "None" /\ bulk.running = bulk.crc
  /\ uart.pc \in {"endClose", "endCatalog"} => file = bulk.crc
  /\ uart.pc = "endExit" /\ Succeeded => file = bulk.crc

Control == MutexHeld /\ CallServed /\ Phase /\ Flags /\ LeftClean /\ WorkerBelongs
Safe == Control /\ DataPlaced /\ AcknowledgedIsStored
IInv == TypeOK /\ Safe

-----------------------------------------------------------------------------
(* Sequences. *)

\* Appending to, and taking from, a queue of messages.
LEMMA QueueOps ==
  ASSUME NEW S, NEW q \in Seq(S)
  PROVE  /\ \A e \in S : Append(q, e) \in Seq(S) /\ Len(Append(q, e)) = Len(q) + 1
         /\ q # <<>> => /\ Head(q) \in S
                       /\ Tail(q) \in Seq(S)
                       /\ Len(Tail(q)) = Len(q) - 1
  OBVIOUS

\* Contents joined are contents; lengths are naturals.
LEMMA ContentOps ==
  ASSUME NEW c \in Contents, NEW d \in Contents
  PROVE  c \o d \in Contents /\ Len(d) \in Nat
  BY DEF Contents

\* The empty sequence is a sequence over any set.
LEMMA EmptySeq == ASSUME NEW S PROVE <<>> \in Seq(S) /\ Len(<<>>) = 0
  OBVIOUS

\* What callers send and announce is content; the markers are not.
LEMMA ContentTypes ==
  /\ Chunks \subseteq Contents /\ Images \subseteq Contents
  /\ <<>> \in Contents
  /\ Absent \notin Contents /\ Closed \notin Contents
<1>1. Chunks \subseteq Contents /\ Images \subseteq Contents
  BY BulkConstantsAssumption, Zenon DEF Contents
<1>2. <<>> \in Contents
  BY EmptySeq, Zenon DEF Contents
<1>3. Absent \notin Contents /\ Closed \notin Contents
  BY BulkConstantsAssumption, Zenon DEF Contents
<1> QED
  BY <1>1, <1>2, <1>3, Zenon

\* A message is of one type and carries content.
LEMMA MessageTypes ==
  ASSUME NEW m \in Messages
  PROVE  /\ m.chunk \in Contents
         /\ m.type = "Data" => m.chunk \in Chunks
<1>1. CASE m = EndMsg
  BY <1>1, ContentTypes DEF EndMsg
<1>2. CASE m \in [type : {"Data"}, chunk : Chunks]
  BY <1>2, ContentTypes
<1> QED
  BY <1>1, <1>2 DEF Messages

\* What END and DATA put into the queue is a message.
LEMMA NewMessages ==
  EndMsg \in Messages /\ \A c \in Chunks : DataMsg(c) \in Messages
  BY DEF Messages, EndMsg, DataMsg

-----------------------------------------------------------------------------
(* The records of the threads and of the transfer. *)

\* A step of the UART thread moves its program counter and nothing else.
LEMMA GotoMoves ==
  ASSUME uart \in UartThreads, NEW l \in UartPcs, Goto(l)
  PROVE  uart' \in UartThreads /\ uart'.pc = l /\ uart'.call = uart.call
  BY DEF UartThreads, Goto

\* A call that returns sets the result with the program counter.
LEMMA ReturnMoves ==
  ASSUME uart \in UartThreads, NEW r \in Results, Return(r)
  PROVE  uart' \in UartThreads /\ uart'.pc = "return"
<1>1. "return" \in UartPcs
  BY DEF UartPcs
<1> QED
  BY <1>1 DEF UartThreads, Return

\* The fields of a call that was made.
LEMMA CallFields ==
  ASSUME NEW c \in Calls
  PROVE  /\ c.api \in {"start", "send", "end"}
         /\ c.api = "start" => c.size \in Nat /\ c.crc \in Contents
         /\ c.api = "send" => c.chunk \in Chunks
<1>1. CASE c \in [api : {"start"}, size : Sizes, crc : Images]
  BY <1>1, ContentTypes, BulkConstantsAssumption
<1>2. CASE c \in [api : {"send"}, id : Ids, chunk : Chunks, sound : BOOLEAN]
  BY <1>2
<1>3. CASE c \in [api : {"end"}]
  BY <1>3
<1> QED
  BY <1>1, <1>2, <1>3 DEF Calls

\* A record in which the worker or the end notes an error.
LEMMA FailsNotes ==
  ASSUME bulk \in Transfers, NEW e \in Errors
  PROVE  /\ Fails(e) \in Transfers
         /\ Fails(e).error = e /\ Fails(e).state = "Failed"
         /\ Fails(e).bFileOpen = bulk.bFileOpen /\ Fails(e).bMsgQ = bulk.bMsgQ
         /\ Fails(e).bThread = bulk.bThread
  BY DEF Transfers, Fails, States

\* The records of a transfer and of a worker that do not exist yet have their types.
LEMMA FreshTransfer ==
  Fresh \in Transfers /\ Dead \in Workers /\ Waiting \in Workers
  BY ContentTypes DEF Fresh, Transfers, States, Errors, Dead, Waiting, Workers

\* The default record, an empty queue if there was one, no worker and no signal.
LEMMA DefaultIsFresh ==
  ASSUME ToDefault, queue \in Seq(Messages), Len(queue) <= Depth, worker \in Workers
  PROVE  /\ bulk' = Fresh /\ bulk' \in Transfers
         /\ queue' \in Seq(Messages) /\ Len(queue') <= Depth
         /\ worker' \in Workers
         /\ done' = 0
<1>1. queue' = <<>> \/ queue' = queue
  BY DEF ToDefault
<1>2. worker' = Dead \/ worker' = worker
  BY DEF ToDefault
<1>3. bulk' = Fresh /\ done' = 0
  BY DEF ToDefault
<1>4. <<>> \in Seq(Messages) /\ Len(<<>>) = 0 /\ Depth \in Nat
  BY EmptySeq, BulkConstantsAssumption
<1>5. queue' \in Seq(Messages) /\ Len(queue') <= Depth
  <2>1. CASE queue' = queue
    BY <2>1, Zenon
  <2>2. 0 <= Depth
    BY <1>4
  <2>3. CASE queue' = <<>>
    BY <1>4, <2>2, <2>3, Zenon
  <2> QED
    BY <1>1, <2>1, <2>3
<1>6. Fresh \in Transfers /\ Dead \in Workers
  BY FreshTransfer
<1> QED
  BY <1>2, <1>3, <1>5, <1>6, Zenon

\* What an end of the worker leaves.
LEMMA SignalTypes ==
  ASSUME NEW b \in Transfers, NEW cleanup \in BOOLEAN, wq \in {"idle", "lock", "delete"},
         Signal(b, cleanup)
  PROVE  /\ bulk' \in Transfers /\ worker' \in Workers /\ done' = 1
         /\ wq' \in {"idle", "lock", "delete"}
<1>1. bulk' \in Transfers
  BY DEF Signal, Transfers
<1> QED
  BY <1>1, FreshTransfer DEF Signal

-----------------------------------------------------------------------------
(* The file system. *)

\* A path that was deleted, or not, or created, or not.
LEMMA OutcomeTypes ==
  ASSUME file \in Contents \cup {Absent}, listed \in BOOLEAN,
         NEW o \in Deleted \cup Created
  PROVE  /\ o.file \in Contents \cup {Absent}
         /\ o.listed \in BOOLEAN /\ o.ok \in BOOLEAN
         /\ o \in Deleted => o.file \in {file, Absent}
<1>1. \A f, l, k : FsOutcome(f, l, k).file = f /\ FsOutcome(f, l, k).listed = l
                   /\ FsOutcome(f, l, k).ok = k
  BY DEF FsOutcome
<1>2. CASE o \in Deleted
  <2>1. \E f \in {file, Absent}, l \in BOOLEAN, k \in BOOLEAN : o = FsOutcome(f, l, k)
    BY <1>2 DEF Deleted
  <2> QED
    BY <1>1, <2>1
<1>3. CASE o \in Created /\ o \notin Deleted
  <2>1. \E f \in {file, Absent, <<>>}, l \in BOOLEAN, k \in BOOLEAN : o = FsOutcome(f,
        l, k)
    BY <1>3 DEF Created
  <2> QED
    BY <1>1, <1>3, <2>1, ContentTypes
<1> QED
  BY <1>2, <1>3

-----------------------------------------------------------------------------
(* Types. *)

\* Types are kept by every step.
LEMMA TypeStep ==
  ASSUME TypeOK, Control, [Next]_bulkVars
  PROVE  TypeOK'
<1>1. ASSUME NEW c \in Calls, Call(c) PROVE TypeOK'
  <2>1. uart' \in UartThreads
    BY <1>1 DEF Call, UartThreads, UartPcs, Results, Errors
  <2> QED
    BY <1>1, <2>1 DEF Call, TypeOK, fs, history
<1>2. CASE StartLock
  <2>1. uart' \in UartThreads
    BY <1>2, GotoMoves, ReturnMoves DEF StartLock, Lock, UartPcs, Results, TypeOK
  <2> QED
    BY <1>2, <2>1 DEF StartLock, Lock, TypeOK, fs, history
<1>3. CASE StartBusy
  <2>1. uart' \in UartThreads
    BY <1>3, ReturnMoves DEF StartBusy, Results, Errors, TypeOK
  <2> QED
    BY <1>3, <2>1 DEF StartBusy, Unlock, TypeOK, fs, history
<1>4. CASE Start
  <2>1. uart' \in UartThreads
    BY <1>4, GotoMoves DEF Start, UartPcs, TypeOK
  <2>2. bulk' \in Transfers /\ queue' \in Seq(Messages) /\ Len(queue') <= Depth /\
        worker' \in Workers /\ done' = 0
    BY <1>4, DefaultIsFresh DEF Start, TypeOK
  <2>3. taken' \in Contents
    BY <1>4, ContentTypes DEF Start
  <2> QED
    BY <1>4, <2>1, <2>2, <2>3 DEF Start, TypeOK, fs, history
<1>5. CASE StartDelete
  <2>1. uart' \in UartThreads
    BY <1>5, GotoMoves, ReturnMoves DEF AtFs, StartDelete, UartPcs, Results, Errors, TypeOK
  <2>2. file' \in Contents \cup {Absent} /\ listed' \in BOOLEAN
    BY <1>5, OutcomeTypes DEF AtFs, StartDelete, Becomes, TypeOK
  <2> QED
    BY <1>5, <2>1, <2>2 DEF AtFs, StartDelete, Unlock, TypeOK, fs, history
<1>6. CASE StartCreate
  <2>1. uart' \in UartThreads
    BY <1>6, GotoMoves, ReturnMoves DEF AtFs, StartCreate, UartPcs, Results, Errors, TypeOK
  <2>2. file' \in Contents \cup {Absent} /\ listed' \in BOOLEAN
    BY <1>6, OutcomeTypes DEF AtFs, StartCreate, Becomes, TypeOK
  <2> QED
    BY <1>6, <2>1, <2>2 DEF AtFs, StartCreate, Unlock, TypeOK, fs, history
<1>7. CASE StartOpenFailed
  <2>1. uart' \in UartThreads
    BY <1>7, ReturnMoves DEF AtFs, StartOpenFailed, Results, Errors, TypeOK
  <2>2. file' \in Contents \cup {Absent} /\ listed' \in BOOLEAN
    BY <1>7, OutcomeTypes DEF AtFs, StartOpenFailed, Becomes, TypeOK
  <2> QED
    BY <1>7, <2>1, <2>2 DEF AtFs, StartOpenFailed, Unlock, TypeOK, fs, history
<1>8. CASE StartOpen
  <2>1. uart' \in UartThreads
    BY <1>8, ReturnMoves DEF AtFs, StartOpen, Results, Errors, TypeOK
  <2>2. uart.call.size \in Nat /\ uart.call.crc \in Contents
    BY <1>8, CallFields DEF AtFs, StartOpen, At, Preparing, Control, CallServed, TypeOK,
       UartThreads
  <2>3. bulk' \in Transfers
    BY <1>8, <2>2, ContentTypes DEF AtFs, StartOpen, Transfers, States, TypeOK
  <2>4. handle' \in Contents /\ worker' \in Workers
    BY <1>8, ContentTypes, FreshTransfer DEF AtFs, StartOpen
  <2>5. queue' \in Seq(Messages) /\ Len(queue') <= Depth
    BY <1>8, EmptySeq, BulkConstantsAssumption DEF AtFs, StartOpen
  <2> QED
    BY <1>8, <2>1, <2>2, <2>3, <2>4, <2>5 DEF AtFs, StartOpen, Unlock, TypeOK, fs, history
<1>9. CASE SendLock
  <2>1. uart' \in UartThreads
    BY <1>9, GotoMoves, ReturnMoves DEF SendLock, Lock, UartPcs, Results, TypeOK
  <2> QED
    BY <1>9, <2>1 DEF SendLock, Lock, TypeOK, fs, history
<1>10. CASE SendRefused
  <2>1. uart' \in UartThreads
    BY <1>10, ReturnMoves DEF SendRefused, Results, Errors, TypeOK
  <2> QED
    BY <1>10, <2>1 DEF SendRefused, Unlock, TypeOK, fs, history
<1>11. CASE SendChecked
  <2>1. uart' \in UartThreads
    BY <1>11, GotoMoves DEF SendChecked, UartPcs, TypeOK
  <2> QED
    BY <1>11, <2>1 DEF SendChecked, TypeOK, fs, history
<1>12. CASE SendPut
  <2>1. uart' \in UartThreads
    BY <1>12, GotoMoves DEF SendPut, UartPcs, TypeOK
  <2>2. uart.call.chunk \in Chunks
    BY <1>12, CallFields DEF SendPut, At, Control, CallServed, TypeOK, UartThreads
  <2>3. queue' \in Seq(Messages) /\ Len(queue') <= Depth
    BY <1>12, <2>2, QueueOps, NewMessages, BulkConstantsAssumption DEF SendPut, TypeOK
  <2>4. taken' \in Contents
    BY <1>12, <2>2, ContentTypes, ContentOps DEF SendPut, TypeOK
  <2> QED
    BY <1>12, <2>1, <2>2, <2>3, <2>4 DEF SendPut, TypeOK, fs, history
<1>13. CASE SendCount
  <2>1. uart' \in UartThreads
    BY <1>13, ReturnMoves DEF SendCount, Results, Errors, TypeOK
  <2>2. uart.call.chunk \in Chunks
    BY <1>13, CallFields DEF SendCount, At, Control, CallServed, TypeOK, UartThreads
  <2>3. Len(uart.call.chunk) \in Nat
    BY <2>2, ContentTypes, ContentOps
  <2>4. bulk.accepted + Len(uart.call.chunk) \in Nat /\ bulk.nextId + 1 \in Nat
    BY <1>13, <2>3 DEF Transfers, TypeOK
  <2>5. bulk' \in Transfers
    BY <1>13, <2>4 DEF SendCount, Transfers, TypeOK
  <2> QED
    BY <1>13, <2>1, <2>2, <2>3, <2>4, <2>5 DEF SendCount, Unlock, TypeOK, fs, history
<1>14. CASE SendFull
  <2>1. uart' \in UartThreads
    BY <1>14, ReturnMoves DEF SendFull, Results, Errors, TypeOK
  <2> QED
    BY <1>14, <2>1 DEF SendFull, Unlock, TypeOK, fs, history
<1>15. CASE EndLock
  <2>1. uart' \in UartThreads
    BY <1>15, GotoMoves, ReturnMoves DEF EndLock, Lock, UartPcs, Results, TypeOK
  <2> QED
    BY <1>15, <2>1 DEF EndLock, Lock, TypeOK, fs, history
<1>16. CASE EndRefused
  <2>1. uart' \in UartThreads
    BY <1>16, ReturnMoves DEF EndRefused, Results, Errors, TypeOK
  <2> QED
    BY <1>16, <2>1 DEF EndRefused, Unlock, TypeOK, fs, history
<1>17. CASE EndChecked
  <2>1. uart' \in UartThreads
    BY <1>17, GotoMoves DEF EndChecked, UartPcs, TypeOK
  <2> QED
    BY <1>17, <2>1 DEF EndChecked, TypeOK, fs, history
<1>18. CASE EndFinalize
  <2>1. uart' \in UartThreads
    BY <1>18, GotoMoves DEF EndFinalize, UartPcs, TypeOK
  <2>2. bulk' \in Transfers
    BY <1>18 DEF EndFinalize, Transfers, States, Errors, TypeOK
  <2> QED
    BY <1>18, <2>1, <2>2 DEF EndFinalize, TypeOK, fs, history
<1>19. CASE EndPut
  <2>1. uart' \in UartThreads
    BY <1>19, GotoMoves DEF EndPut, UartPcs, TypeOK
  <2>2. queue' \in Seq(Messages) /\ Len(queue') <= Depth
    BY <1>19, QueueOps, NewMessages, BulkConstantsAssumption DEF EndPut, TypeOK
  <2> QED
    BY <1>19, <2>1, <2>2 DEF EndPut, TypeOK, fs, history
<1>20. CASE EndPutTimeout
  <2>1. uart' \in UartThreads
    BY <1>20, GotoMoves DEF EndPutTimeout, UartPcs, TypeOK
  <2>2. bulk' \in Transfers
    BY <1>20 DEF EndPutTimeout, Transfers, States, Errors, TypeOK
  <2> QED
    BY <1>20, <2>1, <2>2 DEF EndPutTimeout, TypeOK, fs, history
<1>21. CASE EndWait
  <2>1. uart' \in UartThreads
    BY <1>21, GotoMoves DEF EndWait, UartPcs, TypeOK
  <2> QED
    BY <1>21, <2>1 DEF EndWait, TypeOK, fs, history
<1>22. CASE EndWaitTimeout
  <2>1. uart' \in UartThreads
    BY <1>22, GotoMoves DEF EndWaitTimeout, UartPcs, TypeOK
  <2>2. bulk' \in Transfers
    BY <1>22 DEF EndWaitTimeout, Transfers, States, Errors, TypeOK
  <2> QED
    BY <1>22, <2>1, <2>2 DEF EndWaitTimeout, TypeOK, fs, history
<1>23. CASE EndJudge
  <2>1. uart' \in UartThreads
    BY <1>23, GotoMoves DEF EndJudge, UartPcs, TypeOK
  <2>2. Judged(bulk) \in Errors
    BY <1>23 DEF Judged, Errors, Transfers, TypeOK
  <2>3. bulk' \in Transfers
    BY <1>23, <2>2 DEF EndJudge, Transfers, States, TypeOK
  <2> QED
    BY <1>23, <2>1, <2>2, <2>3 DEF EndJudge, TypeOK, fs, history
<1>24. CASE EndSync
  <2>1. uart' \in UartThreads
    BY <1>24, GotoMoves DEF AtFs, EndSync, UartPcs, TypeOK
  <2>2. handle \in Contents
    BY <1>24 DEF AtFs, EndSync, At, EndingOpen, Control, Phase, TypeOK
  <2>3. bulk' \in Transfers
    BY <1>24, FailsNotes DEF AtFs, EndSync, Errors, TypeOK
  <2>4. file' \in Contents \cup {Absent}
    BY <1>24, <2>2 DEF AtFs, EndSync, TypeOK
  <2> QED
    BY <1>24, <2>1, <2>2, <2>3, <2>4 DEF AtFs, EndSync, TypeOK, fs, history
<1>25. CASE EndClose
  <2>1. uart' \in UartThreads
    BY <1>25, GotoMoves DEF AtFs, EndClose, UartPcs, TypeOK
  <2>2. Fails("FileClose") \in Transfers
    BY <1>25, FailsNotes DEF Errors, TypeOK
  <2>3. \A b \in Transfers : [b EXCEPT !.bFileOpen = FALSE] \in Transfers
    BY <1>25 DEF Transfers
  <2>4. bulk' \in Transfers
    BY <1>25, <2>2, <2>3 DEF AtFs, EndClose, TypeOK
  <2>5. handle' \in Contents \cup {Closed}
    BY <1>25 DEF AtFs, EndClose
  <2> QED
    BY <1>25, <2>1, <2>2, <2>3, <2>4, <2>5 DEF AtFs, EndClose, TypeOK, fs, history
<1>26. CASE EndCatalog
  <2>1. uart' \in UartThreads
    BY <1>26, GotoMoves DEF AtFs, EndCatalog, UartPcs, TypeOK
  <2>2. bulk' \in Transfers
    BY <1>26, FailsNotes DEF AtFs, EndCatalog, Errors, TypeOK
  <2>3. listed' \in BOOLEAN
    BY <1>26 DEF AtFs, EndCatalog, Refreshed, TypeOK
  <2> QED
    BY <1>26, <2>1, <2>2, <2>3 DEF AtFs, EndCatalog, Refreshed, TypeOK, fs, history
<1>27. CASE EndFail
  <2>1. uart' \in UartThreads
    BY <1>27, GotoMoves DEF EndFail, UartPcs, TypeOK
  <2>2. bulk' \in Transfers
    BY <1>27 DEF EndFail, Transfers, States, Errors, TypeOK
  <2> QED
    BY <1>27, <2>1, <2>2 DEF EndFail, TypeOK, fs, history
<1>28. CASE EndAbort
  <2>1. uart' \in UartThreads
    BY <1>28, GotoMoves DEF EndAbort, UartPcs, TypeOK
  <2> QED
    BY <1>28, <2>1 DEF EndAbort, TypeOK, fs, history
<1>29. CASE EndKill
  <2>1. uart' \in UartThreads
    BY <1>29, GotoMoves DEF EndKill, UartPcs, TypeOK
  <2>2. bulk' \in Transfers
    BY <1>29 DEF EndKill, Transfers, States, Errors, TypeOK
  <2>3. handle' # handle => worker.pc = "write" /\ handle' = handle \o worker.chunk
    BY <1>29 DEF EndKill
  <2>4. worker.pc = "write" => handle \in Contents
    BY <1>29 DEF Control, WorkerBelongs, Dead, TypeOK
  <2>5. worker.chunk \in Contents
    BY <1>29 DEF TypeOK, Workers
  <2>6. handle' \in Contents \cup {Closed}
    BY <1>29, <2>3, <2>4, <2>5, ContentOps DEF TypeOK
  <2>7. worker' \in Workers
    BY <1>29, FreshTransfer DEF EndKill
  <2> QED
    BY <1>29, <2>1, <2>2, <2>3, <2>4, <2>5, <2>6, <2>7 DEF EndKill, TypeOK, fs, history
<1>30. CASE EndDrop
  <2>1. uart' \in UartThreads
    BY <1>30, GotoMoves DEF EndDrop, UartPcs, TypeOK
  <2>2. bulk' \in Transfers
    BY <1>30 DEF EndDrop, Transfers, States, Errors, TypeOK
  <2>3. bulk.bFileOpen => handle \in Contents
    BY <1>30 DEF Control, Flags, TypeOK
  <2>4. file' \in Contents \cup {Absent}
    BY <1>30, <2>3 DEF EndDrop, AfterClose, TypeOK
  <2>5. handle' \in Contents \cup {Closed}
    BY <1>30 DEF EndDrop, TypeOK
  <2> QED
    BY <1>30, <2>1, <2>2, <2>3, <2>4, <2>5 DEF EndDrop, TypeOK, fs, history
<1>31. CASE EndDelete
  <2>1. uart' \in UartThreads
    BY <1>31, GotoMoves DEF AtFs, EndDelete, UartPcs, TypeOK
  <2>2. bulk' \in Transfers
    BY <1>31 DEF AtFs, EndDelete, Transfers, States, Errors, TypeOK
  <2>3. file' \in Contents \cup {Absent} /\ listed' \in BOOLEAN
    BY <1>31, OutcomeTypes DEF AtFs, EndDelete, Becomes, TypeOK
  <2> QED
    BY <1>31, <2>1, <2>2, <2>3 DEF AtFs, EndDelete, TypeOK, fs, history
<1>32. CASE EndExit
  <2>1. (IF Succeeded THEN "ok" ELSE bulk.error) \in Results
    BY <1>32 DEF Results, TypeOK, Transfers
  <2>2. uart' \in UartThreads
    BY <1>32, <2>1, ReturnMoves DEF EndExit, TypeOK
  <2>3. bulk' \in Transfers /\ queue' \in Seq(Messages) /\ Len(queue') <= Depth /\
        worker' \in Workers /\ done' = 0
    BY <1>32, DefaultIsFresh DEF EndExit, TypeOK
  <2>4. vouched' \in Contents \cup {Absent}
    BY <1>32 DEF EndExit, TypeOK, Transfers
  <2> QED
    BY <1>32, <2>1, <2>2, <2>3, <2>4 DEF EndExit, Unlock, TypeOK, fs, history
<1>33. CASE Reply
  <2>1. uart' \in UartThreads
    BY <1>33, GotoMoves DEF Reply, UartPcs, TypeOK
  <2> QED
    BY <1>33, <2>1 DEF Reply, TypeOK, fs, history
<1>34. CASE WorkerTimeout
  <2>1. bulk' \in Transfers /\ worker' \in Workers /\ done' = 1 /\ wq' \in {"idle",
        "lock", "delete"}
    BY <1>34, SignalTypes, FailsNotes DEF WorkerTimeout, Errors, TypeOK
  <2> QED
    BY <1>34, <2>1 DEF WorkerTimeout, TypeOK, fs, history
<1>35. CASE WorkerEnd
  <2>1. bulk' \in Transfers /\ worker' \in Workers /\ done' = 1 /\ wq' \in {"idle",
        "lock", "delete"}
    BY <1>35, SignalTypes, FailsNotes DEF WorkerEnd, Errors, TypeOK
  <2>2. queue' \in Seq(Messages) /\ Len(queue') <= Depth
    BY <1>35, QueueOps, BulkConstantsAssumption DEF WorkerEnd, TypeOK
  <2> QED
    BY <1>35, <2>1, <2>2 DEF WorkerEnd, TypeOK, fs, history
<1>36. CASE WorkerTake
  <2>1. Head(queue) \in Messages
    BY <1>36, QueueOps DEF WorkerTake, TypeOK
  <2>2. queue' \in Seq(Messages) /\ Len(queue') <= Depth
    BY <1>36, QueueOps, BulkConstantsAssumption DEF WorkerTake, TypeOK
  <2>3. Head(queue).chunk \in Contents
    BY <2>1, MessageTypes
  <2>4. "QueueError" \in Errors
    BY <1>36 DEF Errors
  <2>5. Fails("QueueError") \in Transfers
    BY <1>36, <2>4, FailsNotes DEF TypeOK
  <2>6. Writing(Head(queue).chunk) \in Workers
    BY <1>36, <2>3 DEF Writing, Workers
  <2>7. bulk' \in Transfers /\ worker' \in Workers /\ done' \in {0, 1} /\
        wq' \in {"idle", "lock", "delete"}
    BY <1>36, <2>5, <2>6, SignalTypes DEF WorkerTake, TypeOK
  <2> QED
    BY <1>36, <2>1, <2>2, <2>3, <2>4, <2>5, <2>6, <2>7 DEF WorkerTake, TypeOK, fs,
       history
<1>37. CASE WorkerWrite
  <2>1. handle \in Contents /\ worker.chunk \in Contents
    BY <1>37 DEF WorkerWrite, TypeOK, Workers
  <2>2. handle \o worker.chunk \in Contents
    BY <2>1, ContentOps
  <2>3. bulk.running \o worker.chunk \in Contents /\ Len(worker.chunk) \in Nat
    BY <1>37, <2>1, ContentOps DEF TypeOK, Transfers
  <2>4. bulk.received + Len(worker.chunk) \in Nat
    BY <1>37, <2>3 DEF TypeOK, Transfers
  <2>5. bulk' \in Transfers
    BY <1>37, <2>3, <2>4 DEF WorkerWrite, TypeOK, Transfers
  <2>6. handle' \in Contents /\ worker' \in Workers
    BY <1>37, <2>2, FreshTransfer DEF WorkerWrite
  <2> QED
    BY <1>37, <2>1, <2>2, <2>3, <2>4, <2>5, <2>6 DEF WorkerWrite, TypeOK, fs, history
<1>38. CASE WorkerWriteFails
  <2>1. bulk' \in Transfers /\ worker' \in Workers /\ done' = 1 /\ wq' \in {"idle",
        "lock", "delete"}
    BY <1>38, SignalTypes, FailsNotes DEF WorkerWriteFails, Errors, TypeOK
  <2>2. handle # Closed => handle \o worker.chunk \in Contents
    BY <1>38, ContentOps DEF TypeOK, Workers
  <2>3. handle' \in Contents \cup {Closed}
    BY <1>38, <2>2 DEF WorkerWriteFails, TypeOK
  <2> QED
    BY <1>38, <2>1, <2>2, <2>3 DEF WorkerWriteFails, TypeOK, fs, history
<1>39. CASE CleanupLock
  BY <1>39 DEF CleanupLock, TypeOK, fs, history
<1>40. CASE CleanupOver
  BY <1>40 DEF CleanupOver, TypeOK, fs, history
<1>41. CASE CleanupClose
  <2>1. bulk' \in Transfers
    BY <1>41 DEF CleanupClose, Transfers, States, Errors, TypeOK
  <2>2. bulk.bFileOpen => handle \in Contents
    BY <1>41 DEF Control, Flags, TypeOK
  <2>3. file' \in Contents \cup {Absent}
    BY <1>41, <2>2 DEF CleanupClose, AfterClose, TypeOK
  <2>4. handle' \in Contents \cup {Closed}
    BY <1>41 DEF CleanupClose, TypeOK
  <2> QED
    BY <1>41, <2>1, <2>2, <2>3, <2>4 DEF CleanupClose, TypeOK, fs, history
<1>42. CASE CleanupDelete
  <2>1. bulk' \in Transfers /\ queue' \in Seq(Messages) /\ Len(queue') <= Depth /\
        worker' \in Workers /\ done' = 0
    BY <1>42, DefaultIsFresh DEF CleanupDelete, TypeOK
  <2>2. file' \in Contents \cup {Absent} /\ listed' \in BOOLEAN
    BY <1>42, OutcomeTypes DEF CleanupDelete, Becomes, TypeOK
  <2> QED
    BY <1>42, <2>1, <2>2 DEF CleanupDelete, TypeOK, fs, history
<1>43. CASE PowerCut
  <2>1. uart' \in UartThreads
    BY <1>43, GotoMoves DEF PowerCut, UartPcs, TypeOK
  <2>2. bulk' \in Transfers /\ worker' \in Workers /\ taken' \in Contents
    BY <1>43, FreshTransfer, ContentTypes DEF PowerCut
  <2>3. queue' \in Seq(Messages) /\ Len(queue') <= Depth
    BY <1>43, EmptySeq, BulkConstantsAssumption DEF PowerCut
  <2> QED
    BY <1>43, <2>1, <2>2, <2>3 DEF PowerCut, Refreshed, TypeOK, fs, history
<1>44. CASE UNCHANGED bulkVars
  BY <1>44 DEF TypeOK, bulkVars
<1> QED
  BY <1>1, <1>2, <1>3, <1>4, <1>5, <1>6, <1>7, <1>8, <1>9, <1>10, <1>11, <1>12, <1>13,
     <1>14, <1>15, <1>16, <1>17, <1>18, <1>19, <1>20, <1>21, <1>22, <1>23, <1>24,
     <1>25, <1>26, <1>27, <1>28, <1>29, <1>30, <1>31, <1>32, <1>33, <1>34, <1>35,
     <1>36, <1>37, <1>38, <1>39, <1>40, <1>41, <1>42, <1>43, <1>44 DEF Next, Internal,
     Running, Worker, Workqueue

-----------------------------------------------------------------------------
(* Threads, mutex, flags. *)

\* Whatever calls it, the default leaves no worker and no message.
LEMMA DefaultIsClean ==
  ASSUME Control, ToDefault
  PROVE  bulk' = Fresh /\ worker' = Dead /\ queue' = <<>> /\ done' = 0
  BY DEF Control, Flags, LeftClean, WorkerBelongs, ToDefault

\* A worker that gives up.
LEMMA SignalNotes ==
  ASSUME bulk \in Transfers, NEW e \in Errors, e # "None", Signal(Fails(e), TRUE)
  PROVE  /\ worker' = Dead /\ done' = 1
         /\ bulk'.state = "Failed" /\ bulk'.error # "None"
         /\ wq' = (IF wq = "idle" THEN "lock" ELSE wq)
         /\ bulk'.bMsgQ = bulk.bMsgQ /\ bulk'.bFileOpen = bulk.bFileOpen
  BY DEF Signal, Fails, Transfers

\* Which thread is where, and what the record says of it, and where the data is, is
\* kept by every step.
LEMMA SafeStep ==
  ASSUME IInv, [Next]_bulkVars
  PROVE  Safe'
<1> USE BulkConstantsAssumption DEF IInv, Safe, TypeOK, Control, At, Unlock, fs, history,
  Critical, Preparing, Ending, EndingOpen, Alone, Failing,
  MutexHeld, CallServed, Phase, Flags, LeftClean, WorkerBelongs
<1>1. ASSUME NEW c \in Calls, Call(c) PROVE Safe'
  <2>1. uart'.pc \in {"return", "startLock", "sendLock", "endLock"}
    BY <1>1 DEF Call
  <2>2. (uart'.pc = "startLock" => uart'.call.api = "start") /\
        (uart'.pc = "sendLock" => uart'.call.api = "send")
    BY <1>1, CallFields DEF Call
  <2>3. Control'
    BY <1>1, <2>1, <2>2 DEF Call
  <2>4. (DataPlaced /\ AcknowledgedIsStored)'
    BY <1>1, <2>1, <2>2 DEF Call, DataPlaced, AcknowledgedIsStored, Succeeded
  <2> QED
    BY <2>3, <2>4
<1>2. CASE StartLock
  <2>1. uart'.pc \in {"start", "return"} /\ (uart'.pc = "return" \/
        uart'.call = uart.call)
    BY <1>2, GotoMoves, ReturnMoves DEF StartLock, Lock, UartPcs, Results, Errors
  <2>2. owner' = "uart" \/ (owner = "wq" /\ owner' = owner /\ uart'.pc = "return")
    BY <1>2, ReturnMoves DEF StartLock, Lock, Results
  <2>3. owner' = "uart" => owner = None /\ uart'.pc = "start"
    BY <1>2, GotoMoves, BulkConstantsAssumption DEF StartLock, Lock, UartPcs
  <2>4. Control'
    BY <1>2, <2>1, <2>2, <2>3 DEF StartLock, Lock
  <2>5. (DataPlaced /\ AcknowledgedIsStored)'
    BY <1>2, <2>1, <2>2, <2>3 DEF StartLock, Lock, DataPlaced, AcknowledgedIsStored,
       Succeeded
  <2> QED
    BY <2>4, <2>5
<1>3. CASE StartBusy
  <2>1. uart'.pc = "return"
    BY <1>3, ReturnMoves DEF StartBusy, Results, Errors
  <2>2. Control'
    BY <1>3, <2>1 DEF StartBusy
  <2>3. (DataPlaced /\ AcknowledgedIsStored)'
    BY <1>3, <2>1 DEF StartBusy, DataPlaced, AcknowledgedIsStored, Succeeded
  <2> QED
    BY <2>2, <2>3
<1>4. CASE Start
  <2>1. uart'.pc = "startDelete" /\ uart'.call = uart.call
    BY <1>4, GotoMoves DEF Start, UartPcs
  <2>2. bulk' = Fresh /\ worker' = Dead /\ queue' = <<>> /\ done' = 0
    BY <1>4, DefaultIsClean DEF Start, CanStart
  <2>3. Control'
    BY <1>4, <2>1, <2>2 DEF Start, CanStart, Fresh
  <2>4. (DataPlaced /\ AcknowledgedIsStored)'
    BY <1>4, <2>1, <2>2 DEF Start, CanStart, Fresh, DataPlaced, AcknowledgedIsStored,
       Succeeded
  <2> QED
    BY <2>3, <2>4
<1>5. CASE StartDelete
  <2>1. \/ owner' = owner /\ Goto("startCreate")
        \/ Unlock /\ Return("refused")
    BY <1>5 DEF AtFs, StartDelete
  <2>2. Goto("startCreate") => uart'.pc = "startCreate" /\ uart'.call = uart.call
    BY <1>5, GotoMoves DEF UartPcs
  <2>3. Return("refused") => uart'.pc = "return"
    BY <1>5, ReturnMoves DEF Results
  <2>4. \/ file' = file /\ vouched' \in {vouched, Absent}
        \/ file' = Absent /\ vouched' = Absent
    BY <1>5, OutcomeTypes DEF AtFs, StartDelete, Becomes
  <2>5. Control'
    BY <1>5, <2>1, <2>2, <2>3 DEF AtFs, StartDelete
  <2>6. (DataPlaced /\ AcknowledgedIsStored)'
    BY <1>5, <2>1, <2>2, <2>3, <2>4 DEF AtFs, StartDelete, DataPlaced, AcknowledgedIsStored,
       Succeeded
  <2> QED
    BY <2>5, <2>6
<1>6. CASE StartCreate
  <2>1. \/ owner' = owner /\ Goto("startOpen")
        \/ Unlock /\ Return("refused")
    BY <1>6 DEF AtFs, StartCreate
  <2>2. Goto("startOpen") => uart'.pc = "startOpen" /\ uart'.call = uart.call
    BY <1>6, GotoMoves DEF UartPcs
  <2>3. Return("refused") => uart'.pc = "return"
    BY <1>6, ReturnMoves DEF Results
  <2>4. file # Absent => \A o \in Created : ~o.ok /\ o.file = file
    BY <1>6 DEF Created, FsOutcome
  <2>5. \/ file' = file /\ owner' # owner /\ uart'.pc = "return"
        \/ file = Absent
    BY <1>6, <2>4, GotoMoves, ReturnMoves, BulkConstantsAssumption DEF AtFs, StartCreate,
       Becomes, UartPcs, Results
  <2>6. Control'
    BY <1>6, <2>1, <2>2, <2>3 DEF AtFs, StartCreate
  <2>7. (DataPlaced /\ AcknowledgedIsStored)'
    BY <1>6, <2>1, <2>2, <2>3, <2>4, <2>5 DEF AtFs, StartCreate, DataPlaced,
       AcknowledgedIsStored, Succeeded
  <2> QED
    BY <2>6, <2>7
<1>7. CASE StartOpenFailed
  <2>1. uart'.pc = "return"
    BY <1>7, ReturnMoves DEF AtFs, StartOpenFailed, Results, Errors
  <2>2. Control'
    BY <1>7, <2>1 DEF AtFs, StartOpenFailed
  <2>3. (DataPlaced /\ AcknowledgedIsStored)'
    BY <1>7, <2>1 DEF AtFs, StartOpenFailed, DataPlaced, AcknowledgedIsStored, Succeeded
  <2> QED
    BY <2>2, <2>3
<1>8. CASE StartOpen
  <2>1. uart'.pc = "return"
    BY <1>8, ReturnMoves DEF AtFs, StartOpen, Results, Errors
  <2>2. bulk'.state = "Receiving" /\ bulk'.error = bulk.error /\ bulk'.bFileOpen /\
        bulk'.bMsgQ /\ bulk'.bThread
    BY <1>8 DEF AtFs, StartOpen, Transfers
  <2>3. handle' # Closed
    BY <1>8, ContentTypes DEF AtFs, StartOpen
  <2>4. Control'
    BY <1>8, <2>1, <2>2, <2>3 DEF AtFs, StartOpen, Dead, Waiting, Writing
  <2>5. (DataPlaced /\ AcknowledgedIsStored)'
    BY <1>8, <2>1, <2>2, <2>3 DEF AtFs, StartOpen, Dead, Waiting, Writing, DataPlaced,
       AcknowledgedIsStored, Succeeded
  <2> QED
    BY <2>4, <2>5
<1>9. CASE SendLock
  <2>1. uart'.pc \in {"send", "return"} /\ (uart'.pc = "return" \/
        uart'.call = uart.call)
    BY <1>9, GotoMoves, ReturnMoves DEF SendLock, Lock, UartPcs, Results, Errors
  <2>2. owner' = "uart" \/ (owner = "wq" /\ owner' = owner /\ uart'.pc = "return")
    BY <1>9, ReturnMoves DEF SendLock, Lock, Results, Errors
  <2>3. owner' = "uart" => owner = None /\ uart'.pc = "send"
    BY <1>9, GotoMoves, BulkConstantsAssumption DEF SendLock, Lock, UartPcs
  <2>4. Control'
    BY <1>9, <2>1, <2>2, <2>3 DEF SendLock, Lock
  <2>5. (DataPlaced /\ AcknowledgedIsStored)'
    BY <1>9, <2>1, <2>2, <2>3 DEF SendLock, Lock, DataPlaced, AcknowledgedIsStored,
       Succeeded
  <2> QED
    BY <2>4, <2>5
<1>10. CASE SendRefused
  <2>1. uart'.pc = "return"
    BY <1>10, ReturnMoves DEF SendRefused, Results, Errors
  <2>2. Control'
    BY <1>10, <2>1 DEF SendRefused
  <2>3. (DataPlaced /\ AcknowledgedIsStored)'
    BY <1>10, <2>1 DEF SendRefused, DataPlaced, AcknowledgedIsStored, Succeeded
  <2> QED
    BY <2>2, <2>3
<1>11. CASE SendChecked
  <2>1. uart'.pc = "sendPut" /\ uart'.call = uart.call
    BY <1>11, GotoMoves DEF SendChecked, UartPcs
  <2>2. Control'
    BY <1>11, <2>1 DEF SendChecked, Acceptable
  <2>3. (DataPlaced /\ AcknowledgedIsStored)'
    BY <1>11, <2>1 DEF SendChecked, Acceptable, DataPlaced, AcknowledgedIsStored,
       Succeeded
  <2> QED
    BY <2>2, <2>3
<1>12. CASE SendPut
  <2>1. uart'.pc = "sendCount" /\ uart'.call = uart.call
    BY <1>12, GotoMoves DEF SendPut, UartPcs
  <2>2. Control'
    BY <1>12, <2>1 DEF SendPut
  <2>3. (DataPlaced /\ AcknowledgedIsStored)'
    BY <1>12, <2>1 DEF SendPut, DataPlaced, AcknowledgedIsStored, Succeeded
  <2> QED
    BY <2>2, <2>3
<1>13. CASE SendCount
  <2>1. uart'.pc = "return"
    BY <1>13, ReturnMoves DEF SendCount, Results, Errors
  <2>2. bulk'.state = bulk.state /\ bulk'.error = bulk.error /\
        bulk'.bFileOpen = bulk.bFileOpen /\ bulk'.bMsgQ = bulk.bMsgQ /\
        bulk'.bThread = bulk.bThread
    BY <1>13 DEF SendCount, Transfers
  <2>3. Control'
    BY <1>13, <2>1, <2>2 DEF SendCount
  <2>4. (DataPlaced /\ AcknowledgedIsStored)'
    BY <1>13, <2>1, <2>2 DEF SendCount, DataPlaced, AcknowledgedIsStored, Succeeded
  <2> QED
    BY <2>3, <2>4
<1>14. CASE SendFull
  <2>1. uart'.pc = "return"
    BY <1>14, ReturnMoves DEF SendFull, Results, Errors
  <2>2. Control'
    BY <1>14, <2>1 DEF SendFull
  <2>3. (DataPlaced /\ AcknowledgedIsStored)'
    BY <1>14, <2>1 DEF SendFull, DataPlaced, AcknowledgedIsStored, Succeeded
  <2> QED
    BY <2>2, <2>3
<1>15. CASE EndLock
  <2>1. uart'.pc \in {"endCheck", "return"} /\ (uart'.pc = "return" \/
        uart'.call = uart.call)
    BY <1>15, GotoMoves, ReturnMoves DEF EndLock, Lock, UartPcs, Results, Errors
  <2>2. owner' = "uart" \/ (owner = "wq" /\ owner' = owner /\ uart'.pc = "return")
    BY <1>15, ReturnMoves DEF EndLock, Lock, Results, Errors
  <2>3. owner' = "uart" => owner = None /\ uart'.pc = "endCheck"
    BY <1>15, GotoMoves, BulkConstantsAssumption DEF EndLock, Lock, UartPcs
  <2>4. Control'
    BY <1>15, <2>1, <2>2, <2>3 DEF EndLock, Lock
  <2>5. (DataPlaced /\ AcknowledgedIsStored)'
    BY <1>15, <2>1, <2>2, <2>3 DEF EndLock, Lock, DataPlaced, AcknowledgedIsStored,
       Succeeded
  <2> QED
    BY <2>4, <2>5
<1>16. CASE EndRefused
  <2>1. uart'.pc = "return"
    BY <1>16, ReturnMoves DEF EndRefused, Results, Errors
  <2>2. Control'
    BY <1>16, <2>1 DEF EndRefused
  <2>3. (DataPlaced /\ AcknowledgedIsStored)'
    BY <1>16, <2>1 DEF EndRefused, DataPlaced, AcknowledgedIsStored, Succeeded
  <2> QED
    BY <2>2, <2>3
<1>17. CASE EndChecked
  <2>1. uart'.pc = "endFinalize" /\ uart'.call = uart.call
    BY <1>17, GotoMoves DEF EndChecked, UartPcs
  <2>2. Control'
    BY <1>17, <2>1 DEF EndChecked
  <2>3. (DataPlaced /\ AcknowledgedIsStored)'
    BY <1>17, <2>1 DEF EndChecked, DataPlaced, AcknowledgedIsStored, Succeeded
  <2> QED
    BY <2>2, <2>3
<1>18. CASE EndFinalize
  <2>1. uart'.pc = "endPut" /\ uart'.call = uart.call
    BY <1>18, GotoMoves DEF EndFinalize, UartPcs
  <2>2. bulk'.state = "Finalizing" /\ bulk'.error = bulk.error /\
        bulk'.bFileOpen = bulk.bFileOpen /\ bulk'.bMsgQ = bulk.bMsgQ /\
        bulk'.bThread = bulk.bThread
    BY <1>18 DEF EndFinalize, Transfers
  <2>3. Control'
    BY <1>18, <2>1, <2>2 DEF EndFinalize
  <2>4. (DataPlaced /\ AcknowledgedIsStored)'
    BY <1>18, <2>1, <2>2 DEF EndFinalize, DataPlaced, AcknowledgedIsStored, Succeeded
  <2> QED
    BY <2>3, <2>4
<1>19. CASE EndPut
  <2>1. uart'.pc = "endWait" /\ uart'.call = uart.call
    BY <1>19, GotoMoves DEF EndPut, UartPcs
  <2>2. Control'
    BY <1>19, <2>1 DEF EndPut
  <2>3. (DataPlaced /\ AcknowledgedIsStored)'
    BY <1>19, <2>1 DEF EndPut, DataPlaced, AcknowledgedIsStored, Succeeded
  <2> QED
    BY <2>2, <2>3
<1>20. CASE EndPutTimeout
  <2>1. uart'.pc = "endFail" /\ uart'.call = uart.call
    BY <1>20, GotoMoves DEF EndPutTimeout, UartPcs
  <2>2. bulk'.state = bulk.state /\ bulk'.error = "QueueError" /\
        bulk'.bFileOpen = bulk.bFileOpen /\ bulk'.bMsgQ = bulk.bMsgQ /\
        bulk'.bThread = bulk.bThread
    BY <1>20 DEF EndPutTimeout, Transfers
  <2>3. Control'
    BY <1>20, <2>1, <2>2 DEF EndPutTimeout
  <2>4. (DataPlaced /\ AcknowledgedIsStored)'
    BY <1>20, <2>1, <2>2 DEF EndPutTimeout, DataPlaced, AcknowledgedIsStored, Succeeded
  <2> QED
    BY <2>3, <2>4
<1>21. CASE EndWait
  <2>1. uart'.pc = "endJudge" /\ uart'.call = uart.call
    BY <1>21, GotoMoves DEF EndWait, UartPcs
  <2>2. Control'
    BY <1>21, <2>1 DEF EndWait
  <2>3. (DataPlaced /\ AcknowledgedIsStored)'
    BY <1>21, <2>1 DEF EndWait, DataPlaced, AcknowledgedIsStored, Succeeded
  <2> QED
    BY <2>2, <2>3
<1>22. CASE EndWaitTimeout
  <2>1. uart'.pc = "endFail" /\ uart'.call = uart.call
    BY <1>22, GotoMoves DEF EndWaitTimeout, UartPcs
  <2>2. bulk'.state = bulk.state /\ bulk'.error = "TimeOut" /\
        bulk'.bFileOpen = bulk.bFileOpen /\ bulk'.bMsgQ = bulk.bMsgQ /\
        bulk'.bThread = bulk.bThread
    BY <1>22 DEF EndWaitTimeout, Transfers
  <2>3. Control'
    BY <1>22, <2>1, <2>2 DEF EndWaitTimeout
  <2>4. (DataPlaced /\ AcknowledgedIsStored)'
    BY <1>22, <2>1, <2>2 DEF EndWaitTimeout, DataPlaced, AcknowledgedIsStored, Succeeded
  <2> QED
    BY <2>3, <2>4
<1>23. CASE EndJudge
  <2>1. uart'.pc \in {"endSync", "endAbort"} /\ uart'.call = uart.call
    BY <1>23, GotoMoves DEF EndJudge, UartPcs
  <2>2. bulk'.state \in {"Success", "Failed"} /\ bulk'.error = Judged(bulk) /\
        bulk'.bFileOpen = bulk.bFileOpen /\ bulk'.bMsgQ = bulk.bMsgQ /\
        bulk'.bThread = bulk.bThread
    BY <1>23 DEF EndJudge, Transfers
  <2>3. uart'.pc = "endAbort" => Judged(bulk) # "None"
    BY <1>23, GotoMoves DEF EndJudge, UartPcs
  <2>4. bulk'.running = bulk.running /\ bulk'.crc = bulk.crc
    BY <1>23 DEF EndJudge, Transfers
  <2>5. uart'.pc = "endSync" => Judged(bulk) = "None"
    BY <1>23, GotoMoves DEF EndJudge, UartPcs
  <2>6. Judged(bulk) = "None" => bulk.error = "None" /\ bulk.running = bulk.crc
    BY <1>23 DEF Judged
  <2>7. Control'
    BY <1>23, <2>1, <2>2, <2>3 DEF EndJudge
  <2>8. (DataPlaced /\ AcknowledgedIsStored)'
    BY <1>23, <2>1, <2>2, <2>3, <2>4, <2>5, <2>6 DEF EndJudge, DataPlaced,
       AcknowledgedIsStored, Succeeded
  <2> QED
    BY <2>7, <2>8
<1>24. CASE EndSync
  <2>1. uart'.pc \in {"endClose", "endAbort"} /\ uart'.call = uart.call
    BY <1>24, GotoMoves DEF AtFs, EndSync, UartPcs
  <2>2. (bulk'.state # "Idle" /\ bulk'.state # "Receiving") \/ bulk' = bulk
    BY <1>24, FailsNotes DEF AtFs, EndSync, Errors
  <2>3. bulk'.bFileOpen = bulk.bFileOpen /\ bulk'.bMsgQ = bulk.bMsgQ /\
        bulk'.bThread = bulk.bThread
    BY <1>24, FailsNotes DEF AtFs, EndSync, Errors
  <2>4. uart'.pc = "endAbort" => bulk'.error # "None"
    BY <1>24, FailsNotes, GotoMoves DEF AtFs, EndSync, Errors, UartPcs
  <2>5. uart'.pc = "endClose" => file' = handle /\ bulk' = bulk
    BY <1>24, GotoMoves DEF AtFs, EndSync, UartPcs
  <2>6. bulk' = bulk \/ bulk'.error # "None"
    BY <1>24, FailsNotes DEF AtFs, EndSync, Errors
  <2>7. Control'
    BY <1>24, <2>1, <2>2, <2>3, <2>4 DEF AtFs, EndSync
  <2>8. (DataPlaced /\ AcknowledgedIsStored)'
    BY <1>24, <2>1, <2>2, <2>3, <2>4, <2>5, <2>6 DEF AtFs, EndSync, DataPlaced,
       AcknowledgedIsStored, Succeeded
  <2> QED
    BY <2>7, <2>8
<1>25. CASE EndClose
  <2>1. uart'.pc \in {"endCatalog", "endExit"} /\ uart'.call = uart.call
    BY <1>25, GotoMoves DEF AtFs, EndClose, UartPcs
  <2>2. bulk'.state \in {bulk.state, "Failed"} /\ ~bulk'.bFileOpen /\
        bulk'.bMsgQ = bulk.bMsgQ /\ bulk'.bThread = bulk.bThread
    BY <1>25 DEF AtFs, EndClose, Fails, Transfers
  <2>3. bulk'.running = bulk.running /\ bulk'.crc = bulk.crc
    BY <1>25 DEF AtFs, EndClose, Fails, Transfers
  <2>4. uart'.pc = "endExit" => bulk'.error # "None"
    BY <1>25, GotoMoves DEF AtFs, EndClose, Fails, Transfers, UartPcs
  <2>5. Control'
    BY <1>25, <2>1, <2>2 DEF AtFs, EndClose
  <2>6. (DataPlaced /\ AcknowledgedIsStored)'
    BY <1>25, <2>1, <2>2, <2>3, <2>4 DEF AtFs, EndClose, DataPlaced, AcknowledgedIsStored,
       Succeeded
  <2> QED
    BY <2>5, <2>6
<1>26. CASE EndCatalog
  <2>1. uart'.pc = "endExit" /\ uart'.call = uart.call
    BY <1>26, GotoMoves DEF AtFs, EndCatalog, UartPcs
  <2>2. bulk'.state \in {bulk.state, "Failed"} /\ bulk'.bFileOpen = bulk.bFileOpen /\
        bulk'.bMsgQ = bulk.bMsgQ /\ bulk'.bThread = bulk.bThread
    BY <1>26 DEF AtFs, EndCatalog, Fails, Transfers
  <2>3. bulk' = bulk \/ (bulk'.error # "None" /\ bulk'.crc = bulk.crc)
    BY <1>26 DEF AtFs, EndCatalog, Fails, Transfers
  <2>4. Control'
    BY <1>26, <2>1, <2>2 DEF AtFs, EndCatalog
  <2>5. (DataPlaced /\ AcknowledgedIsStored)'
    BY <1>26, <2>1, <2>2, <2>3 DEF AtFs, EndCatalog, DataPlaced, AcknowledgedIsStored,
       Succeeded
  <2> QED
    BY <2>4, <2>5
<1>27. CASE EndFail
  <2>1. uart'.pc = "endAbort" /\ uart'.call = uart.call
    BY <1>27, GotoMoves DEF EndFail, UartPcs
  <2>2. bulk'.state = "Failed" /\ bulk'.error = bulk.error /\
        bulk'.bFileOpen = bulk.bFileOpen /\ bulk'.bMsgQ = bulk.bMsgQ /\
        bulk'.bThread = bulk.bThread
    BY <1>27 DEF EndFail, Transfers
  <2>3. Control'
    BY <1>27, <2>1, <2>2 DEF EndFail
  <2>4. (DataPlaced /\ AcknowledgedIsStored)'
    BY <1>27, <2>1, <2>2 DEF EndFail, DataPlaced, AcknowledgedIsStored, Succeeded
  <2> QED
    BY <2>3, <2>4
<1>28. CASE EndAbort
  <2>1. uart'.pc \in {"endKill", "endDrop"} /\ uart'.call = uart.call
    BY <1>28, GotoMoves DEF EndAbort, UartPcs
  <2>2. uart'.pc = "endDrop" => ~bulk.bThread
    BY <1>28, GotoMoves DEF EndAbort, UartPcs
  <2>3. Control'
    BY <1>28, <2>1, <2>2 DEF EndAbort
  <2>4. (DataPlaced /\ AcknowledgedIsStored)'
    BY <1>28, <2>1, <2>2 DEF EndAbort, DataPlaced, AcknowledgedIsStored, Succeeded
  <2> QED
    BY <2>3, <2>4
<1>29. CASE EndKill
  <2>1. uart'.pc = "endDrop" /\ uart'.call = uart.call
    BY <1>29, GotoMoves DEF EndKill, UartPcs
  <2>2. bulk'.state = bulk.state /\ bulk'.error = bulk.error /\
        bulk'.bFileOpen = bulk.bFileOpen /\ bulk'.bMsgQ = bulk.bMsgQ /\
        bulk'.bThread = FALSE
    BY <1>29 DEF EndKill, Transfers
  <2>3. worker.pc = "write" => handle \in Contents /\ worker.chunk \in Contents
    BY <1>29 DEF Control, WorkerBelongs, Dead, TypeOK, Workers
  <2>4. worker.pc = "write" => handle \o worker.chunk \in Contents
    BY <1>29, <2>3, ContentOps DEF TypeOK
  <2>5. handle # Closed => handle' # Closed
    BY <1>29, <2>4, ContentTypes DEF EndKill
  <2>6. Control'
    BY <1>29, <2>1, <2>2, <2>3, <2>4, <2>5 DEF EndKill
  <2>7. (DataPlaced /\ AcknowledgedIsStored)'
    BY <1>29, <2>1, <2>2, <2>3, <2>4, <2>5 DEF EndKill, DataPlaced,
       AcknowledgedIsStored, Succeeded
  <2> QED
    BY <2>6, <2>7
<1>30. CASE EndDrop
  <2>1. uart'.pc = "endDelete" /\ uart'.call = uart.call
    BY <1>30, GotoMoves DEF EndDrop, UartPcs
  <2>2. bulk'.state = bulk.state /\ bulk'.error = bulk.error /\
        bulk'.bFileOpen = FALSE /\ bulk'.bMsgQ = bulk.bMsgQ /\
        bulk'.bThread = bulk.bThread
    BY <1>30 DEF EndDrop, Transfers
  <2>3. Control'
    BY <1>30, <2>1, <2>2 DEF EndDrop
  <2>4. (DataPlaced /\ AcknowledgedIsStored)'
    BY <1>30, <2>1, <2>2 DEF EndDrop, DataPlaced, AcknowledgedIsStored, Succeeded
  <2> QED
    BY <2>3, <2>4
<1>31. CASE EndDelete
  <2>1. uart'.pc = "endExit" /\ uart'.call = uart.call
    BY <1>31, GotoMoves DEF AtFs, EndDelete, UartPcs
  <2>2. bulk'.state = bulk.state /\ bulk'.bFileOpen = bulk.bFileOpen /\
        bulk'.bMsgQ = bulk.bMsgQ /\ bulk'.bThread = bulk.bThread
    BY <1>31 DEF AtFs, EndDelete, Transfers
  <2>3. Control'
    BY <1>31, <2>1, <2>2 DEF AtFs, EndDelete
  <2>4. (DataPlaced /\ AcknowledgedIsStored)'
    BY <1>31, <2>1, <2>2 DEF AtFs, EndDelete, DataPlaced, AcknowledgedIsStored, Succeeded
  <2> QED
    BY <2>3, <2>4
<1>32. CASE EndExit
  <2>1. uart'.pc = "return"
    BY <1>32, ReturnMoves DEF EndExit, Results, Errors, Transfers
  <2>2. bulk' = Fresh /\ worker' = Dead /\ queue' = <<>> /\ done' = 0
    BY <1>32, DefaultIsClean DEF EndExit
  <2>3. Control'
    BY <1>32, <2>1, <2>2 DEF EndExit, Fresh
  <2>4. (DataPlaced /\ AcknowledgedIsStored)'
    BY <1>32, <2>1, <2>2 DEF EndExit, Fresh, DataPlaced, AcknowledgedIsStored, Succeeded
  <2> QED
    BY <2>3, <2>4
<1>33. CASE Reply
  <2>1. uart'.pc = "idle" /\ uart'.call = uart.call
    BY <1>33, GotoMoves DEF Reply, UartPcs
  <2>2. Control'
    BY <1>33, <2>1 DEF Reply
  <2>3. (DataPlaced /\ AcknowledgedIsStored)'
    BY <1>33, <2>1 DEF Reply, DataPlaced, AcknowledgedIsStored, Succeeded
  <2> QED
    BY <2>2, <2>3
<1>34. CASE WorkerTimeout
  <2>1. worker # Dead
    BY <1>34 DEF WorkerTimeout, Dead
  <2>2. worker' = Dead /\ done' = 1 /\ bulk'.state = "Failed" /\
        bulk'.error # "None" /\ wq' = (IF wq = "idle" THEN "lock" ELSE wq) /\
        bulk'.bMsgQ = bulk.bMsgQ /\ bulk'.bFileOpen = bulk.bFileOpen
    BY <1>34, SignalNotes DEF WorkerTimeout, Errors
  <2>3. Control'
    BY <1>34, <2>1, <2>2 DEF WorkerTimeout
  <2>4. (DataPlaced /\ AcknowledgedIsStored)'
    BY <1>34, <2>1, <2>2 DEF WorkerTimeout, DataPlaced, AcknowledgedIsStored, Succeeded
  <2> QED
    BY <2>3, <2>4
<1>35. CASE WorkerEnd
  <2>1. worker # Dead
    BY <1>35 DEF WorkerEnd, Dead
  <2>2. worker' = Dead /\ done' = 1 /\ bulk'.state = bulk.state /\
        bulk'.error = bulk.error /\ wq' = wq /\ bulk'.bMsgQ = bulk.bMsgQ /\
        bulk'.bFileOpen = bulk.bFileOpen
    BY <1>35 DEF WorkerEnd, Signal, Transfers
  <2>3. bulk'.running = bulk.running /\ bulk'.crc = bulk.crc
    BY <1>35 DEF WorkerEnd, Signal, Transfers
  <2>4. Control'
    BY <1>35, <2>1, <2>2 DEF WorkerEnd, Dead, Waiting, Writing
  <2>5. (DataPlaced /\ AcknowledgedIsStored)'
    BY <1>35, <2>1, <2>2, <2>3 DEF WorkerEnd, Dead, Waiting, Writing, DataPlaced,
       AcknowledgedIsStored, Succeeded
  <2> QED
    BY <2>4, <2>5
<1>36. CASE WorkerTake
  <2>1. worker # Dead
    BY <1>36 DEF WorkerTake, Dead
  <2>2. \/ bulk' = bulk /\ done' = done /\ wq' = wq
        \/ worker' = Dead /\ done' = 1 /\ bulk'.state = "Failed" /\ bulk'.error # "None"
           /\ wq' = (IF wq = "idle" THEN "lock" ELSE wq) /\
              bulk'.bMsgQ = bulk.bMsgQ /\ bulk'.bFileOpen = bulk.bFileOpen
    BY <1>36, SignalNotes DEF WorkerTake, Errors
  <2>3. Control'
    BY <1>36, <2>1, <2>2 DEF WorkerTake, Dead, Waiting, Writing
  <2>4. (DataPlaced /\ AcknowledgedIsStored)'
    BY <1>36, <2>1, <2>2 DEF WorkerTake, Dead, Waiting, Writing, DataPlaced,
       AcknowledgedIsStored, Succeeded
  <2> QED
    BY <2>3, <2>4
<1>37. CASE WorkerWrite
  <2>1. worker # Dead
    BY <1>37 DEF WorkerWrite, Dead
  <2>2. bulk'.state = bulk.state /\ bulk'.error = bulk.error /\
        bulk'.bFileOpen = bulk.bFileOpen /\ bulk'.bMsgQ = bulk.bMsgQ /\
        bulk'.bThread = bulk.bThread
    BY <1>37 DEF WorkerWrite, Transfers
  <2>3. handle \in Contents /\ worker.chunk \in Contents
    BY <1>37 DEF WorkerWrite, TypeOK, Workers
  <2>4. handle' # Closed
    <3>1. handle' = handle \o worker.chunk
      BY <1>37 DEF WorkerWrite
    <3>2. handle' \in Contents
      BY <2>3, <3>1, ContentOps
    <3> QED
      BY <3>2, ContentTypes
  <2>5. bulk'.running = bulk.running \o worker.chunk /\ bulk'.crc = bulk.crc
    BY <1>37 DEF WorkerWrite, Transfers
  <2>6. Control'
    BY <1>37, <2>1, <2>2, <2>3, <2>4 DEF WorkerWrite, Dead, Waiting, Writing
  <2>7. (DataPlaced /\ AcknowledgedIsStored)'
    BY <1>37, <2>1, <2>2, <2>3, <2>4, <2>5 DEF WorkerWrite, Dead, Waiting, Writing,
       DataPlaced, AcknowledgedIsStored, Succeeded
  <2> QED
    BY <2>6, <2>7
<1>38. CASE WorkerWriteFails
  <2>1. worker # Dead
    BY <1>38 DEF WorkerWriteFails, Dead
  <2>2. worker' = Dead /\ done' = 1 /\ bulk'.state = "Failed" /\
        bulk'.error # "None" /\ wq' = (IF wq = "idle" THEN "lock" ELSE wq) /\
        bulk'.bMsgQ = bulk.bMsgQ /\ bulk'.bFileOpen = bulk.bFileOpen
    BY <1>38, SignalNotes DEF WorkerWriteFails, Errors
  <2>3. handle # Closed => handle \in Contents /\ worker.chunk \in Contents
    BY <1>38 DEF TypeOK, Workers
  <2>4. handle' = Closed <=> handle = Closed
    BY <1>38, <2>3, ContentOps, ContentTypes DEF WorkerWriteFails
  <2>5. Control'
    BY <1>38, <2>1, <2>2, <2>3, <2>4 DEF WorkerWriteFails
  <2>6. (DataPlaced /\ AcknowledgedIsStored)'
    BY <1>38, <2>1, <2>2, <2>3, <2>4 DEF WorkerWriteFails, DataPlaced,
       AcknowledgedIsStored, Succeeded
  <2> QED
    BY <2>5, <2>6
<1>39. CASE CleanupLock
  <2>1. Control'
    BY <1>39 DEF CleanupLock
  <2>2. (DataPlaced /\ AcknowledgedIsStored)'
    BY <1>39 DEF CleanupLock, DataPlaced, AcknowledgedIsStored, Succeeded
  <2> QED
    BY <2>1, <2>2
<1>40. CASE CleanupOver
  <2>1. Control'
    BY <1>40 DEF CleanupOver, CleanupNeeded
  <2>2. (DataPlaced /\ AcknowledgedIsStored)'
    BY <1>40 DEF CleanupOver, CleanupNeeded, DataPlaced, AcknowledgedIsStored, Succeeded
  <2> QED
    BY <2>1, <2>2
<1>41. CASE CleanupClose
  <2>1. bulk'.state = "Failed" /\ bulk'.error = bulk.error /\
        bulk'.bFileOpen = FALSE /\ bulk'.bMsgQ = bulk.bMsgQ /\
        bulk'.bThread = bulk.bThread
    BY <1>41 DEF CleanupClose, Transfers
  <2>2. Control'
    BY <1>41, <2>1 DEF CleanupClose, CleanupNeeded
  <2>3. (DataPlaced /\ AcknowledgedIsStored)'
    BY <1>41, <2>1 DEF CleanupClose, CleanupNeeded, DataPlaced, AcknowledgedIsStored,
       Succeeded
  <2> QED
    BY <2>2, <2>3
<1>42. CASE CleanupDelete
  <2>1. bulk' = Fresh /\ worker' = Dead /\ queue' = <<>> /\ done' = 0
    BY <1>42, DefaultIsClean DEF CleanupDelete
  <2>2. Control'
    BY <1>42, <2>1 DEF CleanupDelete, Fresh
  <2>3. (DataPlaced /\ AcknowledgedIsStored)'
    BY <1>42, <2>1 DEF CleanupDelete, Fresh, DataPlaced, AcknowledgedIsStored, Succeeded
  <2> QED
    BY <2>2, <2>3
<1>43. CASE PowerCut
  <2>1. uart'.pc = "idle" /\ uart'.call = uart.call
    BY <1>43, GotoMoves DEF PowerCut, UartPcs
  <2>2. Control'
    BY <1>43, <2>1 DEF PowerCut, Fresh
  <2>3. (DataPlaced /\ AcknowledgedIsStored)'
    BY <1>43, <2>1 DEF PowerCut, Fresh, DataPlaced, AcknowledgedIsStored, Succeeded
  <2> QED
    BY <2>2, <2>3
<1>44. CASE UNCHANGED bulkVars
  <2>1. Control'
    BY <1>44 DEF bulkVars
  <2>2. (DataPlaced /\ AcknowledgedIsStored)'
    BY <1>44 DEF bulkVars, DataPlaced, AcknowledgedIsStored, Succeeded
  <2> QED
    BY <2>1, <2>2
<1> QED
  BY <1>1, <1>2, <1>3, <1>4, <1>5, <1>6, <1>7, <1>8, <1>9, <1>10, <1>11, <1>12, <1>13,
     <1>14, <1>15, <1>16, <1>17, <1>18, <1>19, <1>20, <1>21, <1>22, <1>23, <1>24,
     <1>25, <1>26, <1>27, <1>28, <1>29, <1>30, <1>31, <1>32, <1>33, <1>34, <1>35,
     <1>36, <1>37, <1>38, <1>39, <1>40, <1>41, <1>42, <1>43, <1>44 DEF Next, Internal,
     Running, Worker, Workqueue

-----------------------------------------------------------------------------
(* Without failures of the file system and power cuts. *)

\* No transfer: the path holds what was acknowledged last. A transfer: it is listed
\* and there is a file, until the end that failed has deleted it.
NothingPartial ==
  /\ bulk.state = "Idle" /\ uart.pc # "startOpen" => file = vouched
  /\ (bulk.state # "Idle" /\ uart.pc # "endExit") \/ uart.pc = "startOpen" =>
       listed /\ file # Absent
  /\ uart.pc \in {"endSync", "endClose", "endCatalog"} => Succeeded
  /\ uart.pc = "endExit" /\ ~Succeeded => file = Absent

CInv == IInv /\ NothingPartial

\* A deletion that cannot fail.
LEMMA DeletedSurely ==
  ASSUME ~FsFails, NEW o \in Deleted
  PROVE  o.ok /\ o.file = IF listed /\ file # Absent THEN Absent ELSE file
  BY DEF Deleted, FsOutcome

\* Without failures nothing but a complete file, or none, is left behind.
LEMMA CleanStep ==
  ASSUME CInv, ~FsFails, ~PowerCuts, [Next]_bulkVars
  PROVE  NothingPartial'
<1> USE BulkConstantsAssumption, ContentTypes DEF CInv, IInv, Safe, TypeOK, Control,
   At, Unlock,
  fs, history, Critical, Preparing, Ending, EndingOpen, Alone, Failing,
  MutexHeld, CallServed, Phase, Flags, LeftClean, WorkerBelongs, DataPlaced,
  AcknowledgedIsStored, Succeeded, NothingPartial
<1>1. ASSUME NEW c \in Calls, Call(c) PROVE NothingPartial'
  <2>1. uart'.pc \in {"return", "startLock", "sendLock", "endLock"}
    BY <1>1 DEF Call
  <2> QED
    BY <1>1, <2>1 DEF Call
<1>2. CASE StartLock
  <2>1. uart'.pc \in {"start", "return"}
    BY <1>2, GotoMoves, ReturnMoves DEF StartLock, Lock, UartPcs, Results, Errors
  <2> QED
    BY <1>2, <2>1 DEF StartLock, Lock
<1>3. CASE StartBusy
  <2>1. uart'.pc = "return"
    BY <1>3, ReturnMoves DEF StartBusy, Results, Errors
  <2> QED
    BY <1>3, <2>1 DEF StartBusy
<1>4. CASE Start
  <2>1. uart'.pc = "startDelete"
    BY <1>4, GotoMoves DEF Start, UartPcs
  <2>2. bulk' = Fresh
    BY <1>4, DefaultIsClean DEF Start
  <2> QED
    BY <1>4, <2>1, <2>2 DEF Start, CanStart, Fresh
<1>5. CASE StartDelete
  <2>1. uart'.pc \in {"startCreate", "return"}
    BY <1>5, GotoMoves, ReturnMoves DEF AtFs, StartDelete, UartPcs, Results, Errors
  <2>2. \E o \in Deleted : file' = o.file /\
        vouched' = IF o.file = Absent THEN Absent ELSE vouched
    BY <1>5 DEF AtFs, StartDelete, Becomes
  <2>3. \A o \in Deleted : o.file \in {file, Absent}
    BY <1>5, DeletedSurely
  <2>4. file = vouched
    BY <1>5 DEF AtFs, StartDelete
  <2>5. file' = vouched'
    BY <1>5, <2>2, <2>3, <2>4
  <2> QED
    BY <1>5, <2>1, <2>2, <2>3, <2>4, <2>5 DEF AtFs, StartDelete
<1>6. CASE StartCreate
  <2>1. file # Absent => \A o \in Created : ~o.ok /\ o.file = file
    BY <1>6 DEF Created, FsOutcome
  <2>2. file = Absent => \A o \in Created : o.ok /\ o.file = <<>> /\ o.listed
    BY <1>6 DEF Created, FsOutcome
  <2>3. \/ file # Absent /\ file' = file /\ uart'.pc = "return"
        \/ file' = <<>> /\ listed' /\ uart'.pc = "startOpen"
    BY <1>6, <2>1, <2>2, GotoMoves, ReturnMoves DEF AtFs, StartCreate, Becomes, UartPcs,
       Results
  <2> QED
    BY <1>6, <2>1, <2>2, <2>3 DEF AtFs, StartCreate
<1>7. CASE StartOpenFailed
  <2>1. uart'.pc = "return"
    BY <1>7, ReturnMoves DEF AtFs, StartOpenFailed, Results, Errors
  <2> QED
    BY <1>7, <2>1 DEF AtFs, StartOpenFailed
<1>8. CASE StartOpen
  <2>1. uart'.pc = "return"
    BY <1>8, ReturnMoves DEF AtFs, StartOpen, Results, Errors
  <2>2. bulk'.state = "Receiving" /\ bulk'.error = bulk.error
    BY <1>8 DEF AtFs, StartOpen, Transfers
  <2> QED
    BY <1>8, <2>1, <2>2 DEF AtFs, StartOpen
<1>9. CASE SendLock
  <2>1. uart'.pc \in {"send", "return"}
    BY <1>9, GotoMoves, ReturnMoves DEF SendLock, Lock, UartPcs, Results, Errors
  <2> QED
    BY <1>9, <2>1 DEF SendLock, Lock
<1>10. CASE SendRefused
  <2>1. uart'.pc = "return"
    BY <1>10, ReturnMoves DEF SendRefused, Results, Errors
  <2> QED
    BY <1>10, <2>1 DEF SendRefused
<1>11. CASE SendChecked
  <2>1. uart'.pc = "sendPut"
    BY <1>11, GotoMoves DEF SendChecked, UartPcs
  <2> QED
    BY <1>11, <2>1 DEF SendChecked, Acceptable
<1>12. CASE SendPut
  <2>1. uart'.pc = "sendCount"
    BY <1>12, GotoMoves DEF SendPut, UartPcs
  <2> QED
    BY <1>12, <2>1 DEF SendPut
<1>13. CASE SendCount
  <2>1. uart'.pc = "return"
    BY <1>13, ReturnMoves DEF SendCount, Results, Errors
  <2>2. bulk'.state = bulk.state /\ bulk'.error = bulk.error
    BY <1>13 DEF SendCount, Transfers
  <2> QED
    BY <1>13, <2>1, <2>2 DEF SendCount
<1>14. CASE SendFull
  <2>1. uart'.pc = "return"
    BY <1>14, ReturnMoves DEF SendFull, Results, Errors
  <2> QED
    BY <1>14, <2>1 DEF SendFull
<1>15. CASE EndLock
  <2>1. uart'.pc \in {"endCheck", "return"}
    BY <1>15, GotoMoves, ReturnMoves DEF EndLock, Lock, UartPcs, Results, Errors
  <2> QED
    BY <1>15, <2>1 DEF EndLock, Lock
<1>16. CASE EndRefused
  <2>1. uart'.pc = "return"
    BY <1>16, ReturnMoves DEF EndRefused, Results, Errors
  <2> QED
    BY <1>16, <2>1 DEF EndRefused
<1>17. CASE EndChecked
  <2>1. uart'.pc = "endFinalize"
    BY <1>17, GotoMoves DEF EndChecked, UartPcs
  <2> QED
    BY <1>17, <2>1 DEF EndChecked
<1>18. CASE EndFinalize
  <2>1. uart'.pc = "endPut"
    BY <1>18, GotoMoves DEF EndFinalize, UartPcs
  <2>2. bulk'.state = "Finalizing" /\ bulk'.error = bulk.error
    BY <1>18 DEF EndFinalize, Transfers
  <2> QED
    BY <1>18, <2>1, <2>2 DEF EndFinalize
<1>19. CASE EndPut
  <2>1. uart'.pc = "endWait"
    BY <1>19, GotoMoves DEF EndPut, UartPcs
  <2> QED
    BY <1>19, <2>1 DEF EndPut
<1>20. CASE EndPutTimeout
  <2>1. uart'.pc = "endFail"
    BY <1>20, GotoMoves DEF EndPutTimeout, UartPcs
  <2>2. bulk'.state = bulk.state /\ bulk'.error = "QueueError"
    BY <1>20 DEF EndPutTimeout, Transfers
  <2> QED
    BY <1>20, <2>1, <2>2 DEF EndPutTimeout
<1>21. CASE EndWait
  <2>1. uart'.pc = "endJudge"
    BY <1>21, GotoMoves DEF EndWait, UartPcs
  <2> QED
    BY <1>21, <2>1 DEF EndWait
<1>22. CASE EndWaitTimeout
  <2>1. uart'.pc = "endFail"
    BY <1>22, GotoMoves DEF EndWaitTimeout, UartPcs
  <2>2. bulk'.state = bulk.state /\ bulk'.error = "TimeOut"
    BY <1>22 DEF EndWaitTimeout, Transfers
  <2> QED
    BY <1>22, <2>1, <2>2 DEF EndWaitTimeout
<1>23. CASE EndJudge
  <2>1. uart'.pc \in {"endSync", "endAbort"}
    BY <1>23, GotoMoves DEF EndJudge, UartPcs
  <2>2. bulk'.state # "Idle"
    BY <1>23 DEF EndJudge, Transfers
  <2>3. uart'.pc = "endSync" => bulk'.state = "Success" /\ bulk'.error = "None"
    BY <1>23, GotoMoves DEF EndJudge, UartPcs, Transfers
  <2> QED
    BY <1>23, <2>1, <2>2, <2>3 DEF EndJudge
<1>24. CASE EndSync
  <2>1. uart'.pc \in {"endClose", "endAbort"}
    BY <1>24, GotoMoves DEF AtFs, EndSync, UartPcs
  <2>2. handle \in Contents /\ file' = handle /\ bulk' = bulk
    BY <1>24 DEF AtFs, EndSync
  <2> QED
    BY <1>24, <2>1, <2>2 DEF AtFs, EndSync
<1>25. CASE EndClose
  <2>1. uart'.pc = "endCatalog" /\ bulk'.state = bulk.state /\ bulk'.error = bulk.error
    BY <1>25, GotoMoves DEF AtFs, EndClose, UartPcs, Transfers
  <2> QED
    BY <1>25, <2>1 DEF AtFs, EndClose
<1>26. CASE EndCatalog
  <2>1. uart'.pc = "endExit"
    BY <1>26, GotoMoves DEF AtFs, EndCatalog, UartPcs
  <2>2. bulk' = bulk
    BY <1>26 DEF AtFs, EndCatalog
  <2> QED
    BY <1>26, <2>1, <2>2 DEF AtFs, EndCatalog, Refreshed
<1>27. CASE EndFail
  <2>1. uart'.pc = "endAbort"
    BY <1>27, GotoMoves DEF EndFail, UartPcs
  <2>2. bulk'.state = "Failed" /\ bulk'.error = bulk.error
    BY <1>27 DEF EndFail, Transfers
  <2> QED
    BY <1>27, <2>1, <2>2 DEF EndFail
<1>28. CASE EndAbort
  <2>1. uart'.pc \in {"endKill", "endDrop"}
    BY <1>28, GotoMoves DEF EndAbort, UartPcs
  <2> QED
    BY <1>28, <2>1 DEF EndAbort
<1>29. CASE EndKill
  <2>1. uart'.pc = "endDrop"
    BY <1>29, GotoMoves DEF EndKill, UartPcs
  <2>2. bulk'.state = bulk.state /\ bulk'.error = bulk.error
    BY <1>29 DEF EndKill, Transfers
  <2> QED
    BY <1>29, <2>1, <2>2 DEF EndKill
<1>30. CASE EndDrop
  <2>1. uart'.pc = "endDelete"
    BY <1>30, GotoMoves DEF EndDrop, UartPcs
  <2>2. bulk'.state = bulk.state /\ bulk'.error = bulk.error
    BY <1>30 DEF EndDrop, Transfers
  <2>3. file' \in {file, handle} /\ (file' = file \/ handle \in Contents)
    BY <1>30 DEF EndDrop, AfterClose
  <2> QED
    BY <1>30, <2>1, <2>2, <2>3 DEF EndDrop
<1>31. CASE EndDelete
  <2>1. uart'.pc = "endExit"
    BY <1>31, GotoMoves DEF AtFs, EndDelete, UartPcs
  <2>2. file' = Absent /\ bulk' = bulk
    BY <1>31, DeletedSurely DEF AtFs, EndDelete, Becomes
  <2> QED
    BY <1>31, <2>1, <2>2 DEF AtFs, EndDelete
<1>32. CASE EndExit
  <2>1. uart'.pc = "return"
    BY <1>32, ReturnMoves DEF EndExit, Results, Errors, Transfers
  <2>2. bulk' = Fresh
    BY <1>32, DefaultIsClean DEF EndExit
  <2> QED
    BY <1>32, <2>1, <2>2 DEF EndExit, Fresh
<1>33. CASE Reply
  <2>1. uart'.pc = "idle"
    BY <1>33, GotoMoves DEF Reply, UartPcs
  <2> QED
    BY <1>33, <2>1 DEF Reply
<1>34. CASE WorkerTimeout
  <2>1. bulk'.state = "Failed"
    BY <1>34, SignalNotes DEF WorkerTimeout, Errors
  <2>2. worker # Dead
    BY <1>34 DEF WorkerTimeout, Dead
  <2> QED
    BY <1>34, <2>1, <2>2 DEF WorkerTimeout
<1>35. CASE WorkerEnd
  <2>1. bulk'.state = bulk.state /\ bulk'.error = bulk.error
    BY <1>35 DEF WorkerEnd, Transfers, Signal
  <2> QED
    BY <1>35, <2>1 DEF WorkerEnd
<1>36. CASE WorkerTake
  <2>1. worker # Dead
    BY <1>36 DEF WorkerTake, Dead
  <2>2. bulk' = bulk \/ bulk'.state = "Failed"
    BY <1>36, SignalNotes DEF WorkerTake, Errors
  <2> QED
    BY <1>36, <2>1, <2>2 DEF WorkerTake
<1>37. CASE WorkerWrite
  <2>1. bulk'.state = bulk.state /\ bulk'.error = bulk.error
    BY <1>37 DEF WorkerWrite, Transfers
  <2> QED
    BY <1>37, <2>1 DEF WorkerWrite
<1>38. CASE WorkerWriteFails
  <2>1. worker # Dead
    BY <1>38 DEF WorkerWriteFails, Dead
  <2>2. bulk'.state = "Failed"
    BY <1>38, SignalNotes DEF WorkerWriteFails, Errors
  <2> QED
    BY <1>38, <2>1, <2>2 DEF WorkerWriteFails
<1>39. CASE CleanupLock
  BY <1>39 DEF CleanupLock
<1>40. CASE CleanupOver
  BY <1>40 DEF CleanupOver, CleanupNeeded
<1>41. CASE CleanupClose
  <2>1. bulk'.state = "Failed"
    BY <1>41 DEF CleanupClose, Transfers
  <2>2. file' \in {file, handle} /\ (file' = file \/ handle \in Contents)
    BY <1>41 DEF CleanupClose, AfterClose
  <2> QED
    BY <1>41, <2>1, <2>2 DEF CleanupClose, CleanupNeeded
<1>42. CASE CleanupDelete
  <2>1. bulk' = Fresh
    BY <1>42, DefaultIsClean DEF CleanupDelete
  <2>2. file' = Absent
    BY <1>42, DeletedSurely DEF CleanupDelete, Becomes
  <2> QED
    BY <1>42, <2>1, <2>2 DEF CleanupDelete, Fresh
<1>43. CASE PowerCut
  BY <1>43 DEF PowerCut, Fresh
<1>44. CASE UNCHANGED bulkVars
  BY <1>44 DEF bulkVars
<1> QED
  BY <1>1, <1>2, <1>3, <1>4, <1>5, <1>6, <1>7, <1>8, <1>9, <1>10, <1>11, <1>12, <1>13,
     <1>14, <1>15, <1>16, <1>17, <1>18, <1>19, <1>20, <1>21, <1>22, <1>23, <1>24,
     <1>25, <1>26, <1>27, <1>28, <1>29, <1>30, <1>31, <1>32, <1>33, <1>34, <1>35,
     <1>36, <1>37, <1>38, <1>39, <1>40, <1>41, <1>42, <1>43, <1>44 DEF Next, Internal,
     Running, Worker, Workqueue

-----------------------------------------------------------------------------
(* Errors. *)

\* What a step may do with an error that was noted.
ErrorKept == bulk.error # "None" => bulk'.error # "None" \/ bulk'.state = "Idle"

\* No step forgets an error of a transfer that goes on.
LEMMA ErrorStep ==
  ASSUME TypeOK, [Next]_bulkVars
  PROVE  bulk' = bulk \/ ErrorKept
<1> USE DEF TypeOK, ErrorKept, fs, history
<1>1. CASE \/ StartLock \/ StartBusy \/ StartDelete \/ StartCreate \/ StartOpenFailed
           \/ SendLock \/ SendRefused \/ SendChecked \/ SendPut \/ SendFull
           \/ EndLock \/ EndRefused \/ EndChecked \/ EndPut \/ EndWait
           \/ EndAbort \/ Reply \/ CleanupLock \/ CleanupOver
           \/ \E c \in Calls : Call(c)
           \/ UNCHANGED bulkVars
  BY <1>1 DEF AtFs, Lock, Call, bulkVars, StartLock, StartBusy, StartDelete, StartCreate,
     StartOpenFailed, SendLock, SendRefused, SendChecked, SendPut, SendFull, EndLock,
     EndRefused, EndChecked, EndPut, EndWait, EndAbort, Reply, CleanupLock, CleanupOver
<1>2. CASE Start \/ EndExit \/ CleanupDelete \/ PowerCut
  BY <1>2 DEF Start, EndExit, CleanupDelete, PowerCut, ToDefault, Fresh
<1>3. CASE StartOpen
  BY <1>3 DEF AtFs, StartOpen, Transfers
<1>4. CASE SendCount
  BY <1>4 DEF SendCount, Transfers
<1>5. CASE EndFinalize
  BY <1>5 DEF EndFinalize, Transfers
<1>6. CASE EndFail
  BY <1>6 DEF EndFail, Transfers
<1>7. CASE EndPutTimeout
  BY <1>7 DEF EndPutTimeout, Transfers
<1>8. CASE EndWaitTimeout
  BY <1>8 DEF EndWaitTimeout, Transfers
<1>9. CASE EndKill
  BY <1>9 DEF EndKill, Transfers
<1>10. CASE EndDrop
  BY <1>10 DEF EndDrop, Transfers
<1>11. CASE WorkerWrite
  BY <1>11 DEF WorkerWrite, Transfers
<1>12. CASE CleanupClose
  BY <1>12 DEF CleanupClose, Transfers
<1>13. CASE EndJudge
  BY <1>13 DEF EndJudge, Judged, Transfers
<1>14. CASE EndDelete
  BY <1>14 DEF AtFs, EndDelete, Transfers
<1>15. CASE EndSync
  BY <1>15, FailsNotes DEF AtFs, EndSync, Errors
<1>16. CASE EndCatalog
  BY <1>16, FailsNotes DEF AtFs, EndCatalog, Errors
<1>17. CASE EndClose
  BY <1>17 DEF AtFs, EndClose, Fails, Transfers
<1>18. CASE WorkerTimeout
  BY <1>18, SignalNotes DEF WorkerTimeout, Errors
<1>19. CASE WorkerTake
  BY <1>19, SignalNotes DEF WorkerTake, Errors
<1>20. CASE WorkerWriteFails
  BY <1>20, SignalNotes DEF WorkerWriteFails, Errors
<1>21. CASE WorkerEnd
  BY <1>21 DEF WorkerEnd, Signal, Transfers
<1> QED
  BY <1>1, <1>2, <1>3, <1>4, <1>5, <1>6, <1>7, <1>8, <1>9, <1>10, <1>11, <1>12, <1>13,
     <1>14, <1>15, <1>16, <1>17, <1>18, <1>19, <1>20, <1>21 DEF Next, Internal,
     Running, Worker, Workqueue

-----------------------------------------------------------------------------
(* The order of the data. *)

\* Nothing consists of nothing.
LEMMA ConsistsEmpty == Consists(<<>>, <<>>, <<>>)
<1> DEFINE cut == [i \in 0 .. 0 |-> 0]
<1>1. Len(<<>>) = 0
  OBVIOUS
<1>2. cut \in [0 .. 0 -> 0 .. 0] /\ cut[0] = 0
  OBVIOUS
<1> HIDE DEF cut
<1>3. Cuts(cut, <<>>, <<>>, <<>>)
  BY <1>1, <1>2 DEF Cuts
<1>4. cut \in [0 .. Len(<<>>) -> 0 .. Len(<<>>)]
  BY <1>1, <1>2
<1> QED
  BY <1>3, <1>4, Zenon DEF Consists

\* A message that is queued adds its chunk at the end.
LEMMA ConsistsAppend ==
  ASSUME NEW s \in Contents, NEW b \in Contents, NEW q \in Seq(Messages), NEW m \in Messages,
         Consists(s, b, q)
  PROVE  Consists(s \o m.chunk, b, Append(q, m))
<1> DEFINE n == Len(q)
           t == s \o m.chunk
<1>1. PICK cut \in [0 .. n -> 0 .. Len(s)] :
        /\ cut[0] = Len(b) /\ cut[n] = Len(s)
        /\ \A k \in 1 .. Len(b) : s[k] = b[k]
        /\ \A i \in 1 .. n :
             /\ cut[i] = cut[i - 1] + Len(q[i].chunk)
             /\ \A k \in 1 .. Len(q[i].chunk) : s[cut[i - 1] + k] = q[i].chunk[k]
  BY DEF Consists, Cuts
<1>2. n \in Nat /\ Len(Append(q, m)) = n + 1 /\ Append(q, m)[n + 1] = m
      /\ \A i \in 1 .. n : Append(q, m)[i] = q[i] /\ q[i] \in Messages
  OBVIOUS
<1>3. m.chunk \in Contents /\ \A i \in 1 .. n : q[i].chunk \in Contents
  BY <1>2, MessageTypes
<1>4. /\ Len(s) \in Nat /\ Len(b) \in Nat /\ Len(m.chunk) \in Nat
      /\ Len(t) = Len(s) + Len(m.chunk)
      /\ \A k \in 1 .. Len(s) : t[k] = s[k]
      /\ \A k \in 1 .. Len(m.chunk) : t[Len(s) + k] = m.chunk[k]
  BY <1>3 DEF Contents
<1>5. \A i \in 1 .. n : Len(q[i].chunk) \in Nat
  BY <1>3 DEF Contents
<1> DEFINE new == [i \in 0 .. n + 1 |-> IF i <= n THEN cut[i] ELSE Len(t)]
<1>6. \A i \in 0 .. n : cut[i] \in 0 .. Len(s)
  BY <1>1
<1>7. new \in [0 .. n + 1 -> 0 .. Len(t)]
  BY <1>2, <1>4, <1>6
<1>8. \A i \in 0 .. n : new[i] = cut[i]
  BY <1>2
<1>9. new[n + 1] = Len(t) /\ 0 \in 0 .. n /\ n \in 0 .. n
  BY <1>2
<1>10. \A k \in 1 .. Len(b) : t[k] = b[k]
  BY <1>1, <1>4, <1>6, <1>9
<1> HIDE DEF t, new
<1>11. ASSUME NEW i \in 1 .. n + 1
       PROVE  LET c == Append(q, m)[i].chunk IN
              /\ new[i] = new[i - 1] + Len(c)
              /\ \A k \in 1 .. Len(c) : t[new[i - 1] + k] = c[k]
  <2>1. CASE i = n + 1
    <3>1. Append(q, m)[i].chunk = m.chunk /\ new[i - 1] = Len(s) /\ new[i] = Len(t)
      BY <1>1, <1>2, <1>8, <1>9, <2>1
    <3> QED
      BY <1>4, <3>1
  <2>2. CASE i # n + 1
    <3>1. i \in 1 .. n /\ i - 1 \in 0 .. n /\ i \in 0 .. n
      BY <1>2, <2>2
    <3>2. /\ Append(q, m)[i].chunk = q[i].chunk
          /\ new[i - 1] = cut[i - 1] /\ new[i] = cut[i]
      BY <1>2, <1>8, <3>1
    <3>3. cut[i] = cut[i - 1] + Len(q[i].chunk) /\ cut[i] <= Len(s) /\ cut[i - 1] \in Nat
      BY <1>1, <1>4, <1>6, <3>1
    <3>4. \A k \in 1 .. Len(q[i].chunk) : cut[i - 1] + k \in 1 .. Len(s)
      BY <1>4, <1>5, <3>1, <3>3
    <3>5. \A k \in 1 .. Len(q[i].chunk) : t[cut[i - 1] + k] = q[i].chunk[k]
      BY <1>1, <1>4, <3>1, <3>4
    <3> QED
      BY <3>2, <3>3, <3>5
  <2> QED
    BY <2>1, <2>2
<1>12. new[0] = Len(b)
  BY <1>1, <1>8, <1>9
<1> HIDE DEF n
<1>13. Cuts(new, t, b, Append(q, m))
  BY <1>2, <1>9, <1>10, <1>11, <1>12 DEF Cuts
<1>14. new \in [0 .. Len(Append(q, m)) -> 0 .. Len(t)]
  BY <1>2, <1>7
<1>15. Consists(t, b, Append(q, m))
  BY <1>13, <1>14, Zenon DEF Consists
<1> QED
  BY <1>15 DEF t

\* The first message that is taken is what follows the beginning.
LEMMA ConsistsTake ==
  ASSUME NEW s \in Contents, NEW b \in Contents, NEW q \in Seq(Messages), q # <<>>,
         Consists(s, b, q)
  PROVE  Consists(s, b \o Head(q).chunk, Tail(q))
<1> DEFINE n == Len(q)
           h == Head(q).chunk
           e == b \o h
<1>1. PICK cut \in [0 .. n -> 0 .. Len(s)] :
        /\ cut[0] = Len(b) /\ cut[n] = Len(s)
        /\ \A k \in 1 .. Len(b) : s[k] = b[k]
        /\ \A i \in 1 .. n :
             /\ cut[i] = cut[i - 1] + Len(q[i].chunk)
             /\ \A k \in 1 .. Len(q[i].chunk) : s[cut[i - 1] + k] = q[i].chunk[k]
  BY DEF Consists, Cuts
<1>2. /\ n \in Nat \ {0} /\ Len(Tail(q)) = n - 1 /\ h = q[1].chunk
      /\ q[1] \in Messages /\ \A i \in 1 .. n - 1 : Tail(q)[i] = q[i + 1]
  OBVIOUS
<1>3. h \in Contents
  BY <1>2, MessageTypes
<1>4. /\ Len(b) \in Nat /\ Len(h) \in Nat /\ Len(e) = Len(b) + Len(h)
      /\ \A k \in 1 .. Len(b) : e[k] = b[k]
      /\ \A k \in 1 .. Len(h) : e[Len(b) + k] = h[k]
  BY <1>3 DEF Contents
<1> DEFINE new == [i \in 0 .. n - 1 |-> cut[i + 1]]
<1>5. new \in [0 .. n - 1 -> 0 .. Len(s)] /\ \A i \in 0 .. n - 1 : new[i] = cut[i + 1]
  BY <1>2
<1> HIDE DEF new, e, h
<1>6. /\ 1 \in 1 .. n /\ 0 \in 0 .. n - 1 /\ n - 1 \in 0 .. n - 1
      /\ 1 - 1 = 0 /\ 0 + 1 = 1 /\ (n - 1) + 1 = n
  BY <1>2
<1>7. cut[1] = Len(b) + Len(h) /\ \A k \in 1 .. Len(h) : s[Len(b) + k] = h[k]
  <2>1. /\ cut[1] = cut[1 - 1] + Len(q[1].chunk)
        /\ \A k \in 1 .. Len(q[1].chunk) : s[cut[1 - 1] + k] = q[1].chunk[k]
    BY <1>1, <1>6
  <2> QED
    BY <1>1, <1>2, <1>6, <2>1
<1>8. new[0] = Len(e) /\ new[n - 1] = Len(s)
  <2>1. new[0] = cut[0 + 1] /\ new[n - 1] = cut[(n - 1) + 1]
    BY <1>5, <1>6
  <2> QED
    BY <1>1, <1>4, <1>6, <1>7, <2>1
<1>9. ASSUME NEW k \in 1 .. Len(e)
      PROVE  s[k] = e[k]
  <2>1. CASE k <= Len(b)
    BY <1>1, <1>4, <2>1
  <2>2. CASE k > Len(b)
    <3>1. k - Len(b) \in 1 .. Len(h) /\ k = Len(b) + (k - Len(b))
      BY <1>4, <2>2
    <3> QED
      BY <1>4, <1>7, <3>1
  <2> QED
    BY <1>4, <2>1, <2>2
<1>10. ASSUME NEW i \in 1 .. n - 1
       PROVE  LET c == Tail(q)[i].chunk IN
              /\ new[i] = new[i - 1] + Len(c)
              /\ \A k \in 1 .. Len(c) : s[new[i - 1] + k] = c[k]
  <2>1. i + 1 \in 1 .. n /\ i \in 0 .. n - 1 /\ i - 1 \in 0 .. n - 1 /\ (i - 1) + 1 = i /\ (i + 1) - 1 = i
    BY <1>2
  <2>2. new[i] = cut[i + 1] /\ new[i - 1] = cut[i] /\ Tail(q)[i].chunk = q[i + 1].chunk
    BY <1>2, <1>5, <2>1
  <2> QED
    BY <1>1, <2>1, <2>2
<1> HIDE DEF n
<1>11. Cuts(new, s, e, Tail(q))
  BY <1>2, <1>8, <1>9, <1>10 DEF Cuts
<1>12. new \in [0 .. Len(Tail(q)) -> 0 .. Len(s)]
  BY <1>2, <1>5
<1>13. Consists(s, e, Tail(q))
  BY <1>11, <1>12, Zenon DEF Consists
<1> QED
  BY <1>13 DEF e, h

\* A transfer that goes on was there before; only a START gives it another content, and only
\* a write changes what was written.
LEMMA TransferGoesOn ==
  ASSUME IInv, [Next]_bulkVars, ~ StartOpen, bulk'.state # "Idle"
  PROVE  /\ bulk.state # "Idle" /\ bulk'.crc = bulk.crc
         /\ bulk'.running = bulk.running \/ WorkerWrite
<1>1. bulk \in Transfers /\ Phase /\ WorkerBelongs
  BY DEF IInv, TypeOK, Safe, Control
<1>2. ~ ToDefault /\ ~ PowerCut
  BY DEF ToDefault, PowerCut, Fresh
<1>3. CASE UNCHANGED bulk
  BY <1>3
<1>4. CASE SendCount \/ EndFinalize \/ EndPutTimeout \/ EndWaitTimeout \/ EndFail \/ EndKill \/ EndDrop
  BY <1>1, <1>4 DEF SendCount, EndFinalize, EndPutTimeout, EndWaitTimeout, EndFail, EndKill,
     EndDrop, At, Phase, Ending, EndingOpen, Transfers
<1>5. CASE EndJudge \/ EndSync \/ EndClose \/ EndCatalog \/ EndDelete
  <2>1. bulk.state # "Idle"
    BY <1>1, <1>5 DEF AtFs, EndJudge, EndSync, EndClose, EndCatalog, EndDelete, At, Phase,
       Ending, EndingOpen
  <2>2. CASE EndJudge
    BY <1>1, <2>1, <2>2 DEF EndJudge, Transfers
  <2>3. CASE EndSync
    BY <1>1, <2>1, <2>3 DEF AtFs, EndSync, Fails, Transfers
  <2>4. CASE EndClose
    BY <1>1, <2>1, <2>4 DEF AtFs, EndClose, Fails, Transfers
  <2>5. CASE EndCatalog
    BY <1>1, <2>1, <2>5 DEF AtFs, EndCatalog, Fails, Transfers
  <2>6. CASE EndDelete
    BY <1>1, <2>1, <2>6 DEF AtFs, EndDelete, Transfers
  <2> QED
    BY <1>5, <2>2, <2>3, <2>4, <2>5, <2>6
<1>6. CASE Worker
  <2>1. bulk.state # "Idle"
    <3>1. worker.pc \in {"get", "write"}
      BY <1>6, Zenon DEF Worker, WorkerTimeout, WorkerEnd, WorkerTake, WorkerWrite,
         WorkerWriteFails
    <3>2. worker # Dead
      BY <3>1 DEF Dead
    <3> QED
      BY <1>1, <3>2 DEF WorkerBelongs
  <2>2. \A e, b : Signal(Fails(e), b) => bulk'.crc = bulk.crc /\ bulk'.running = bulk.running
    BY <1>1 DEF Signal, Fails, Transfers
  <2>3. CASE WorkerEnd \/ WorkerWrite
    BY <1>1, <2>1, <2>3 DEF WorkerEnd, WorkerWrite, Signal, Transfers
  <2>4. CASE WorkerTimeout \/ WorkerTake \/ WorkerWriteFails
    <3>1. UNCHANGED bulk \/ \E e : Signal(Fails(e), TRUE)
      BY <2>4 DEF WorkerTimeout, WorkerTake, WorkerWriteFails
    <3> QED
      BY <2>1, <2>2, <3>1
  <2> QED
    BY <1>6, <2>3, <2>4 DEF Worker
<1>7. CASE CleanupClose
  BY <1>1, <1>7 DEF CleanupClose, CleanupNeeded, Transfers
<1> QED
  BY <1>2, <1>3, <1>4, <1>5, <1>6, <1>7
     DEF AtFs, bulkVars, Next, Call, Reply, Internal, Running, Workqueue, StartLock, Lock,
         StartBusy, Start, StartDelete, StartCreate, StartOpenFailed, SendLock, SendRefused,
         SendChecked, SendPut, SendFull, EndLock, EndRefused, EndChecked, EndPut, EndWait,
         EndAbort, EndExit, CleanupLock, CleanupOver, CleanupDelete

\* The UART thread moves to another point of its call, or the call returns.
LEMMA Moved ==
  ASSUME uart \in UartThreads, NEW l, Goto(l)
  PROVE  uart'.pc = l /\ uart'.call = uart.call /\ uart'.result = uart.result
  BY DEF UartThreads, Goto

LEMMA Returned ==
  ASSUME uart \in UartThreads, NEW r, Return(r)
  PROVE  uart'.pc = "return" /\ uart'.call = uart.call /\ uart'.result = r
  BY DEF UartThreads, Return

\* A transfer is prepared from its start on.
LEMMA PreparingGoesOn ==
  ASSUME uart \in UartThreads, [Next]_bulkVars, ~ Start, uart'.pc \in Preparing
  PROVE  uart.pc \in Preparing
<1> USE DEF At, Preparing
<1>1. CASE StartLock \/ SendLock \/ EndLock
  BY <1>1, Moved, Returned DEF StartLock, SendLock, EndLock, Lock
<1>2. CASE StartBusy \/ SendRefused \/ SendFull \/ EndRefused \/ StartOpenFailed \/ StartOpen
           \/ SendCount \/ EndExit
  BY <1>2, Returned DEF AtFs, StartBusy, SendRefused, SendFull, EndRefused, StartOpenFailed,
     StartOpen, SendCount, EndExit
<1>3. CASE StartDelete \/ StartCreate
  BY <1>3 DEF AtFs, StartDelete, StartCreate
<1>4. CASE SendChecked \/ SendPut \/ EndChecked \/ EndFinalize \/ EndPut \/ EndPutTimeout \/ EndWait
           \/ EndWaitTimeout \/ EndFail \/ EndKill \/ EndDrop \/ EndDelete \/ Reply \/ PowerCut
  BY <1>4, Moved DEF AtFs, SendChecked, SendPut, EndChecked, EndFinalize, EndPut, EndPutTimeout,
     EndWait, EndWaitTimeout, EndFail, EndKill, EndDrop, EndDelete, Reply, PowerCut
<1>5. CASE EndJudge \/ EndAbort \/ EndSync \/ EndClose \/ EndCatalog
  <2>1. \E l \in {"endSync", "endAbort", "endKill", "endDrop", "endClose", "endCatalog", "endExit"} :
          Goto(l)
    BY <1>5 DEF AtFs, EndJudge, EndAbort, EndSync, EndClose, EndCatalog
  <2> QED
    BY <2>1, Moved
<1>6. CASE \E c \in Calls : Call(c)
  BY <1>6 DEF Call
<1>7. CASE Worker \/ Workqueue \/ UNCHANGED bulkVars
  BY <1>7 DEF Worker, Workqueue, WorkerTimeout, WorkerEnd, WorkerTake, WorkerWrite,
     WorkerWriteFails, CleanupLock, CleanupOver, CleanupClose, CleanupDelete, bulkVars
<1> QED
  BY <1>1, <1>2, <1>3, <1>4, <1>5, <1>6, <1>7 DEF Next, Internal, Running

\* The order of the data, with what is known of it before the first frame and between writes.
Ordered ==
  /\ InOrder
  /\ uart.pc \in Preparing => taken = <<>>
  /\ worker.pc # "write" => worker.chunk = <<>>

\* Power-on begins no transfer.
LEMMA InitOrdered == Init => Ordered
  BY DEF Init, Ordered, InOrder, Fresh, Dead, Preparing

\* The steps that move data, or begin or end with an error.
Moving ==
  \/ StartOpen \/ SendPut \/ EndPut \/ EndKill \/ WorkerTake \/ WorkerEnd \/ WorkerWrite
  \/ WorkerTimeout \/ WorkerWriteFails

LEMMA DataStays ==
  ASSUME [Next]_bulkVars, ~ Moving, ~ ToDefault, ~ PowerCut
  PROVE  UNCHANGED <<queue, worker, taken>>
BY DEF AtFs, Moving, bulkVars, Next, Call, Reply, Internal, Running, Worker, Workqueue,
       StartLock, Lock, StartBusy, Start, StartDelete, StartCreate, StartOpenFailed, SendLock,
       SendRefused, SendChecked, SendCount, SendFull, EndLock, EndRefused, EndChecked, EndFinalize,
       EndPutTimeout, EndWait, EndWaitTimeout, EndJudge, EndSync, EndClose, EndCatalog, EndFail,
       EndAbort, EndDrop, EndDelete, EndExit, CleanupLock, CleanupOver, CleanupClose,
       CleanupDelete, history

LEMMA OrderStep ==
  ASSUME IInv, Ordered, [Next]_bulkVars
  PROVE  Ordered'
<1>1. /\ bulk \in Transfers /\ queue \in Seq(Messages) /\ worker \in Workers
      /\ uart \in UartThreads /\ taken \in Contents
      /\ Phase /\ InOrder
  BY DEF IInv, TypeOK, Safe, Control, Ordered
<1>2. IInv'
  BY TypeStep, SafeStep DEF IInv, Safe
<1>3. worker'.pc # "write" => worker'.chunk = <<>>
  <2>1. worker' = worker \/ worker'.pc = "write" \/ worker' \in {Dead, Waiting}
    BY DEF AtFs, bulkVars, Next, Call, Reply, Internal, Running, Worker, Workqueue, StartLock, Lock,
       StartBusy, Start, StartDelete, StartCreate, StartOpenFailed, StartOpen, SendLock,
       SendRefused, SendChecked, SendPut, SendCount, SendFull, EndLock, EndRefused, EndChecked,
       EndFinalize, EndPut, EndPutTimeout, EndWait, EndWaitTimeout, EndJudge, EndSync, EndClose,
       EndCatalog, EndFail, EndAbort, EndKill, EndDrop, EndDelete, EndExit, WorkerTimeout,
       WorkerEnd, WorkerTake, WorkerWrite, WorkerWriteFails, Signal, CleanupLock, CleanupOver,
       CleanupClose, CleanupDelete, ToDefault, PowerCut, Writing
  <2> QED
    BY <2>1 DEF Ordered, Dead, Waiting
<1>4. uart'.pc \in Preparing => taken' = <<>>
  <2>1. CASE SendPut \/ PowerCut
    BY <1>1, <2>1, GotoMoves DEF SendPut, PowerCut, Preparing, UartPcs
  <2>2. CASE Start
    BY <2>2 DEF Start
  <2>3. CASE ~ (SendPut \/ PowerCut \/ Start)
    <3>1. taken' = taken
      BY <2>3 DEF AtFs, bulkVars, Next, Call, Reply, Internal, Running, Worker, Workqueue,
       StartLock, Lock, StartBusy, StartDelete, StartCreate, StartOpenFailed, StartOpen, SendLock,
       SendRefused, SendChecked, SendCount, SendFull, EndLock, EndRefused, EndChecked,
       EndFinalize, EndPut, EndPutTimeout, EndWait, EndWaitTimeout, EndJudge, EndSync, EndClose,
       EndCatalog, EndFail, EndAbort, EndKill, EndDrop, EndDelete, EndExit, WorkerTimeout,
       WorkerEnd, WorkerTake, WorkerWrite, WorkerWriteFails, CleanupLock, CleanupOver,
       CleanupClose, CleanupDelete, history
    <3>2. uart'.pc \in Preparing => uart.pc \in Preparing
      BY <1>1, <2>3, PreparingGoesOn
    <3> QED
      BY <3>1, <3>2 DEF Ordered
  <2> QED
    BY <2>1, <2>2, <2>3
<1>5. SUFFICES ASSUME bulk'.state # "Idle", bulk'.error = "None"
               PROVE  /\ Consists(taken', bulk'.running \o worker'.chunk, queue')
                      /\ handle' \in {bulk'.running, Closed}
  BY <1>3, <1>4 DEF Ordered, InOrder
<1>6. handle' \in {bulk'.running, Closed}
  BY <1>2, <1>5 DEF IInv, Safe, DataPlaced
<1>7. CASE StartOpen
  <2>1. taken' = <<>> /\ queue' = <<>> /\ bulk'.running = <<>> /\ worker'.chunk = <<>>
    BY <1>1, <1>7 DEF AtFs, StartOpen, At, Ordered, Preparing, history, Waiting, Transfers
  <2>2. <<>> \o <<>> = <<>>
    OBVIOUS
  <2> QED
    BY <1>6, <2>1, <2>2, ConsistsEmpty
<1>8. CASE ~ StartOpen
  <2>1. bulk.state # "Idle" /\ (bulk'.running = bulk.running \/ WorkerWrite)
    BY <1>5, <1>8, TransferGoesOn
  <2>2. bulk.error = "None"
    BY <1>5, ErrorStep DEF IInv, ErrorKept
  <2> DEFINE b == bulk.running \o worker.chunk
  <2>3. /\ bulk.running \in Contents /\ worker.chunk \in Contents /\ b \in Contents
        /\ Consists(taken, b, queue)
    BY <1>1, <2>1, <2>2, ContentOps DEF InOrder, Transfers, Workers
  <2>4. \A c \in Contents : c \o <<>> = c
    BY DEF Contents
  <2>5. CASE SendPut
    <3>1. uart.call.chunk \in Chunks
      BY <1>1, <2>5, CallFields DEF IInv, Safe, Control, CallServed, SendPut, At, UartThreads
    <3>2. DataMsg(uart.call.chunk) \in Messages /\ DataMsg(uart.call.chunk).chunk = uart.call.chunk
      BY <3>1, NewMessages DEF DataMsg
    <3>3. /\ taken' = taken \o uart.call.chunk /\ queue' = Append(queue, DataMsg(uart.call.chunk))
          /\ bulk'.running \o worker'.chunk = b
      BY <2>5 DEF SendPut
    <3> QED
      BY <1>1, <1>6, <2>3, <3>2, <3>3, ConsistsAppend
  <2>6. CASE EndPut
    <3>1. EndMsg \in Messages /\ EndMsg.chunk = <<>>
      BY NewMessages DEF EndMsg
    <3>2. /\ taken' = taken \o <<>> /\ queue' = Append(queue, EndMsg)
          /\ bulk'.running \o worker'.chunk = b
      BY <1>1, <2>4, <2>6 DEF EndPut, history
    <3> QED
      BY <1>1, <1>6, <2>3, <3>1, <3>2, ConsistsAppend
  <2>7. CASE WorkerTake \/ WorkerEnd
    <3>1. queue # <<>> /\ queue' = Tail(queue) /\ taken' = taken /\ worker.chunk = <<>>
      BY <2>7 DEF WorkerTake, WorkerEnd, history, Ordered
    <3>2. worker'.chunk = Head(queue).chunk
      <4>1. CASE WorkerTake
        <5>1. ~ Signal(Fails("QueueError"), TRUE)
          BY <1>1, <1>5, SignalNotes DEF Errors
        <5>2. worker' = Writing(Head(queue).chunk)
          BY <4>1, <5>1, Zenon DEF WorkerTake
        <5> QED
          BY <5>2 DEF Writing
      <4>2. CASE WorkerEnd
        <5>1. Head(queue) \in Messages /\ Head(queue).type = "End"
          BY <1>1, <3>1, <4>2, QueueOps DEF WorkerEnd
        <5>2. Head(queue).chunk = <<>>
          BY <5>1 DEF Messages, EndMsg
        <5> QED
          BY <4>2, <5>2 DEF WorkerEnd, Signal, Dead
      <4> QED
        BY <2>7, <4>1, <4>2
    <3>3. ~ WorkerWrite /\ b = bulk.running
      BY <2>3, <2>4, <2>7, <3>1 DEF WorkerTake, WorkerEnd, WorkerWrite
    <3>4. bulk'.running \o worker'.chunk = b \o Head(queue).chunk
      BY <2>1, <3>2, <3>3
    <3> QED
      BY <1>1, <1>6, <2>3, <3>1, <3>4, ConsistsTake
  <2>8. CASE WorkerWrite
    <3>1. /\ bulk'.running = b /\ worker'.chunk = <<>> /\ UNCHANGED <<queue, taken>>
      BY <1>1, <2>8 DEF WorkerWrite, Waiting, history, Transfers
    <3>2. bulk'.running \o worker'.chunk = b
      BY <2>3, <2>4, <3>1
    <3> QED
      BY <1>6, <2>3, <3>1, <3>2
  <2>9. ~ EndKill
    BY <1>1, <2>2 DEF EndKill, At, Phase, Failing
  <2>10. ~ WorkerTimeout /\ ~ WorkerWriteFails
    BY <1>1, <1>5, SignalNotes DEF WorkerTimeout, WorkerWriteFails, Errors
  <2>11. CASE ~ Moving
    <3>1. ~ ToDefault /\ ~ PowerCut
      BY <1>5 DEF ToDefault, PowerCut, Fresh
    <3>2. UNCHANGED <<queue, worker, taken>>
      BY <2>11, <3>1, DataStays
    <3>3. bulk'.running = bulk.running
      BY <2>1, <2>11 DEF Moving
    <3> QED
      BY <1>6, <2>3, <3>2, <3>3
  <2> QED
    BY <1>8, <2>5, <2>6, <2>7, <2>8, <2>9, <2>10, <2>11 DEF Moving
<1> QED
  BY <1>7, <1>8

-----------------------------------------------------------------------------
(* The locks below the file system. *)

\* They are lost only by the abort in END, which is then at the operation that waits for them;
\* END has noted by then that it did not wait for the worker.
LocksKept ==
  /\ orphaned => StuckInEnd /\ bulk.bFileOpen
  /\ uart.pc \in {"endFail", "endAbort", "endKill"} /\ worker # Dead =>
       bulk.error \in {"TimeOut", "QueueError"}

\* END in that place is the only thread that could move, and does not.
LEMMA StuckForGood ==
  ASSUME IInv, LocksKept, orphaned, Next, ~PowerCut
  PROVE  FALSE
<1>1. /\ uart.pc = "endDrop" /\ owner = "uart" /\ bulk.bFileOpen
      /\ worker = Dead /\ wq # "delete"
  BY BulkConstantsAssumption
     DEF LocksKept, StuckInEnd, IInv, Safe, Control, Phase, Alone, MutexHeld
<1>2. ~Worker /\ ~Workqueue
  BY <1>1, BulkConstantsAssumption
     DEF Worker, WorkerTimeout, WorkerEnd, WorkerTake, WorkerWrite, WorkerWriteFails, Dead,
         Workqueue, CleanupLock, CleanupOver, CleanupClose, CleanupDelete
<1>3. ~Running
  BY <1>1 DEF Running, At, AtFs, Lock, StartLock, StartBusy, Start, StartDelete, StartCreate,
     StartOpenFailed, StartOpen, SendLock, SendRefused, SendChecked, SendPut, SendCount, SendFull,
     EndLock, EndRefused, EndChecked, EndFinalize, EndPut, EndPutTimeout, EndWait, EndWaitTimeout,
     EndJudge, EndSync, EndClose, EndCatalog, EndFail, EndAbort, EndKill, EndDrop, EndDelete,
     EndExit
<1>4. ~Reply /\ \A c \in Calls : ~Call(c)
  BY <1>1 DEF Reply, Call, At
<1> QED
  BY <1>2, <1>3, <1>4 DEF Next, Internal

LEMMA LocksStep ==
  ASSUME IInv, LocksKept, [Next]_bulkVars
  PROVE  LocksKept'
<1>1. CASE UNCHANGED bulkVars
  BY <1>1 DEF bulkVars, LocksKept, StuckInEnd
<1>2. CASE PowerCut
  BY <1>2 DEF PowerCut, LocksKept, Dead
<1>3. CASE Next /\ ~PowerCut
  <2>1. ~orphaned
    BY <1>3, StuckForGood
  <2>2. uart \in UartThreads /\ bulk \in Transfers
    BY DEF IInv, TypeOK
  <2>3. CASE EndKill
    <3>1. uart'.pc = "endDrop" /\ uart.pc = "endKill" /\ owner' = owner
      BY <2>2, <2>3, GotoMoves DEF EndKill, At, UartPcs
    <3>2. bulk'.error = bulk.error /\ bulk'.bFileOpen = bulk.bFileOpen
      BY <2>2, <2>3 DEF EndKill, Transfers
    <3>3. CASE worker.pc = "write"
      BY <2>1, <2>3, <3>1, <3>2, <3>3
         DEF EndKill, LocksKept, StuckInEnd, IInv, Safe, Control, WorkerBelongs, Flags,
             MutexHeld, Critical, Ending, EndingOpen, Dead
    <3>4. CASE worker.pc # "write"
      BY <2>1, <2>3, <3>1, <3>4 DEF EndKill, LocksKept
    <3> QED
      BY <3>3, <3>4
  <2>4. CASE EndPutTimeout \/ EndWaitTimeout
    <3>1. orphaned' = orphaned /\ bulk'.error \in {"TimeOut", "QueueError"}
      BY <2>2, <2>4 DEF EndPutTimeout, EndWaitTimeout, Transfers, fs
    <3> QED
      BY <2>1, <3>1 DEF LocksKept
  <2>5. CASE EndJudge \/ EndSync
    <3>1. /\ orphaned' = orphaned /\ worker' = worker
          /\ uart.pc \in {"endJudge", "endSync"}
      BY <2>5 DEF EndJudge, EndSync, At, AtFs, fs
    <3>2. worker = Dead
      BY <3>1 DEF IInv, Safe, Control, Phase, Alone
    <3> QED
      BY <2>1, <3>1, <3>2 DEF LocksKept
  <2>6. CASE EndFail \/ EndAbort
    <3>1. /\ orphaned' = orphaned /\ bulk'.error = bulk.error /\ worker' = worker
          /\ uart.pc \in {"endFail", "endAbort"}
      BY <2>2, <2>6 DEF EndFail, EndAbort, At, Transfers, fs
    <3> QED
      BY <2>1, <3>1 DEF LocksKept
  <2>7. CASE Worker
    <3>1. orphaned' = orphaned /\ uart' = uart
      BY <2>7 DEF Worker, WorkerTimeout, WorkerEnd, WorkerTake, WorkerWrite, WorkerWriteFails, fs
    <3>2. worker # Dead
      <4>1. worker.pc \in {"get", "write"}
        BY <2>7 DEF Worker, WorkerTimeout, WorkerEnd, WorkerTake, WorkerWrite, WorkerWriteFails
      <4> QED
        BY <4>1 DEF Dead
    <3>3. worker' = Dead \/ bulk'.error = bulk.error
      <4>1. CASE WorkerWrite
        BY <2>2, <4>1 DEF WorkerWrite, Transfers
      <4>2. CASE WorkerTimeout \/ WorkerEnd \/ WorkerWriteFails
        BY <4>2 DEF WorkerTimeout, WorkerEnd, WorkerWriteFails, Signal
      <4>3. CASE WorkerTake
        BY <4>3 DEF WorkerTake, Signal
      <4> QED
        BY <2>7, <4>1, <4>2, <4>3 DEF Worker
    <3> QED
      BY <2>1, <3>1, <3>2, <3>3 DEF LocksKept
  <2>8. CASE ~ (EndKill \/ EndPutTimeout \/ EndWaitTimeout \/ EndJudge \/ EndSync \/ EndFail
                \/ EndAbort \/ Worker)
    <3>1. orphaned' = orphaned
      BY <1>3, <2>8
         DEF Next, Call, Reply, Internal, Running, Workqueue, Lock, StartLock, StartBusy, Start,
             StartDelete, StartCreate, StartOpenFailed, StartOpen, SendLock, SendRefused,
             SendChecked, SendPut, SendCount, SendFull, EndLock, EndRefused, EndChecked,
             EndFinalize, EndPut, EndWait, EndClose, EndCatalog, EndDrop, EndDelete, EndExit,
             CleanupLock, CleanupOver, CleanupClose, CleanupDelete, fs
    <3>2. uart'.pc \notin {"endFail", "endAbort", "endKill"}
      <4>1. CASE Workqueue
        <5>1. uart' = uart /\ owner # "uart"
          BY <4>1, BulkConstantsAssumption
             DEF Workqueue, CleanupLock, CleanupOver, CleanupClose, CleanupDelete, IInv, Safe,
                 Control, MutexHeld
        <5> QED
          BY <5>1 DEF IInv, Safe, Control, MutexHeld, Critical, Ending, EndingOpen
      <4>2. CASE Reply \/ \E c \in Calls : Call(c)
        BY <2>2, <4>2, Moved DEF Reply, Call
      <4>3. CASE StartLock \/ SendLock \/ EndLock
        BY <2>2, <4>3, Moved, Returned DEF StartLock, SendLock, EndLock, Lock
      <4>4. CASE StartBusy \/ SendRefused \/ SendFull \/ EndRefused \/ StartOpenFailed
                 \/ StartOpen \/ SendCount \/ EndExit
        BY <2>2, <4>4, Returned
           DEF StartBusy, SendRefused, SendFull, EndRefused, StartOpenFailed, StartOpen, SendCount,
               EndExit
      <4>5. CASE Start \/ SendChecked \/ SendPut \/ EndChecked \/ EndFinalize \/ EndPut
                 \/ EndWait \/ EndCatalog \/ EndDrop \/ EndDelete
        BY <2>2, <4>5, Moved
           DEF Start, SendChecked, SendPut, EndChecked, EndFinalize, EndPut, EndWait, EndCatalog,
               EndDrop, EndDelete
      <4>6. CASE StartDelete \/ StartCreate \/ EndClose
        BY <2>2, <4>6, Moved, Returned DEF StartDelete, StartCreate, EndClose
      <4> QED
        BY <1>3, <2>8, <4>1, <4>2, <4>3, <4>4, <4>5, <4>6 DEF Next, Internal, Running
    <3> QED
      BY <2>1, <3>1, <3>2 DEF LocksKept
  <2> QED
    BY <2>3, <2>4, <2>5, <2>6, <2>7, <2>8
<1> QED
  BY <1>1, <1>2, <1>3

-----------------------------------------------------------------------------
(* The theorems. *)

\* Power-on satisfies the invariant.
LEMMA InitHolds == Init => IInv
<1> SUFFICES ASSUME Init PROVE IInv
  OBVIOUS
<1>1. bulk \in Transfers /\ worker \in Workers
  BY FreshTransfer DEF Init
<1>2. queue \in Seq(Messages) /\ Len(queue) <= Depth
  BY EmptySeq, BulkConstantsAssumption DEF Init
<1>3. uart \in UartThreads
  BY DEF Init, UartThreads, UartPcs, Results, Calls
<1>4. TypeOK
  BY <1>1, <1>2, <1>3, ContentTypes DEF Init, TypeOK
<1>5. Control
  BY BulkConstantsAssumption DEF Init, Control, MutexHeld, CallServed, Phase, Flags,
     LeftClean, WorkerBelongs, Fresh, Dead, Critical, Preparing, Ending, EndingOpen,
     Alone, Failing
<1>6. DataPlaced /\ AcknowledgedIsStored
  BY DEF Init, DataPlaced, AcknowledgedIsStored, Fresh
<1> QED
  BY <1>4, <1>5, <1>6 DEF IInv, Safe

\* The invariant holds in every behaviour.
THEOREM Invariant == Spec => []IInv
<1>1. IInv /\ [Next]_bulkVars => IInv'
  BY TypeStep, SafeStep DEF IInv, Safe
<1> QED
  BY InitHolds, <1>1, PTL DEF Spec

\* The record, the queue and the threads stay in their domains; the queue stays
\* within its depth.
THEOREM BulkTypeCorrect == Spec => []TypeOK
<1>1. IInv => TypeOK
  BY DEF IInv, Safe
<1> QED
  BY Invariant, <1>1, PTL

\* What END acknowledged is on the flash, and stays until the next START.
THEOREM AcknowledgedSafe == Spec => []AcknowledgedIsStored
<1>1. IInv => AcknowledgedIsStored
  BY DEF IInv, Safe
<1> QED
  BY Invariant, <1>1, PTL

\* A worker is alive only with its transfer, its file and no cleanup under way.
THEOREM WorkerOwned == Spec => []WorkerBelongs
<1>1. IInv => WorkerBelongs
  BY DEF IInv, Safe, Control
<1> QED
  BY Invariant, <1>1, PTL

\* A transfer that is over leaves no worker, message, signal or open file.
THEOREM CleanAfter == Spec => []LeftClean
<1>1. IInv => LeftClean
  BY DEF IInv, Safe, Control
<1> QED
  BY Invariant, <1>1, PTL

\* An error that was noted stays until the transfer is over.
THEOREM ErrorNotForgotten == Spec => ErrorSticks
<1>1. IInv /\ [Next]_bulkVars => [ErrorKept]_bulk
  BY ErrorStep DEF IInv, Safe
<1> QED
  BY Invariant, <1>1, PTL DEF Spec, ErrorSticks, ErrorKept

\* As long as a transfer has no error, what was accepted is written, being written and queued
\* in the order it was sent, nothing twice and nothing left out.
THEOREM DataInOrder == Spec => []InOrder
<1>1. IInv /\ Ordered /\ [Next]_bulkVars => Ordered'
  BY OrderStep
<1>2. Ordered => InOrder
  BY DEF Ordered
<1> QED
  BY Invariant, InitOrdered, <1>1, <1>2, PTL DEF Spec

\* The locks below the file system are lost in one place only, where END aborts a worker it has
\* not waited for long enough, inside its write: no START, no cleanup and no END of a transfer
\* whose worker is over ever waits for them (257-297; ZephyrFlashMiddleWare.c:185-191).
THEOREM LocksLostOnlyInEnd == Spec => [](orphaned => StuckInEnd)
<1>1. Init => LocksKept
  BY DEF Init, LocksKept, Dead
<1>2. IInv /\ LocksKept /\ [Next]_bulkVars => LocksKept'
  BY LocksStep
<1>3. LocksKept => (orphaned => StuckInEnd)
  BY DEF LocksKept
<1> QED
  BY Invariant, <1>1, <1>2, <1>3, PTL DEF Spec

\* If the file system does not fail and the power stays, the path never shows part
\* of a transfer once the transfer is over.
THEOREM AllOrNothing ==
  ASSUME ~FsFails, ~PowerCuts
  PROVE  Spec => []NothingHalfWritten
<1>1. Init => NothingPartial
  BY DEF Init, NothingPartial, Fresh
<1>2. CInv /\ [Next]_bulkVars => CInv'
  BY CleanStep, TypeStep, SafeStep DEF CInv, IInv, Safe
<1>3. CInv => NothingHalfWritten
  BY BulkConstantsAssumption DEF CInv, IInv, Safe, Control, MutexHeld, NothingPartial,
     NothingHalfWritten, AtRest,
     Critical, Preparing
<1> QED
  BY InitHolds, <1>1, <1>2, <1>3, PTL DEF Spec, CInv
=============================================================================
