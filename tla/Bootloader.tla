----------------------------- MODULE Bootloader -----------------------------
(***************************************************************************)
(* The firmware-update session of Bootloader_Ctrl.c: the packets of a new   *)
(* image are received over CAN, written to the secondary slot, recovered    *)
(* when they were lost, checked against the announced CRC, and only then    *)
(* MCUboot is asked to swap the image in.                                   *)
(*                                                                          *)
(* Two threads run this code: "btl", the CAN bootloader thread, which takes *)
(* one host message at a time, and "wq", the system workqueue, which runs   *)
(* the two timeout handlers.  The workqueue is cooperative and of higher    *)
(* priority: once a timeout is due it runs until it has finished or blocks  *)
(* on the session mutex, so "btl" moves only while "wq" has nothing to do   *)
(* or waits for the mutex "btl" holds (MayRun).                             *)
(*                                                                          *)
(* Bytes of a packet that lie inside the image are one datum.  The CRC is   *)
(* idealised as the sequence of data it was fed: equal CRCs are equal       *)
(* images.                                                                  *)
(***************************************************************************)
EXTENDS Integers, Sequences, FiniteSets

CONSTANTS Payload,   \* DATA_PAYLOAD_PER_ONE_IMAGE_FRAME
          Block,     \* FW_IMG_WRITE_BYTE_LENGTH
          Avail,     \* bytes of the slot behind FW_IMAGE_SECONDARY_SLOT_WRITE_OFFSET
          MaxLost,   \* MAX_NUMBER_OF_ALLOWABLE_LOST_PACKETs
          RetryMax,  \* BOOTLOADER_TX_Retry_MAX_COUNT
          IdMod,     \* packet identifiers are uint16_t
          SeqMod,    \* uiFrameSeq is uint8_t
          Sizes,     \* image sizes a host announces, some of them unacceptable
          Data,      \* contents of a packet
          Images,    \* images (sequences of data) whose CRC a host announces
          Erased,    \* an erased flash cell
          Scrap,     \* a flash cell of unknown content
          None       \* no thread, no stored frame, no announced image

ASSUME ConstantsAssumption ==
  /\ {Payload, Block, Avail, RetryMax, IdMod, SeqMod} \subseteq Nat \ {0}
  /\ MaxLost \in Nat
  /\ Sizes \subseteq Nat
  /\ Images \subseteq Seq(Data)
  /\ {Erased, Scrap} \cap Data = {}
  /\ Erased # Scrap
  /\ None \notin {"btl", "wq"} \cup Nat \cup Images \cup {<<>>}
  /\ (IdMod - 1) * Payload > Avail

-----------------------------------------------------------------------------
PacketsOf(size) == (size + Payload - 1) \div Payload
Cells == 0 .. PacketsOf(Avail) - 1
Ids   == 0 .. IdMod - 1

\* How many bytes of packet id lie inside an image of this size.
BytesOf(id, size) ==
  IF id * Payload >= size THEN 0
  ELSE IF (id + 1) * Payload <= size THEN Payload ELSE size - id * Payload

\* A 16-byte block of the packet would leave the slot.
OutOfSlot(id, size) ==
  \/ id * Payload > Avail
  \/ \E o \in {id * Payload + k * Block : k \in 0 .. (Payload \div Block) - 1} :
        o < size /\ o + Block > Avail

Host ==
       [cmd : {"FWUpReq"}, size : Sizes, crc : Images]
  \cup [cmd : {"FWUpMsg"}, id : Ids, data : Data]
  \cup [cmd : {"RetLostPacketInfo"}, ack : BOOLEAN, seq : 0 .. SeqMod - 1]
  \cup [cmd : {"FWUpEnd", "FWUpPause", "FWUpStop", "GetLostPacketInfo",
               "RecoverFromError"}]

Quiet == [cmd |-> "None"]

Threads == {"btl", "wq"}

\* The points at which a thread waits for kMutex_BootloaderSession.
SessionPcs == {"packet", "end", "abort", "start", "setReboot", "armReboot",
               "reinit", "schedule", "txError", "stateTimeout"}

BtlPcs == {"idle", "dispatch", "newImage", "erasing", "getLost", "hostAck",
           "retry", "cancel", "completed", "upgrade", "reboot", "reply",
           "fault"} \cup (SessionPcs \ {"stateTimeout"})

WqPcs == {"idle", "stateTimeout", "txTimeout", "retry", "txError", "abort",
          "cancel", "cancelTx", "schedule", "reboot"}

NoImage == [size |-> 0, crc |-> <<>>, nextId |-> 0, lastId |-> 0,
            received |-> 0, digest |-> <<>>, lostState |-> FALSE,
            firstLost |-> 0, lost |-> {}, handled |-> {}, recovered |-> 0]

NoTx == [state |-> "Idle", seq |-> 0, retry |-> 0, frame |-> None]

Unarmed == [armed |-> FALSE, passed |-> FALSE, delayed |-> FALSE, queued |-> FALSE]

NoWork == [delayed |-> FALSE, queued |-> FALSE]

VARIABLES
  eBtlState,   \* stTBtlMgmt_t.eBtlState
  img,         \* announced size and CRC, and stTFWImgCtrl_t
  flashOpen,   \* flashArea # NULL
  tx,          \* stTxLostPacketInfo; frame: sequence number of the stored frame
  timer,       \* state timeout: armed flag, deadline passed, its work item
  txWork,      \* stBtlTxTimeOut_Work_t
  owner,       \* holder of kMutex_BootloaderSession
  pc,          \* where each thread is
  msg,         \* the host message the bootloader thread is serving
  ok,          \* its bIsMsgOk
  flash,       \* the image area of the secondary slot, one cell per packet
  requested    \* MCUboot's upgrade request in the slot trailer

session == <<eBtlState, img, flashOpen>>
vars == <<eBtlState, img, flashOpen, tx, timer, txWork, owner, pc, msg, ok,
          flash, requested>>

\* bInit_BootloaderController; the slot holds whatever was there before.
Init ==
  /\ eBtlState = "Idle" /\ img = NoImage /\ flashOpen = FALSE
  /\ tx = NoTx /\ timer = Unarmed /\ txWork = NoWork
  /\ owner = None /\ pc = [t \in Threads |-> "idle"]
  /\ msg = Quiet /\ ok = TRUE
  /\ flash = [c \in Cells |-> Scrap]
  /\ requested = FALSE

-----------------------------------------------------------------------------
Goto(t, label) == pc' = [pc EXCEPT ![t] = label]

\* Seeded fault: an early return that keeps the mutex.
UnlockForgotten(t, label) == Goto(t, label) /\ UNCHANGED owner

\* Leaving a session critical section.
Unlock(t, label) == Goto(t, label) /\ owner' = None

\* Where a thread goes when it has no more to do for its message or timeout.
Finish(t) == IF t = "btl" THEN "reply" ELSE "idle"

Alive == pc["btl"] # "fault"

MayRun(t) ==
  /\ Alive
  /\ t = "btl" =>
       \/ pc["wq"] = "idle" /\ ~timer.queued /\ ~txWork.queued
       \/ pc["wq"] \in SessionPcs /\ owner = "btl"

At(t, label) == pc[t] = label /\ MayRun(t) /\ owner # t
Holding(t, label) == pc[t] = label /\ MayRun(t) /\ owner = t

Lock(t) ==
  /\ pc[t] \in SessionPcs /\ MayRun(t) /\ owner = None
  /\ owner' = t
  /\ UNCHANGED <<session, tx, timer, txWork, pc, msg, ok, flash, requested>>

\* Seeded fault: the deadline is set and its work item is not scheduled.
RefreshedWithoutWork(w) == [w EXCEPT !.armed = TRUE, !.passed = FALSE]
\* Seeded fault: the retry timer is not started again.
NotRescheduled(w) == w

\* vRefresh_BootloaderStateTimeOut_Locked
Refreshed(w) == [w EXCEPT !.armed = TRUE, !.passed = FALSE, !.delayed = TRUE]
\* vInvalidate_BootloaderStateTimeOut_Locked
Disarmed(w) == [w EXCEPT !.armed = FALSE, !.passed = FALSE]
\* k_work_cancel_delayable
Cancelled(w) == [w EXCEPT !.delayed = FALSE, !.queued = FALSE]
\* The deadline of an armed timeout is past.
Late(w) == [w EXCEPT !.passed = w.armed]
\* The delay of a work item is over, and the workqueue takes it.
Expired(w) == [w EXCEPT !.delayed = FALSE, !.queued = TRUE]
Taken(w) == [w EXCEPT !.queued = FALSE]
\* k_work_reschedule
Rescheduled(w) == [w EXCEPT !.delayed = TRUE]

\* Seeded fault: the state the dispatch read is trusted under the mutex.
StateNotReread == TRUE

\* What vUpdate_FWImage and vFinalize_FWImageWrite ask again under the mutex: a
\* timeout may have aborted the session since the dispatch read the state.
StillReceiving == eBtlState = "InProg"

\* vAbort_BootloaderSession_Locked
AbortLocked ==
  /\ eBtlState' = "Error" /\ img' = NoImage /\ flashOpen' = FALSE
  /\ tx' = NoTx
  /\ timer' = Disarmed(timer)

-----------------------------------------------------------------------------
(* The bootloader thread: dispatch and the commands outside a session. *)

\* A message is taken from the CAN queue: the host may send anything.
Receive(m) ==
  /\ At("btl", "idle")
  /\ Goto("btl", IF m.cmd = "RetLostPacketInfo" THEN "hostAck" ELSE "dispatch")
  /\ msg' = m
  /\ ok' = TRUE
  /\ UNCHANGED <<session, tx, timer, txWork, owner, flash, requested>>

\* Where vUpdateBootloader sends a command, by the state it read.
Handler(state, cmd) ==
  CASE state = "Idle" /\ cmd = "FWUpReq" -> "newImage"
    [] state = "InProg" /\ cmd = "FWUpMsg" -> "packet"
    [] state = "InProg" /\ cmd = "FWUpEnd" -> "end"
    [] state = "InProg" /\ cmd = "FWUpStop" -> "abort"
    [] state = "InProg" /\ cmd = "GetLostPacketInfo" -> "getLost"
    [] state = "Completed" /\ cmd = "FWUpEnd" -> "upgrade"
    [] state = "Error" /\ cmd = "RecoverFromError" -> "reinit"
    [] state = "Reboot" -> "reboot"
    [] OTHER -> "reply"

\* The state is read under the session mutex and acted on after its release.  The
\* Completed state ignores a command it does not know, the others refuse it.
Dispatch ==
  /\ At("btl", "dispatch")
  /\ Goto("btl", Handler(eBtlState, msg.cmd))
  /\ ok' = (Handler(eBtlState, msg.cmd) # "reply" \/ eBtlState = "Completed")
  /\ UNCHANGED <<session, tx, timer, txWork, owner, msg, flash, requested>>

Resized(i, size) == [i EXCEPT !.size = size]
Announced(size, crc) == [NoImage EXCEPT !.size = size, !.crc = crc]

\* vInit_BootloaderManager_ForNewFWImage: the size is kept even when refused.
NewImageRefused ==
  /\ At("btl", "newImage")
  /\ msg.size = 0 \/ msg.size > Avail
  /\ img' = Resized(img, msg.size)
  /\ ok' = FALSE
  /\ Goto("btl", "reply")
  /\ UNCHANGED <<eBtlState, flashOpen, tx, timer, txWork, owner, msg, flash, requested>>

\* The session is set up, and the erase of the slot starts or cannot open it.
NewImage ==
  /\ At("btl", "newImage")
  /\ msg.size \in 1 .. Avail
  /\ img' = Announced(msg.size, msg.crc)
  /\ \/ /\ Goto("btl", "erasing")
        /\ flash' = [c \in Cells |-> Scrap]
        /\ flashOpen' = TRUE
        /\ UNCHANGED <<ok, requested>>
     \/ /\ Goto("btl", "reply")
        /\ ok' = FALSE
        /\ UNCHANGED <<flash, flashOpen, requested>>
  /\ UNCHANGED <<eBtlState, tx, timer, txWork, owner, msg>>

\* vErase_FlashArea returns.
Erase ==
  /\ At("btl", "erasing")
  /\ flashOpen' = FALSE
  /\ \/ /\ flash' = [c \in Cells |-> Erased]
        /\ requested' = FALSE
        /\ Goto("btl", "start")
        /\ UNCHANGED ok
     \/ /\ ok' = FALSE
        /\ Goto("btl", "reply")
        /\ UNCHANGED <<flash, requested>>
  /\ UNCHANGED <<eBtlState, img, tx, timer, txWork, owner, msg>>

\* vSet_BootloaderState(FWImgWrite_InProg)
Start ==
  /\ Holding("btl", "start")
  /\ eBtlState' = "InProg"
  /\ timer' = Refreshed(timer)
  /\ Unlock("btl", "reply")
  /\ UNCHANGED <<img, flashOpen, tx, txWork, msg, ok, flash, requested>>

\* vReinit_BootloaderStateMachine
Reinit ==
  /\ Holding("btl", "reinit")
  /\ eBtlState' = "Idle" /\ img' = NoImage /\ flashOpen' = FALSE
  /\ tx' = NoTx
  /\ timer' = Disarmed(timer)
  /\ Unlock("btl", "cancel")
  /\ UNCHANGED <<txWork, msg, ok, flash, requested>>

\* vAbort_BootloaderSession
Abort(t) ==
  /\ Holding(t, "abort")
  /\ AbortLocked
  /\ Unlock(t, "cancel")
  /\ UNCHANGED <<txWork, msg, ok, flash, requested>>

\* Both timeouts are cancelled after the mutex was released.
CancelWork(t) ==
  /\ At(t, "cancel")
  /\ timer' = Cancelled(timer)
  /\ txWork' = Cancelled(txWork)
  /\ Goto(t, Finish(t))
  /\ UNCHANGED <<session, tx, owner, msg, ok, flash, requested>>

\* The answer of vProcess_Bootloader_Messages; the thread waits for the next message.
Reply ==
  /\ At("btl", "reply")
  /\ Goto("btl", "idle")
  /\ msg' = Quiet /\ ok' = TRUE
  /\ UNCHANGED <<session, tx, timer, txWork, owner, flash, requested>>

-----------------------------------------------------------------------------
(* vUpdate_FWImage and the bookkeeping of lost packets. *)

Pending(i) == i.lost \ i.handled

\* Seeded fault: the gap starts one packet late.
NoteGapShort(i, id) ==
  [i EXCEPT !.lost = @ \cup (i.nextId + 1 .. id - 1),
            !.firstLost = IF i.lostState THEN @ ELSE i.nextId,
            !.lostState = TRUE,
            !.nextId = id]

\* bCanHandleMissingPackets: identifiers nextId .. id-1 are missing.
GapFits(i, id) == Cardinality(i.lost) + (id - i.nextId) <= MaxLost
NoteGap(i, id) ==
  [i EXCEPT !.lost = @ \cup (i.nextId .. id - 1),
            !.firstLost = IF i.lostState THEN @ ELSE i.nextId,
            !.lostState = TRUE,
            !.nextId = id]

\* Seeded fault: an old packet is taken once more although it was recovered.
WelcomeAgain(i, id) == id >= i.nextId \/ id \in i.lost

\* vHandle_PacketId_Mismatch: an older packet is welcome only if it is pending.
Welcome(i, id) == id >= i.nextId \/ id \in Pending(i)

WithGap(i, id) == IF id > i.nextId THEN NoteGap(i, id) ELSE i

\* The packet was written: counters, running CRC and recovery.
Stored(i, id, data) ==
  LET bytes == BytesOf(id, i.size)
      recovers == i.lostState /\ id \in Pending(i)
  IN  [i EXCEPT !.lastId = id,
                !.nextId = IF id >= @ THEN (id + 1) % IdMod ELSE @,
                !.received = @ + bytes,
                !.digest = IF i.lostState \/ bytes = 0 THEN @ ELSE Append(@, data),
                !.handled = IF recovers THEN @ \cup {id} ELSE @,
                !.recovered = IF recovers THEN @ + 1 ELSE @]

\* The very first packet opens the flash area.
FirstPacket(i) == i.lastId = 0 /\ i.nextId = 0

\* flash_area_write is reached.
Writes(i, id) == ~OutOfSlot(id, i.size) /\ BytesOf(id, i.size) > 0

PacketRefused ==
  /\ Holding("btl", "packet")
  /\ ~StillReceiving \/ ~Welcome(img, msg.id)
  /\ ok' = FALSE
  /\ Unlock("btl", "reply")
  /\ UNCHANGED <<session, tx, timer, txWork, msg, flash, requested>>

PacketStored ==
  /\ Holding("btl", "packet")
  /\ StillReceiving /\ Welcome(img, msg.id)
  /\ msg.id > img.nextId => GapFits(img, msg.id)
  /\ ~OutOfSlot(msg.id, img.size)
  /\ flashOpen \/ FirstPacket(img) \/ ~Writes(img, msg.id)
  /\ img' = Stored(WithGap(img, msg.id), msg.id, msg.data)
  /\ flash' = IF Writes(img, msg.id) THEN [flash EXCEPT ![msg.id] = msg.data] ELSE flash
  /\ flashOpen' = (flashOpen \/ FirstPacket(img))
  /\ timer' = Refreshed(timer)
  /\ Unlock("btl", "reply")
  /\ UNCHANGED <<eBtlState, tx, txWork, msg, ok, requested>>

\* Too many packets lost, a packet outside the slot, or a flash call that fails; a
\* failing write, or one of the blocks before it, leaves the cell in an unknown state.
PacketAborts ==
  /\ Holding("btl", "packet")
  /\ StillReceiving /\ Welcome(img, msg.id)
  /\ \/ /\ \/ msg.id > img.nextId /\ ~GapFits(img, msg.id)
           \/ OutOfSlot(msg.id, img.size)
           \/ FirstPacket(img)
        /\ UNCHANGED flash
     \/ /\ BytesOf(msg.id, img.size) > 0
        /\ flashOpen \/ FirstPacket(img)
        /\ msg.id > img.nextId => GapFits(img, msg.id)
        /\ flash' = [flash EXCEPT ![msg.id] = Scrap]
     \/ /\ Writes(img, msg.id)
        /\ ~flashOpen
        /\ UNCHANGED flash
  /\ AbortLocked
  /\ ok' = FALSE
  /\ Unlock("btl", "cancel")
  /\ UNCHANGED <<txWork, msg, requested>>

\* flash_area_write through a NULL flash area: either the garbage it reads makes
\* the bounds check fail (PacketAborts) or the access faults and the MCU halts.
PacketFaults ==
  /\ Holding("btl", "packet")
  /\ StillReceiving /\ Welcome(img, msg.id)
  /\ msg.id > img.nextId => GapFits(img, msg.id)
  /\ Writes(img, msg.id)
  /\ ~flashOpen /\ ~FirstPacket(img)
  /\ Goto("btl", "fault")
  /\ UNCHANGED <<session, tx, timer, txWork, owner, msg, ok, flash, requested>>

-----------------------------------------------------------------------------
(* vFinalize_FWImageWrite, and the upgrade request it leads to. *)

\* The session with the packets missing at the end of the image noted as lost.
AtEnd(i) == WithGap(i, PacketsOf(i.size))

\* vEnter_LostPacketRecovery_Locked: the host must first resend what is pending.
EndPending ==
  /\ Holding("btl", "end")
  /\ StillReceiving
  /\ img.nextId < PacketsOf(img.size) => GapFits(img, PacketsOf(img.size))
  /\ AtEnd(img).lostState /\ Pending(AtEnd(img)) # {}
  /\ img' = AtEnd(img)
  /\ ok' = FALSE
  /\ tx' = NoTx
  /\ timer' = Refreshed(timer)
  /\ Unlock("btl", "reply")
  /\ UNCHANGED <<eBtlState, flashOpen, txWork, msg, flash, requested>>

\* The bytes of the image from the first lost packet on, as read back.
ReadBack(i) ==
  [k \in 1 .. PacketsOf(i.size) - i.firstLost |-> flash[i.firstLost + k - 1]]

\* The running CRC once vValidate_FWImgCRC_FromFLash_AtLostPacketState has run.
FinalDigest(i) == IF i.lostState THEN i.digest \o ReadBack(i) ELSE i.digest

\* Read-back that starts behind the image runs off the slot: no read succeeds.
Readable(i) == i.lostState => i.firstLost * Payload <= i.size

NothingPending ==
  /\ img.nextId < PacketsOf(img.size) => GapFits(img, PacketsOf(img.size))
  /\ AtEnd(img).lostState => Pending(AtEnd(img)) = {}

\* Seeded fault: the byte count alone decides.
CompleteBySize(i) == i.received = i.size

Complete(i) ==
  /\ i.received = i.size
  /\ i.lostState => i.recovered >= Cardinality(i.lost)
  /\ Readable(i)
  /\ FinalDigest(i) = i.crc

Validated(i) == [i EXCEPT !.lostState = FALSE, !.digest = FinalDigest(i)]

EndCompletes ==
  /\ Holding("btl", "end")
  /\ StillReceiving
  /\ NothingPending
  /\ Complete(AtEnd(img))
  /\ eBtlState' = "Completed"
  /\ img' = Validated(AtEnd(img))
  /\ timer' = Disarmed(timer)
  /\ Unlock("btl", "completed")
  /\ UNCHANGED <<flashOpen, tx, txWork, msg, ok, flash, requested>>

\* Too many packets missing, a size or CRC mismatch, or flash that cannot be read.
\* (More packets than a uint16_t counts would abort too: ConstantsAssumption
\* excludes it, as the slot is too small for that.)
EndAborts ==
  /\ Holding("btl", "end")
  /\ StillReceiving
  /\ \/ img.nextId < PacketsOf(img.size) /\ ~GapFits(img, PacketsOf(img.size))
     \/ NothingPending /\ ~Complete(AtEnd(img))
     \/ NothingPending /\ AtEnd(img).lostState
  /\ AbortLocked
  /\ ok' = FALSE
  /\ Unlock("btl", "cancel")
  /\ UNCHANGED <<txWork, msg, flash, requested>>

\* A timeout aborted the session between the dispatch and the mutex.
EndRefused ==
  /\ Holding("btl", "end")
  /\ ~StillReceiving
  /\ ok' = FALSE
  /\ Unlock("btl", "reply")
  /\ UNCHANGED <<session, tx, timer, txWork, msg, flash, requested>>

\* First entry of vExecute_Bootloader_FWImgWrite_Completed.
Completed ==
  /\ At("btl", "completed")
  /\ timer' = Cancelled(Disarmed(timer))
  /\ flashOpen' = FALSE
  /\ Goto("btl", "upgrade")
  /\ UNCHANGED <<eBtlState, img, tx, txWork, owner, msg, ok, flash, requested>>

\* Seeded fault: the failed upgrade request leaves bIsMsgOk as it was.
RequestFailureHidden ==
  /\ At("btl", "upgrade")
  /\ \/ requested' = TRUE /\ ok' = TRUE /\ Goto("btl", "setReboot")
     \/ Goto("btl", "abort") /\ UNCHANGED <<ok, requested>>
  /\ UNCHANGED <<session, tx, timer, txWork, owner, msg, flash>>

\* vRequest_MCUbootImageUpgrade: one of the tries succeeds, or none does.
RequestUpgrade ==
  /\ At("btl", "upgrade")
  /\ \/ requested' = TRUE /\ ok' = TRUE /\ Goto("btl", "setReboot")
     \/ ok' = FALSE /\ Goto("btl", "abort") /\ UNCHANGED requested
  /\ UNCHANGED <<session, tx, timer, txWork, owner, msg, flash>>

\* vSet_BootloaderState(Reboot)
SetReboot ==
  /\ Holding("btl", "setReboot")
  /\ eBtlState' = "Reboot"
  /\ timer' = Cancelled(Disarmed(timer))
  /\ Unlock("btl", "armReboot")
  /\ UNCHANGED <<img, flashOpen, tx, txWork, msg, ok, flash, requested>>

ArmReboot ==
  /\ Holding("btl", "armReboot")
  /\ timer' = Refreshed(timer)
  /\ Unlock("btl", "reply")
  /\ UNCHANGED <<session, tx, txWork, msg, ok, flash, requested>>

-----------------------------------------------------------------------------
(* The lost-packet report to the host and its retransmission. *)

\* The report was queued for transmission; or it was not, which counts as a try.
Reported(x) == [x EXCEPT !.state = "InProgress", !.frame = x.seq,
                         !.seq = (x.seq + 1) % SeqMod]
Unreported(x) == [x EXCEPT !.state = "RetryInProgress", !.frame = x.seq,
                           !.retry = x.retry + 1]
Acknowledged(x) == [x EXCEPT !.state = "Idle", !.retry = 0]
ToRetry(x) == [x EXCEPT !.state = "RetryInProgress"]
Retried(x) == [x EXCEPT !.retry = x.retry + 1]

\* vGet_LostPacketInfo does not look at the session state again.
GetLostBusy ==
  /\ At("btl", "getLost")
  /\ tx.state # "Idle"
  /\ ok' = FALSE
  /\ Goto("btl", "reply")
  /\ UNCHANGED <<session, tx, timer, txWork, owner, msg, flash, requested>>

GetLost ==
  /\ At("btl", "getLost")
  /\ tx.state = "Idle"
  /\ tx' \in {Reported(tx), Unreported(tx)}
  /\ Goto("btl", "schedule")
  /\ UNCHANGED <<session, timer, txWork, owner, msg, ok, flash, requested>>

\* bSchedule_LostPacketTimeouts
Schedule(t) ==
  /\ Holding(t, "schedule")
  /\ IF eBtlState = "InProg" /\ tx.state # "Idle"
       THEN txWork' = Rescheduled(txWork) /\ timer' = Refreshed(timer)
       ELSE UNCHANGED <<txWork, timer>>
  /\ Unlock(t, Finish(t))
  /\ UNCHANGED <<session, tx, msg, ok, flash, requested>>

\* vHandle_LostPacketInfo_TxResponse
HostAck ==
  /\ At("btl", "hostAck")
  /\ LET expected == tx.frame # None /\ tx.state # "Idle" /\ msg.seq = tx.frame
     IN  \/ /\ expected /\ msg.ack
            /\ tx' = Acknowledged(tx)
            /\ txWork' = Cancelled(txWork)
            /\ Goto("btl", "reply")
         \/ /\ expected /\ ~msg.ack
            /\ tx' = ToRetry(tx)
            /\ Goto("btl", "retry")
            /\ UNCHANGED txWork
         \/ /\ ~expected
            /\ Goto("btl", "reply")
            /\ UNCHANGED <<tx, txWork>>
  /\ UNCHANGED <<session, timer, owner, msg, ok, flash, requested>>

\* Seeded fault: one retry too many.
ExhaustedLate == tx.retry > RetryMax
Exhausted == tx.retry >= RetryMax

\* vProcess_Bootloader_RetryTx; whether the frame was queued makes no difference.
RetryTx(t) ==
  /\ At(t, "retry")
  /\ \/ /\ tx.state # "RetryInProgress"
        /\ Goto(t, Finish(t))
        /\ UNCHANGED tx
     \/ /\ tx.state = "RetryInProgress" /\ Exhausted
        /\ Goto(t, "txError")
        /\ UNCHANGED tx
     \/ /\ tx.state = "RetryInProgress" /\ ~Exhausted
        /\ tx' = Retried(tx)
        /\ Goto(t, "schedule")
  /\ UNCHANGED <<session, timer, txWork, owner, msg, ok, flash, requested>>

\* vProcess_Bootloader_TxError reads the state, releases the mutex, then aborts.
TxError(t) ==
  /\ Holding(t, "txError")
  /\ \/ /\ eBtlState = "InProg"
        /\ txWork' = Cancelled(txWork)
        /\ Unlock(t, "abort")
     \/ /\ eBtlState # "InProg"
        /\ Unlock(t, Finish(t))
        /\ UNCHANGED txWork
  /\ UNCHANGED <<session, tx, timer, msg, ok, flash, requested>>

-----------------------------------------------------------------------------
(* Time, and the two handlers of the system workqueue. *)

ExpireState ==
  /\ Alive /\ timer.delayed
  /\ timer' = Late(Expired(timer))
  /\ UNCHANGED <<session, tx, txWork, owner, pc, msg, ok, flash, requested>>

ExpireTx ==
  /\ Alive /\ txWork.delayed
  /\ txWork' = Expired(txWork)
  /\ UNCHANGED <<session, tx, timer, owner, pc, msg, ok, flash, requested>>

RunState ==
  /\ At("wq", "idle") /\ timer.queued
  /\ timer' = Taken(timer)
  /\ Goto("wq", "stateTimeout")
  /\ UNCHANGED <<session, tx, txWork, owner, msg, ok, flash, requested>>

RunTx ==
  /\ At("wq", "idle") /\ txWork.queued
  /\ txWork' = Taken(txWork)
  /\ Goto("wq", "txTimeout")
  /\ UNCHANGED <<session, tx, timer, owner, msg, ok, flash, requested>>

\* vBtlState_TimeOutHandler
StateTimeout ==
  /\ Holding("wq", "stateTimeout")
  /\ \/ /\ ~timer.armed
        /\ Unlock("wq", "idle")
        /\ UNCHANGED <<session, tx, timer>>
     \/ /\ timer.armed /\ ~timer.passed
        /\ timer' = Rescheduled(timer)
        /\ Unlock("wq", "idle")
        /\ UNCHANGED <<session, tx>>
     \/ /\ timer.armed /\ timer.passed
        /\ eBtlState = "Reboot"
        /\ timer' = Disarmed(timer)
        /\ Unlock("wq", "reboot")
        /\ UNCHANGED <<session, tx>>
     \/ /\ timer.armed /\ timer.passed
        /\ eBtlState # "Reboot"
        /\ AbortLocked
        /\ Unlock("wq", "cancelTx")
  /\ UNCHANGED <<txWork, msg, ok, flash, requested>>

CancelTx ==
  /\ At("wq", "cancelTx")
  /\ txWork' = Cancelled(txWork)
  /\ Goto("wq", "idle")
  /\ UNCHANGED <<session, tx, timer, owner, msg, ok, flash, requested>>

\* vBtlTxTimeOutHandler
TxTimeout ==
  /\ At("wq", "txTimeout")
  /\ \/ /\ tx.state = "Idle"
        /\ Goto("wq", "cancelTx")
        /\ UNCHANGED tx
     \/ /\ tx.state # "Idle" /\ Exhausted
        /\ Goto("wq", "txError")
        /\ UNCHANGED tx
     \/ /\ tx.state # "Idle" /\ ~Exhausted
        /\ tx' = ToRetry(tx)
        /\ Goto("wq", "retry")
  /\ UNCHANGED <<session, timer, txWork, owner, msg, ok, flash, requested>>

-----------------------------------------------------------------------------
(* A reset, asked for or not: RAM is lost and, if MCUboot was asked to, it    *)
(* swaps the images, which leaves the former image in the secondary slot.    *)
Reset ==
  /\ eBtlState' = "Idle" /\ img' = NoImage /\ flashOpen' = FALSE
  /\ tx' = NoTx /\ timer' = Unarmed /\ txWork' = NoWork
  /\ owner' = None /\ pc' = [t \in Threads |-> "idle"]
  /\ msg' = Quiet /\ ok' = TRUE
  /\ flash' = IF requested THEN [c \in Cells |-> Scrap] ELSE flash
  /\ requested' = FALSE

SysReboot(t) == At(t, "reboot") /\ Reset

PowerLoss == Reset

-----------------------------------------------------------------------------
Shared(t) == \/ Lock(t) \/ Abort(t) \/ CancelWork(t) \/ Schedule(t)
             \/ RetryTx(t) \/ TxError(t) \/ SysReboot(t)

Packet == PacketRefused \/ PacketStored \/ PacketAborts \/ PacketFaults

End == EndPending \/ EndCompletes \/ EndAborts \/ EndRefused

Btl == \/ Dispatch \/ NewImageRefused \/ NewImage \/ Erase \/ Start \/ Reinit
       \/ Reply \/ Packet \/ End \/ Completed \/ RequestUpgrade \/ SetReboot
       \/ ArmReboot \/ GetLostBusy \/ GetLost \/ HostAck \/ Shared("btl")

Wq == RunState \/ RunTx \/ StateTimeout \/ CancelTx \/ TxTimeout \/ Shared("wq")

Next == \/ \E m \in Host : Receive(m)
        \/ Btl \/ Wq \/ ExpireState \/ ExpireTx \/ PowerLoss

Spec == Init /\ [][Next]_vars

\* Both threads keep running and time passes; the host promises nothing.
Fairness == WF_vars(Btl) /\ WF_vars(Wq) /\ WF_vars(ExpireState) /\ WF_vars(ExpireTx)

FairSpec == Spec /\ Fairness
=============================================================================
