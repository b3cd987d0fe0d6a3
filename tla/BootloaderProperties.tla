------------------------ MODULE BootloaderProperties ------------------------
(* What the firmware-update session of module Bootloader must guarantee. *)
EXTENDS Bootloader

ImageType ==
  [size : Sizes \cup {0}, crc : Images \cup {<<>>}, nextId : Nat, lastId : Ids,
   received : Nat, digest : Seq(Data), lostState : BOOLEAN, firstLost : Nat,
   lost : SUBSET Nat, handled : SUBSET Nat, recovered : Nat]

TxType ==
  [state : {"Idle", "InProgress", "RetryInProgress"}, seq : 0 .. SeqMod - 1,
   retry : 0 .. RetryMax, frame : (0 .. SeqMod - 1) \cup {None}]

TimerType == [armed : BOOLEAN, passed : BOOLEAN, delayed : BOOLEAN, queued : BOOLEAN]
WorkType == [delayed : BOOLEAN, queued : BOOLEAN]
Labels == BtlPcs \cup WqPcs
States == {"Idle", "InProg", "Completed", "Reboot", "Error"}

TypeOK ==
  /\ eBtlState \in States
  /\ img \in ImageType
  /\ flashOpen \in BOOLEAN
  /\ tx \in TxType
  /\ timer \in TimerType
  /\ txWork \in WorkType
  /\ owner \in Threads \cup {None}
  /\ pc \in [Threads -> Labels]
  /\ msg \in Host \cup {Quiet}
  /\ ok \in BOOLEAN
  /\ flash \in [Cells -> Data \cup {Erased, Scrap}]
  /\ requested \in BOOLEAN

\* The slot holds, packet by packet, the image the host announced.
ImageInSlot ==
  /\ img.crc # <<>>
  /\ Len(img.crc) = PacketsOf(img.size)
  /\ \A k \in 1 .. Len(img.crc) : k - 1 \in Cells /\ flash[k - 1] = img.crc[k]

\* MCUboot has been asked to swap only while the slot holds exactly the image
\* that was announced, however packets were lost, resent or timed out
\* (vFinalize_FWImageWrite, vRequest_MCUbootImageUpgrade).
UpgradeOnlyIntact == requested => ImageInSlot

Unwritten(c) == flash[c] = Erased

\* Below uiNextId a packet of the image is pending if and only if it is not in flash.
PendingExact ==
  eBtlState = "InProg" =>
    \A c \in Cells : c < img.nextId /\ BytesOf(c, img.size) > 0 =>
       (c \in Pending(img) <=> Unwritten(c))

\* The lost-packet list is exact (bCanHandleMissingPackets, vHandle_LostPacketRecovery), so
\* that a host that resends what is reported completes the image, and it never holds more
\* than its array has room for, whatever gaps and ends follow each other.
LostListExact == PendingExact /\ Cardinality(img.lost) <= MaxLost

\* flash_area_write never hits a cell that was programmed before (the flash
\* behind the slot programs only erased blocks): a duplicate never reaches it.
WrittenOnce ==
  [][img'.received > img.received => Unwritten(msg.id)]_vars

\* "OK" to FWUpEnd means that the upgrade was requested and the reboot is due.
EndAnswerTruthful ==
  pc["btl"] = "reply" /\ msg.cmd = "FWUpEnd" /\ ok =>
    requested /\ eBtlState = "Reboot"

\* A session that a timeout or the host aborted stays aborted: no handler that
\* was on its way when it happened brings it back to life.
AbortIsFinal ==
  [][eBtlState = "Error" => eBtlState' \in {"Error", "Idle"}]_eBtlState

\* A lost-packet report the host has not acknowledged is always going to be
\* retried or given up: it never blocks the next GetLostPacketInfo for good.
ReportWatched ==
  eBtlState = "InProg" /\ tx.state # "Idle" =>
    \/ txWork.delayed \/ txWork.queued
    \/ \E t \in Threads : pc[t] \in {"schedule", "retry", "txTimeout", "txError",
                                     "abort"}

\* The comment on the first packet (Bootloader_Ctrl.c:751) promises a flash area
\* that is open whenever a packet is written.
FlashOpenForWrites ==
  Holding("btl", "packet") /\ StillReceiving /\ Welcome(img, msg.id)
    /\ (msg.id > img.nextId => GapFits(img, msg.id)) /\ Writes(img, msg.id)
  => flashOpen \/ FirstPacket(img)

\* A host that falls silent does not block the controller: its session ends.
SilentHostEndsSession ==
  <>[][~ \E m \in Host : Receive(m)]_vars =>
    <>[](eBtlState \in {"Idle", "Error"} \/ ~Alive)

\* Every message is answered: neither mutex nor timeout blocks the thread.
MessagesAnswered == pc["btl"] # "idle" ~> pc["btl"] \in {"idle", "fault"}

-----------------------------------------------------------------------------
\* The firmware update as its abstract promise sees it.
Update == INSTANCE FirmwareUpdate WITH
  announced <- IF eBtlState \in {"InProg", "Completed", "Reboot"} THEN img.crc ELSE None,
  slot <- flash,
  requested <- requested

\* The session implements the abstract firmware update.
ImplementsUpdate == Update!Spec
=============================================================================
