---------------------------- MODULE SessionProofs ----------------------------
(***************************************************************************)
(* More proofs about the firmware-update session: that an answer tells the  *)
(* truth, that a report to the host is always watched by a timer or a       *)
(* thread, that the list of lost packets is exact, that no flash cell is    *)
(* programmed twice, and that the session implements FirmwareUpdate.  They  *)
(* strengthen the inductive invariant of BootloaderProofs.                  *)
(***************************************************************************)
EXTENDS BootloaderProofs, FiniteSetTheorems

(* Which places may carry the answer to FWUpEnd, and with which bIsMsgOk: a  *)
(* session that was aborted on the way has cleared it.                       *)
Answering ==
  /\ pc["btl"] \in {"hostAck", "getLost", "retry", "schedule", "txError", "reinit",
                    "newImage", "erasing", "start", "packet"} => msg.cmd # "FWUpEnd"
  /\ pc["btl"] \in {"abort", "cancel"} /\ msg.cmd = "FWUpEnd" => ~ok
  /\ pc["btl"] \in {"setReboot", "armReboot"} => requested
  /\ EndAnswerTruthful

(* A report is left to nobody only when the session is over.  CancelWork and *)
(* CancelTx run after the mutex was released and stop the retry timer for    *)
(* good: what they rely on has to hold until then.                           *)
Watched ==
  /\ ReportWatched
  /\ \A t \in Threads : pc[t] = "cancel" => eBtlState \in {"Idle", "Error"}
  /\ \A t \in Threads : pc[t] = "retry" => tx.state # "InProgress"
  /\ pc["wq"] = "cancelTx" => eBtlState # "InProg" \/ tx.state = "Idle"
  /\ eBtlState = "Idle" => tx.state = "Idle" /\ pc["btl"] # "getLost"

\* Packet c has bytes in the image that was announced.
InImage(c) == BytesOf(c, img.size) > 0

(* What is behind the next identifier is blank, and only what was lost was   *)
(* ever recovered; the announced image is one a host may announce.           *)
Listed ==
  /\ pc["btl"] = "start" => \A c \in Cells : Unwritten(c)
  /\ pc["btl"] \in {"erasing", "start"} => img.crc \in Images
  /\ eBtlState \in {"InProg", "Completed", "Reboot"} => img.crc \in Images
  /\ eBtlState = "InProg" =>
       /\ img.handled \subseteq img.lost
       /\ \A c \in Cells : c >= img.nextId /\ InImage(c) => Unwritten(c)
       /\ PendingExact

\* The list fits its array, in every state.
Fits == IsFiniteSet(img.lost) /\ Cardinality(img.lost) <= MaxLost

\* The inductive invariant of this module.
SInv == IInv /\ Answering /\ Watched /\ Listed /\ Fits

-----------------------------------------------------------------------------
(* The answer to FWUpEnd. *)

\* Where the dispatch cannot send FWUpEnd, and where it sends nothing.
LEMMA HandlerEnds ==
  ASSUME NEW state, NEW cmd
  PROVE  /\ Handler(state, cmd) \in {"getLost", "reinit", "newImage", "packet", "abort"} =>
               cmd # "FWUpEnd"
         /\ Handler(state, cmd) \notin {"hostAck", "retry", "schedule", "txError", "cancel",
                                        "erasing", "start", "setReboot", "armReboot"}
         /\ Handler(state, cmd) = "reply" /\ cmd = "FWUpEnd" => state # "Completed"
         /\ Handler(state, cmd) = "getLost" => state = "InProg"
  BY DEF Handler

\* Answering is inductive: RequestUpgrade sets what it needs, an abort clears it.
LEMMA AnswerStep ==
  ASSUME TypeInv, Control, RequestHeld, Answering, [Next]_vars
  PROVE  Answering'
  <1>0. /\ pc \in [Threads -> Labels] /\ ok \in BOOLEAN /\ requested \in BOOLEAN
        /\ None # "btl" /\ None # "wq"
    BY ConstantTypes DEF TypeInv, TypeOK
  <1> USE <1>0 DEF Answering, EndAnswerTruthful, Threads, Goto, Unlock, At, Holding, session
  <1>1. CASE \E m \in Host : Receive(m)
    BY <1>1 DEF Receive
  <1>2. CASE Dispatch
    BY <1>2, HandlerEnds DEF Dispatch
  <1>3. CASE NewImageRefused \/ NewImage \/ Erase \/ Start \/ Reinit \/ Reply
    BY <1>3 DEF NewImageRefused, NewImage, Erase, Start, Reinit, Reply
  <1>4. CASE PacketRefused \/ PacketStored \/ PacketAborts \/ PacketFaults
    BY <1>4 DEF PacketRefused, PacketStored, PacketAborts, PacketFaults
  <1>5. CASE EndPending \/ EndCompletes \/ EndAborts \/ EndRefused
    BY <1>5 DEF EndPending, EndCompletes, EndAborts, EndRefused
  <1>6. CASE Completed \/ RequestUpgrade
    BY <1>6 DEF Completed, RequestUpgrade
  <1>7. CASE SetReboot \/ ArmReboot
    BY <1>7 DEF SetReboot, ArmReboot, Control
  <1>8. CASE GetLostBusy \/ GetLost \/ HostAck
    BY <1>8 DEF GetLostBusy, GetLost, HostAck
  <1>9. CASE RunState \/ RunTx \/ CancelTx \/ TxTimeout \/ ExpireState \/ ExpireTx
    BY <1>9 DEF RunState, RunTx, CancelTx, TxTimeout, ExpireState, ExpireTx
  <1>10. CASE StateTimeout
    BY <1>10 DEF StateTimeout, AbortLocked
  <1>11. CASE \E t \in Threads : Lock(t) \/ CancelWork(t)
    BY <1>11 DEF Lock, CancelWork, Finish
  <1>12. CASE \E t \in Threads : Abort(t)
    BY <1>12 DEF Abort, AbortLocked, Control
  <1>13. CASE \E t \in Threads : Schedule(t) \/ RetryTx(t) \/ TxError(t)
    BY <1>13 DEF Schedule, RetryTx, TxError, Finish
  <1>14. CASE Reset
    BY <1>14 DEF Reset
  <1>15. CASE UNCHANGED vars
    BY <1>15 DEF vars
  <1>16. QED
    BY <1>1, <1>2, <1>3, <1>4, <1>5, <1>6, <1>7, <1>8, <1>9, <1>10, <1>11, <1>12, <1>13,
       <1>14, <1>15
    DEF Next, Btl, Wq, Shared, Packet, End, SysReboot, PowerLoss

-----------------------------------------------------------------------------
(* The lost-packet report and its timer. *)

\* What the operators on the work item do to its two marks.
LEMMA WorkEffects ==
  ASSUME NEW w \in WorkType
  PROVE  /\ w.delayed \in BOOLEAN /\ w.queued \in BOOLEAN
         /\ Rescheduled(w).delayed
         /\ Expired(w).queued
         /\ Taken(w).delayed = w.delayed
  BY DEF WorkType, Rescheduled, Expired, Taken

\* What the operators on the report do to its state.
LEMMA ReportEffects ==
  ASSUME NEW x \in TxType
  PROVE  /\ Acknowledged(x).state = "Idle"
         /\ ToRetry(x).state = "RetryInProgress"
         /\ Retried(x).state = x.state
  BY DEF TxType, Acknowledged, ToRetry, Retried

\* Watched is inductive: whoever stops the timer has the session ended first.
LEMMA WatchStep ==
  ASSUME TypeInv, Control, Watched, [Next]_vars
  PROVE  Watched'
  <1>0. /\ pc \in [Threads -> Labels] /\ tx \in TxType /\ txWork \in WorkType
        /\ timer \in TimerType
        /\ eBtlState \in States /\ None # "btl" /\ None # "wq"
        /\ txWork.delayed \in BOOLEAN /\ txWork.queued \in BOOLEAN
        /\ NoTx.state = "Idle" /\ tx.state \in {"Idle", "InProgress", "RetryInProgress"}
    BY ConstantTypes, TxOps, WorkEffects, BootValues DEF TypeInv, TypeOK
  <1> USE <1>0 DEF Watched, ReportWatched, Threads, Goto, Unlock, At, Holding, MayRun,
                   SessionPcs, session
  <1>1. CASE \E m \in Host : Receive(m)
    BY <1>1 DEF Receive
  <1>2. CASE Dispatch
    BY <1>2, HandlerEnds DEF Dispatch
  <1>3. CASE NewImageRefused \/ NewImage \/ Erase \/ Reply
    BY <1>3 DEF NewImageRefused, NewImage, Erase, Reply
  <1>4. CASE Start
    BY <1>4 DEF Start, Control
  <1>5. CASE Reinit
    BY <1>5 DEF Reinit
  <1>6. CASE PacketRefused \/ PacketStored \/ PacketFaults
    BY <1>6 DEF PacketRefused, PacketStored, PacketFaults
  <1>7. CASE PacketAborts
    BY <1>7 DEF PacketAborts, AbortLocked
  <1>8. CASE EndPending \/ EndRefused
    BY <1>8 DEF EndPending, EndRefused
  <1>9. CASE EndCompletes \/ EndAborts
    BY <1>9 DEF EndCompletes, EndAborts, AbortLocked
  <1>10. CASE Completed \/ RequestUpgrade
    BY <1>10 DEF Completed, RequestUpgrade
  <1>11. CASE SetReboot \/ ArmReboot
    BY <1>11 DEF SetReboot, ArmReboot, Control
  <1>12. CASE GetLostBusy \/ GetLost
    BY <1>12 DEF GetLostBusy, GetLost
  <1>13. CASE HostAck
    BY <1>13, ReportEffects DEF HostAck
  <1>14. CASE RunState \/ ExpireState
    BY <1>14 DEF RunState, ExpireState
  <1>15. CASE RunTx \/ ExpireTx
    BY <1>15, WorkEffects DEF RunTx, ExpireTx
  <1>16. CASE CancelTx
    BY <1>16 DEF CancelTx
  <1>17. CASE TxTimeout
    BY <1>17, ReportEffects DEF TxTimeout
  <1>18. CASE StateTimeout
    BY <1>18, TimerOps DEF StateTimeout, AbortLocked, Control
  <1>19. CASE \E t \in Threads : Lock(t)
    BY <1>19 DEF Lock
  <1>20. CASE \E t \in Threads : CancelWork(t)
    BY <1>20 DEF CancelWork, Finish
  <1>21. CASE \E t \in Threads : Abort(t)
    BY <1>21 DEF Abort, AbortLocked, Control
  <1>22. CASE \E t \in Threads : Schedule(t)
    BY <1>22, WorkEffects DEF Schedule, Finish
  <1>23. CASE \E t \in Threads : RetryTx(t)
    BY <1>23, ReportEffects DEF RetryTx, Finish
  <1>24. CASE \E t \in Threads : TxError(t)
    BY <1>24 DEF TxError, Finish
  <1>25. CASE Reset
    BY <1>25 DEF Reset
  <1>26. CASE UNCHANGED vars
    BY <1>26 DEF vars
  <1>27. QED
    BY <1>1, <1>2, <1>3, <1>4, <1>5, <1>6, <1>7, <1>8, <1>9, <1>10, <1>11, <1>12, <1>13,
       <1>14, <1>15, <1>16, <1>17, <1>18, <1>19, <1>20, <1>21, <1>22, <1>23, <1>24, <1>25,
       <1>26
    DEF Next, Btl, Wq, Shared, Packet, End, SysReboot, PowerLoss

-----------------------------------------------------------------------------
(* The lost-packet list and the slot. *)

\* The actions that touch neither the state of the session, the image nor the slot.
LEMMA ListedKept ==
  ASSUME Listed, UNCHANGED <<eBtlState, img, flash>>,
         pc'["btl"] \in {"erasing", "start"} => pc'["btl"] = pc["btl"]
  PROVE  Listed'
  BY DEF Listed, PendingExact, Unwritten, Pending, InImage

\* A session that is over has no list.
LEMMA ListedOver ==
  ASSUME eBtlState' \in {"Idle", "Error"}, pc'["btl"] \notin {"erasing", "start"}
  PROVE  Listed'
  BY DEF Listed, PendingExact

\* The list below the next identifier, and the cells behind it, for an image i and a slot f.
Exact(i, f) ==
  /\ i.handled \subseteq i.lost
  /\ \A c \in Cells : BytesOf(c, i.size) > 0 =>
       IF c < i.nextId THEN c \in Pending(i) <=> f[c] = Erased ELSE f[c] = Erased

\* Listed says Exact of the image and the slot there are.
LEMMA ExactListed ==
  eBtlState = "InProg" /\ Listed /\ img \in ImageType => Exact(img, flash)
  <1> SUFFICES ASSUME eBtlState = "InProg", Listed, img \in ImageType
               PROVE  Exact(img, flash)
    OBVIOUS
  <1>1. img.nextId \in Nat /\ Cells \subseteq Int
    BY ImageFields DEF Cells
  <1>2. QED
    BY <1>1 DEF Listed, PendingExact, Unwritten, InImage, Exact

\* bCanHandleMissingPackets: what is skipped becomes pending, and is blank.
LEMMA GapExact ==
  ASSUME NEW i \in ImageType, NEW f, NEW id \in Nat, DigestOK(i, f), Exact(i, f)
  PROVE  Exact(WithGap(i, id), f)
  <1>1. CASE id > i.nextId
    <2>1. /\ WithGap(i, id).size = i.size /\ WithGap(i, id).nextId = id
          /\ WithGap(i, id).lost = i.lost \cup (i.nextId .. id - 1)
          /\ WithGap(i, id).handled = i.handled
      BY <1>1 DEF WithGap, NoteGap, ImageType
    <2>2. i.nextId \in Nat /\ Covered(i) \in Nat /\ Cells \subseteq Int
      BY ImageFields DEF Covered, Cells
    <2>3. i.lost \subseteq Covered(i) .. i.nextId - 1
      BY DEF DigestOK
    <2>4. QED
      BY <1>1, <2>1, <2>2, <2>3 DEF Exact, Pending
  <1>2. CASE ~(id > i.nextId)
    BY <1>2 DEF WithGap
  <1>3. QED
    BY <1>1, <1>2

\* A packet that is next or pending leaves the list exact once it is written.
LEMMA StoredExact ==
  ASSUME NEW i \in ImageType, NEW f \in [Cells -> Data \cup {Erased, Scrap}],
         NEW id \in Ids, NEW d \in Data, DigestOK(i, f), Exact(i, f), ~OutOfSlot(id, i.size),
         id = i.nextId \/ (id < i.nextId /\ id \in Pending(i))
  PROVE  Exact(Stored(i, id, d), IF Writes(i, id) THEN [f EXCEPT ![id] = d] ELSE f)
  <1> DEFINE s == Stored(i, id, d)
             h == IF Writes(i, id) THEN [f EXCEPT ![id] = d] ELSE f
  <1>1. /\ id \in Nat /\ i.nextId \in Nat /\ i.size \in Nat /\ Covered(i) \in Nat
        /\ Cells \subseteq Int /\ d # Erased /\ i.lostState \in BOOLEAN
    BY ImageFields, ConstantTypes DEF Ids, Cells, Covered
  <1>2. /\ i.lost \subseteq Covered(i) .. i.nextId - 1
        /\ ~i.lostState => i.lost = {}
    BY DEF DigestOK
  <1>3. s.nextId = IF id = i.nextId THEN id + 1 ELSE i.nextId
    BY <1>1, NoWrap, StoredFields
  <1>4. s.size = i.size /\ s.lost = i.lost
    BY StoredFields
  <1>5. s.handled = IF id < i.nextId THEN i.handled \cup {id} ELSE i.handled
    <2>1. s.handled = IF i.lostState /\ id \in Pending(i) THEN i.handled \cup {id} ELSE i.handled
      BY DEF Stored, ImageType
    <2>2. id \in Pending(i) <=> id < i.nextId
      BY <1>1, <1>2 DEF Pending
    <2>3. id \in Pending(i) => i.lostState
      BY <1>2 DEF Pending
    <2>4. QED
      BY <2>1, <2>2, <2>3
  <1>6. \A c \in Cells : BytesOf(c, i.size) > 0 =>
           h[c] = IF c = id THEN d ELSE f[c]
    BY DEF Writes
  <1> HIDE DEF s, h
  <1>7. s.handled \subseteq s.lost
    BY <1>1, <1>4, <1>5 DEF Exact, Pending
  <1>8. ASSUME NEW c \in Cells, BytesOf(c, s.size) > 0
        PROVE  IF c < s.nextId THEN c \in Pending(s) <=> h[c] = Erased ELSE h[c] = Erased
    <2>1. IF c < i.nextId THEN c \in Pending(i) <=> f[c] = Erased ELSE f[c] = Erased
      BY <1>4, <1>8 DEF Exact
    <2>2. h[c] = IF c = id THEN d ELSE f[c]
      BY <1>4, <1>6, <1>8
    <2>3. CASE c = id
      <3>1. c < s.nextId /\ h[c] # Erased
        BY <1>1, <1>3, <2>2, <2>3
      <3>2. c \notin Pending(s)
        BY <1>1, <1>2, <1>4, <1>5, <2>3 DEF Pending
      <3>3. QED
        BY <3>1, <3>2
    <2>4. CASE c # id
      <3>1. c \in Pending(s) <=> c \in Pending(i)
        BY <1>4, <1>5, <2>4 DEF Pending
      <3>2. c < s.nextId <=> c < i.nextId
        BY <1>1, <1>3, <2>4
      <3>3. QED
        BY <2>1, <2>2, <2>4, <3>1, <3>2
    <2>5. QED
      BY <2>3, <2>4
  <1>9. QED
    BY <1>7, <1>8 DEF Exact, s, h

\* Listed is inductive.
LEMMA ListStep ==
  ASSUME TypeInv, Control, Digested, Listed, [Next]_vars
  PROVE  Listed'
  <1>0. /\ pc \in [Threads -> Labels] /\ img \in ImageType
        /\ flash \in [Cells -> Data \cup {Erased, Scrap}]
    BY DEF TypeInv, TypeOK
  <1> USE <1>0 DEF Threads, Goto, Unlock, At, Holding, session
  <1>1. CASE \E m \in Host : Receive(m)
    BY <1>1, ListedKept DEF Receive
  <1>2. CASE Dispatch
    BY <1>2, ListedKept, HandlerEnds DEF Dispatch
  <1>3. CASE Reply \/ PacketRefused \/ PacketFaults \/ EndRefused \/ RequestUpgrade \/ ArmReboot
    BY <1>3, ListedKept DEF Reply, PacketRefused, PacketFaults, EndRefused, RequestUpgrade,
       ArmReboot
  <1>4. CASE Completed \/ GetLostBusy \/ GetLost \/ HostAck
    BY <1>4, ListedKept DEF Completed, GetLostBusy, GetLost, HostAck
  <1>5. CASE RunState \/ RunTx \/ CancelTx \/ TxTimeout \/ ExpireState \/ ExpireTx
    BY <1>5, ListedKept DEF RunState, RunTx, CancelTx, TxTimeout, ExpireState, ExpireTx
  <1>6. CASE \E t \in Threads : Lock(t) \/ CancelWork(t) \/ Schedule(t) \/ RetryTx(t) \/ TxError(t)
    BY <1>6, ListedKept DEF Lock, CancelWork, Schedule, RetryTx, TxError, Finish
  <1>7. CASE UNCHANGED vars
    BY <1>7, ListedKept DEF vars
  <1>8. CASE NewImageRefused \/ Reinit
    BY <1>8, ListedOver DEF NewImageRefused, Reinit, Control
  <1>9. CASE PacketAborts \/ EndAborts
    BY <1>9, ListedOver DEF PacketAborts, EndAborts, AbortLocked
  <1>10. CASE \E t \in Threads : Abort(t)
    BY <1>10, ListedOver DEF Abort, AbortLocked, Control
  <1>11. CASE StateTimeout
    BY <1>11, ListedOver, ListedKept DEF StateTimeout, AbortLocked, Control
  <1>12. CASE Reset
    BY <1>12, ListedOver DEF Reset
  <1>13. CASE SetReboot
    BY <1>13 DEF SetReboot, Control, Listed, PendingExact
  <1>14. CASE NewImage
    <2>1. eBtlState' = "Idle" /\ pc'["btl"] # "start"
      BY <1>14 DEF NewImage, Control
    <2>2. img'.crc \in Images
      BY <1>14, FreshFields DEF NewImage, TypeInv, MsgMatches
    <2>3. QED
      BY <2>1, <2>2 DEF Listed, PendingExact
  <1>15. CASE Erase
    <2>1. eBtlState' = "Idle" /\ img' = img /\ img.crc \in Images
      BY <1>15 DEF Erase, Control, Listed
    <2>2. pc'["btl"] = "start" => \A c \in Cells : flash'[c] = Erased
      BY <1>15 DEF Erase
    <2>3. QED
      BY <2>1, <2>2 DEF Listed, PendingExact, Unwritten
  <1>16. CASE Start
    <2>1. /\ eBtlState' = "InProg" /\ pc'["btl"] = "reply" /\ img' = img /\ flash' = flash
          /\ Fresh(img) /\ img.crc \in Images /\ \A c \in Cells : flash[c] = Erased
      BY <1>16 DEF Start, Digested, Listed, Unwritten
    <2>2. img.nextId = 0 /\ img.lost = {} /\ img.handled = {}
      BY <2>1 DEF Fresh, Announced, NoImage
    <2>3. \A c \in Cells : ~(c < 0)
      BY DEF Cells
    <2>4. QED
      BY <2>1, <2>2, <2>3 DEF Listed, PendingExact, Unwritten
  <1>17. ASSUME Exact(img', flash'), img'.crc \in Images, img'.nextId \in Nat,
                pc'["btl"] \notin {"erasing", "start"}
         PROVE  Listed'
    <2>1. Cells \subseteq Int
      BY DEF Cells
    <2>2. QED
      BY <1>17, <2>1 DEF Listed, PendingExact, Unwritten, InImage, Exact, Pending
  <1>18. CASE PacketStored
    <2> DEFINE id == msg.id
               g == WithGap(img, id)
    <2>1. id \in Ids /\ id \in Nat /\ msg.data \in Data
      BY <1>18 DEF PacketStored, TypeInv, MsgMatches, Ids
    <2>2. /\ StillReceiving /\ Welcome(img, id) /\ ~OutOfSlot(id, img.size)
          /\ img' = Stored(g, id, msg.data)
          /\ flash' = IF Writes(img, id) THEN [flash EXCEPT ![id] = msg.data] ELSE flash
          /\ pc'["btl"] = "reply"
      BY <1>18 DEF PacketStored
    <2>3. DigestOK(img, flash) /\ Exact(img, flash) /\ img.crc \in Images
      BY <2>2, ExactListed DEF Digested, StillReceiving, Listed
    <2>4. /\ g \in ImageType /\ DigestOK(g, flash) /\ Exact(g, flash)
          /\ g.size = img.size /\ g.crc = img.crc
      BY <2>1, <2>3, GapType, GapDigest, GapExact, GapFields
    <2>5. id = g.nextId \/ (id < g.nextId /\ id \in Pending(g))
      <3>1. CASE id > img.nextId
        BY <2>1, <3>1, GapFields
      <3>2. CASE id <= img.nextId
        <4>1. g = img
          BY <2>1, <3>2, ImageFields DEF WithGap
        <4>2. QED
          BY <2>1, <2>2, <3>2, <4>1, ImageFields DEF Welcome
      <3>3. QED
        BY <2>1, <3>1, <3>2, ImageFields
    <2> HIDE DEF g, id
    <2>6. Writes(g, id) = Writes(img, id) /\ ~OutOfSlot(id, g.size)
      BY <2>2, <2>4 DEF Writes
    <2>7. Exact(img', flash')
      BY <2>1, <2>2, <2>4, <2>5, <2>6, StoredExact
    <2>8. img' \in ImageType /\ img'.crc = img.crc
      <3>1. img' \in ImageType
        BY <2>1, <2>2, <2>4, StoredType
      <3>2. Stored(g, id, msg.data).crc = g.crc
        BY <2>4 DEF Stored, ImageType
      <3>3. QED
        BY <2>2, <2>4, <3>1, <3>2
    <2>9. img'.nextId \in Nat
      BY <2>8, ImageFields
    <2>10. QED
      BY <1>17, <2>2, <2>3, <2>7, <2>8, <2>9
  <1>19. CASE EndPending
    <2>1. /\ DigestOK(img, flash) /\ Exact(img, flash) /\ img.crc \in Images
          /\ img' = AtEnd(img) /\ flash' = flash /\ pc'["btl"] = "reply"
      BY <1>19, ExactListed DEF EndPending, StillReceiving, Digested, Listed
    <2>2. PacketsOf(img.size) \in Nat
      BY PacketCount, ImageFields
    <2>3. Exact(img', flash') /\ img'.crc = img.crc
      BY <2>1, <2>2, GapExact, GapFields DEF AtEnd
    <2>4. img'.nextId \in Nat
      BY <2>1, EndType, ImageFields
    <2>5. QED
      BY <1>17, <2>1, <2>3, <2>4
  <1>20. CASE EndCompletes
    <2>1. /\ img' = Validated(AtEnd(img)) /\ img.crc \in Images
          /\ eBtlState' = "Completed" /\ pc'["btl"] = "completed"
      BY <1>20 DEF EndCompletes, StillReceiving, Listed
    <2>2. AtEnd(img).crc = img.crc /\ AtEnd(img) \in ImageType
      BY PacketCount, ImageFields, GapFields, EndType DEF AtEnd
    <2>3. img'.crc = img.crc
      BY <2>1, <2>2 DEF Validated, ImageType
    <2>4. QED
      BY <2>1, <2>3 DEF Listed, PendingExact
  <1>21. QED
    BY <1>1, <1>2, <1>3, <1>4, <1>5, <1>6, <1>7, <1>8, <1>9, <1>10, <1>11, <1>12, <1>13,
       <1>14, <1>15, <1>16, <1>18, <1>19, <1>20
    DEF Next, Btl, Wq, Shared, Packet, End, SysReboot, PowerLoss

-----------------------------------------------------------------------------
(* The room in the list. *)

\* A gap that was found to fit extends the list by as many entries as were counted.
LEMMA GapRoom ==
  ASSUME NEW i \in ImageType, NEW id \in Nat, IsFiniteSet(i.lost), Cardinality(i.lost) <= MaxLost,
         id > i.nextId => GapFits(i, id)
  PROVE  IsFiniteSet(WithGap(i, id).lost) /\ Cardinality(WithGap(i, id).lost) <= MaxLost
  <1>1. CASE id > i.nextId
    <2> DEFINE g == i.nextId .. id - 1
               u == i.lost \cup g
    <2>1. WithGap(i, id).lost = u
      BY <1>1 DEF WithGap, NoteGap, ImageType
    <2>2. i.nextId \in Nat /\ MaxLost \in Nat
      BY ImageFields, ConstantsAssumption
    <2>3. IsFiniteSet(g) /\ Cardinality(g) = id - i.nextId
      <3>1. /\ IsFiniteSet(i.nextId .. id - 1)
            /\ Cardinality(i.nextId .. id - 1) =
                 IF i.nextId > id - 1 THEN 0 ELSE (id - 1) - i.nextId + 1
        <4>1. i.nextId \in Int /\ id - 1 \in Int
          BY <2>2
        <4>2. QED
          BY <4>1, FS_Interval
      <3>2. QED
        BY <1>1, <2>2, <3>1
    <2> HIDE DEF g
    <2>4. /\ IsFiniteSet(u) /\ IsFiniteSet(i.lost \cap g)
          /\ Cardinality(u) = Cardinality(i.lost) + Cardinality(g) - Cardinality(i.lost \cap g)
      BY <2>3, FS_Union, FS_Intersection
    <2>5. Cardinality(i.lost \cap g) \in Nat /\ Cardinality(i.lost) \in Nat
      BY <2>4, FS_CardinalityType
    <2>6. Cardinality(i.lost) + (id - i.nextId) <= MaxLost
      BY <1>1 DEF GapFits
    <2> HIDE DEF u
    <2>7. Cardinality(u) <= MaxLost
      BY <2>2, <2>3, <2>4, <2>5, <2>6
    <2>8. QED
      BY <2>1, <2>4, <2>7
  <1>2. CASE ~(id > i.nextId)
    BY <1>2 DEF WithGap
  <1>3. QED
    BY <1>1, <1>2

\* Fits is inductive: the list is extended by gaps that were counted before, and else kept or
\* emptied.
LEMMA FitsStep ==
  ASSUME TypeInv, Fits, [Next]_vars
  PROVE  Fits'
  <1>0. img \in ImageType /\ NoImage.lost = {}
    BY DEF TypeInv, TypeOK, NoImage
  <1>1. ASSUME img'.lost \in {img.lost, {}}
        PROVE  Fits'
    <2>1. CASE img'.lost = img.lost
      BY <2>1 DEF Fits
    <2>2. CASE img'.lost = {}
      <3>1. IsFiniteSet({}) /\ Cardinality({}) = 0 /\ MaxLost \in Nat
        BY FS_EmptySet, ConstantsAssumption
      <3>2. IsFiniteSet(img'.lost) /\ Cardinality(img'.lost) = 0
        BY <2>2, <3>1
      <3>3. QED
        BY <3>1, <3>2 DEF Fits
    <2>3. QED
      BY <1>1, <2>1, <2>2
  <1>2. CASE PacketStored
    <2> DEFINE g == WithGap(img, msg.id)
    <2>0. msg.id \in Nat
      BY <1>2 DEF PacketStored, TypeInv, MsgMatches, Ids, Holding, At
    <2>1. msg.id \in Nat /\ (msg.id > img.nextId => GapFits(img, msg.id))
      BY <1>2, <2>0 DEF PacketStored
    <2>2. g \in ImageType /\ IsFiniteSet(g.lost) /\ Cardinality(g.lost) <= MaxLost
      BY <1>0, <2>1, GapType, GapRoom DEF Fits
    <2>3. Stored(g, msg.id, msg.data).lost = g.lost
      BY <2>2 DEF Stored, ImageType
    <2>4. QED
      BY <1>2, <2>2, <2>3 DEF PacketStored, Fits
  <1>3. CASE EndPending \/ EndCompletes
    <2>1. PacketsOf(img.size) \in Nat
      BY <1>0, PacketCount, ImageFields
    <2>2. PacketsOf(img.size) > img.nextId => GapFits(img, PacketsOf(img.size))
      BY <1>0, <1>3, <2>1, ImageFields DEF EndPending, EndCompletes, NothingPending
    <2>3. /\ AtEnd(img) \in ImageType /\ IsFiniteSet(AtEnd(img).lost)
          /\ Cardinality(AtEnd(img).lost) <= MaxLost
      BY <1>0, <2>1, <2>2, GapType, GapRoom DEF AtEnd, Fits
    <2>4. Validated(AtEnd(img)).lost = AtEnd(img).lost
      BY <2>3 DEF Validated, ImageType
    <2>5. QED
      BY <1>3, <2>3, <2>4 DEF EndPending, EndCompletes, Fits
  <1>4. CASE img' = img
    BY <1>1, <1>4
  <1>5. CASE img' = NoImage
    BY <1>0, <1>1, <1>5
  <1>6. CASE \/ \E m \in Host : Receive(m)
             \/ Dispatch \/ Reply \/ PacketRefused \/ PacketFaults \/ EndRefused
             \/ RequestUpgrade \/ ArmReboot \/ Completed \/ GetLostBusy \/ GetLost \/ HostAck
             \/ Erase \/ SetReboot \/ Start
    BY <1>4, <1>6 DEF Receive, Dispatch, Reply, PacketRefused, PacketFaults, EndRefused,
       RequestUpgrade, ArmReboot, Completed, GetLostBusy, GetLost, HostAck, Erase, SetReboot,
       Start, session
  <1>7. CASE \/ RunState \/ RunTx \/ CancelTx \/ TxTimeout \/ ExpireState \/ ExpireTx
             \/ UNCHANGED vars
    BY <1>4, <1>7 DEF RunState, RunTx, CancelTx, TxTimeout, ExpireState, ExpireTx, session, vars
  <1>8. CASE \E t \in Threads : Lock(t) \/ CancelWork(t) \/ Schedule(t) \/ RetryTx(t) \/ TxError(t)
    BY <1>4, <1>8 DEF Lock, CancelWork, Schedule, RetryTx, TxError, session
  <1>9. CASE NewImageRefused
    <2>1. Resized(img, msg.size).lost = img.lost
      BY <1>0 DEF Resized, ImageType
    <2>2. QED
      BY <1>1, <1>9, <2>1 DEF NewImageRefused
  <1>10. CASE NewImage
    <2>1. Announced(msg.size, msg.crc).lost = {}
      BY DEF Announced, NoImage
    <2>2. QED
      BY <1>1, <1>10, <2>1 DEF NewImage
  <1>11. CASE Reinit \/ PacketAborts \/ EndAborts \/ Reset \/ \E t \in Threads : Abort(t)
    BY <1>5, <1>11 DEF Reinit, PacketAborts, EndAborts, Reset, Abort, AbortLocked
  <1>12. CASE StateTimeout
    BY <1>4, <1>5, <1>12 DEF StateTimeout, AbortLocked, session
  <1>13. QED
    BY <1>2, <1>3, <1>6, <1>7, <1>8, <1>9, <1>10, <1>11, <1>12
    DEF Next, Btl, Wq, Shared, Packet, End, SysReboot, PowerLoss, Threads

-----------------------------------------------------------------------------
\* In every reachable state the session's two threads, its retry timer, its list of
\* lost packets and its slot agree: what the theorems below follow from.
THEOREM SessionInvariant == Spec => []SInv
  <1>1. Init => SInv
    <2>1. Init => IInv
      BY TypeInit, ControlInit DEF IInv
    <2>2. Init => Answering /\ Watched /\ Listed
      BY BootValues DEF Init, Answering, EndAnswerTruthful, Watched, ReportWatched, Listed,
         PendingExact, Threads
    <2>3. Init => Fits
      <3>1. Init => img.lost = {}
        BY DEF Init, NoImage
      <3>2. IsFiniteSet({}) /\ Cardinality({}) = 0 /\ MaxLost \in Nat
        BY FS_EmptySet, ConstantsAssumption
      <3>3. QED
        BY <3>1, <3>2 DEF Fits
    <2>4. QED
      BY <2>1, <2>2, <2>3 DEF SInv
  <1>2. SInv /\ [Next]_vars => SInv'
    BY TypeStep, ControlStep, DigestStep, AnswerStep, WatchStep, ListStep, FitsStep
       DEF SInv, IInv
  <1>3. QED
    BY <1>1, <1>2, PTL DEF Spec

\* "OK" to FWUpEnd is only sent when MCUboot holds the upgrade request and the
\* controller is about to reboot, wherever on the way from the CRC check to the
\* answer a timeout struck or the request failed.
THEOREM AnswerIsTrue == Spec => []EndAnswerTruthful
  <1>1. SInv => EndAnswerTruthful
    BY DEF SInv, Answering
  <1>2. QED
    BY <1>1, SessionInvariant, PTL

\* A lost-packet report that is not acknowledged has its retry timer running or a
\* thread on its way to it, in every interleaving of the two threads: nothing
\* blocks the next GetLostPacketInfo for the rest of the session.
THEOREM ReportIsWatched == Spec => []ReportWatched
  <1>1. SInv => ReportWatched
    BY DEF SInv, Watched
  <1>2. QED
    BY <1>1, SessionInvariant, PTL

\* Below the next identifier a packet is pending if and only if its cell is blank,
\* whatever the order in which packets are lost, recovered and repeated.
THEOREM LostListIsExact == Spec => []LostListExact
  <1>1. SInv => LostListExact
    BY DEF SInv, Listed, PendingExact, LostListExact, Fits
  <1>2. QED
    BY <1>1, SessionInvariant, PTL

-----------------------------------------------------------------------------
(* Programming the slot. *)

\* Which operators change the count of received bytes.
LEMMA ReceivedFields ==
  ASSUME NEW i \in ImageType, NEW id \in Nat, NEW n, NEW d, NEW c
  PROVE  /\ NoImage.received = 0 /\ Announced(n, c).received = 0
         /\ Resized(i, n).received = i.received
         /\ WithGap(i, id).received = i.received
         /\ Validated(i).received = i.received
         /\ Stored(i, id, d).received = i.received + BytesOf(id, i.size)
  BY DEF ImageType, NoImage, Announced, Resized, WithGap, NoteGap, Validated, Stored

\* Only vUpdate_FWImage counts bytes, and only for a cell that is blank.
LEMMA WrittenStep ==
  ASSUME TypeInv, Control, Digested, Listed, [Next]_vars, img'.received > img.received
  PROVE  Unwritten(msg.id)
  <1>0. img \in ImageType /\ img.received \in Nat
    BY ImageFields DEF TypeInv, TypeOK
  <1> USE DEF session
  <1>1. CASE img'.received \in {0, img.received}
    BY <1>0, <1>1
  <1>2. CASE UNCHANGED img
    BY <1>1, <1>2
  <1>3. CASE \E m \in Host : Receive(m)
    BY <1>2, <1>3 DEF Receive
  <1>4. CASE \/ Dispatch \/ Erase \/ Start \/ Reply \/ PacketRefused \/ PacketFaults \/ EndRefused
             \/ Completed \/ RequestUpgrade \/ SetReboot \/ ArmReboot
    BY <1>2, <1>4 DEF Dispatch, Erase, Start, Reply, PacketRefused, PacketFaults, EndRefused,
       Completed, RequestUpgrade, SetReboot, ArmReboot
  <1>5. CASE \/ GetLostBusy \/ GetLost \/ HostAck \/ RunState \/ RunTx \/ CancelTx \/ TxTimeout
             \/ ExpireState \/ ExpireTx
    BY <1>2, <1>5 DEF GetLostBusy, GetLost, HostAck, RunState, RunTx, CancelTx, TxTimeout,
       ExpireState, ExpireTx
  <1>6. CASE \E t \in Threads : Lock(t) \/ CancelWork(t) \/ Schedule(t) \/ RetryTx(t) \/ TxError(t)
    BY <1>2, <1>6 DEF Lock, CancelWork, Schedule, RetryTx, TxError
  <1>7. CASE UNCHANGED vars
    BY <1>2, <1>7 DEF vars
  <1>8. CASE NewImageRefused \/ NewImage
    BY <1>0, <1>1, <1>8, ReceivedFields DEF NewImageRefused, NewImage
  <1>9. CASE Reinit \/ Reset \/ PacketAborts \/ EndAborts \/ \E t \in Threads : Abort(t)
    <2>1. img' = NoImage
      BY <1>9 DEF Reinit, Reset, PacketAborts, EndAborts, Abort, AbortLocked
    <2>2. QED
      BY <1>0, <1>1, <2>1, ReceivedFields
  <1>10. CASE StateTimeout
    <2>1. img' \in {img, NoImage}
      BY <1>10 DEF StateTimeout, AbortLocked
    <2>2. QED
      BY <1>0, <1>1, <2>1, ReceivedFields
  <1>11. CASE EndPending \/ EndCompletes
    <2>1. img' \in {AtEnd(img), Validated(AtEnd(img))}
      BY <1>11 DEF EndPending, EndCompletes
    <2>2. AtEnd(img) \in ImageType /\ PacketsOf(img.size) \in Nat
      BY <1>0, EndType, PacketCount, ImageFields
    <2>3. AtEnd(img).received = img.received
      BY <1>0, <2>2, ReceivedFields DEF AtEnd
    <2>4. Validated(AtEnd(img)).received = AtEnd(img).received
      BY <2>2, ReceivedFields
    <2>5. QED
      BY <1>1, <2>1, <2>3, <2>4
  <1>12. CASE PacketStored
    <2> DEFINE id == msg.id
               g == WithGap(img, id)
    <2>1. id \in Ids /\ id \in Nat /\ msg.data \in Data
      BY <1>12 DEF PacketStored, TypeInv, MsgMatches, Ids, Holding
    <2>2. eBtlState = "InProg" /\ Welcome(img, id) /\ img' = Stored(g, id, msg.data)
      BY <1>12 DEF PacketStored, StillReceiving
    <2>3. img'.received = img.received + BytesOf(id, img.size)
      <3>1. g \in ImageType /\ g.size = img.size
        BY <1>0, <2>1, GapType, GapFields
      <3>2. g.received = img.received
        BY <1>0, <2>1, ReceivedFields
      <3> HIDE DEF g
      <3>3. Stored(g, id, msg.data).received = g.received + BytesOf(id, g.size)
        BY <2>1, <3>1, ReceivedFields
      <3>4. QED
        BY <2>2, <3>1, <3>2, <3>3
    <2>4. BytesOf(id, img.size) \in Nat /\ img.size \in Nat
      BY <1>0, <2>1, BytesType, ImageFields
    <2>5. BytesOf(id, img.size) > 0
      BY <1>0, <2>3, <2>4
    <2>6. id \in Cells
      <3>1. img.size <= Avail
        BY <2>2, ConstantTypes DEF Digested, DigestOK
      <3>2. QED
        BY <2>1, <2>4, <2>5, <3>1, PacketsInImage, CellsEnough
    <2>7. Exact(img, flash)
      BY <1>0, <2>2, ExactListed
    <2>8. IF id < img.nextId THEN id \in Pending(img) <=> flash[id] = Erased ELSE flash[id] = Erased
      BY <2>5, <2>6, <2>7 DEF Exact
    <2>9. id < img.nextId => id \in Pending(img)
      BY <1>0, <2>1, <2>2, ImageFields DEF Welcome
    <2>10. QED
      BY <2>8, <2>9 DEF Unwritten
  <1>13. QED
    BY <1>3, <1>4, <1>5, <1>6, <1>7, <1>8, <1>9, <1>10, <1>11, <1>12
    DEF Next, Btl, Wq, Shared, Packet, End, SysReboot, PowerLoss, Threads

\* No flash cell is programmed twice between two erasures of the slot: neither a
\* packet the host repeats nor one it recovers late reaches a written cell.
THEOREM CellWrittenOnce == Spec => WrittenOnce
  <1>1. SInv => TypeInv /\ Control /\ Digested /\ Listed
    BY DEF SInv, IInv
  <1>2. TypeInv /\ Control /\ Digested /\ Listed /\ [Next]_vars =>
          [img'.received > img.received => Unwritten(msg.id)]_vars
    BY WrittenStep
  <1>3. QED
    BY <1>1, <1>2, SessionInvariant, PTL DEF Spec, WrittenOnce

-----------------------------------------------------------------------------
(* The session implements the abstract firmware update. *)

\* The announced image of the abstract update.
AnnouncedNow ==
  IF eBtlState \in {"InProg", "Completed", "Reboot"} THEN img.crc ELSE None

\* Initial states map to initial states.
LEMMA UpdateInit == Init => Update!Init
  BY DEF Init, Update!Init

\* Outside the two last states no upgrade is requested.
LEMMA NotRequested ==
  ASSUME RequestHeld, ~(eBtlState = "Completed" /\ pc["btl"] = "setReboot"),
         ~(eBtlState = "Reboot"), requested \in BOOLEAN
  PROVE  requested = FALSE
  BY DEF RequestHeld

\* Every step of the session is a step of the abstract update, or stutters: an
\* erasure prepares the slot, Start announces the image, a packet stores or spoils
\* a cell, an abort gives the update up, and a reset restarts.
LEMMA UpdateStep ==
  ASSUME SInv, [Next]_vars
  PROVE  [Update!Next]_(Update!vars)
  <1>0. /\ pc \in [Threads -> Labels] /\ img \in ImageType /\ requested \in BOOLEAN
        /\ eBtlState \in States
        /\ flash \in [Cells -> Data \cup {Erased, Scrap}]
        /\ None \notin Images /\ None # <<>>
    BY ConstantsAssumption DEF SInv, IInv, TypeInv, TypeOK
  <1>1. TypeInv /\ Control /\ RequestHeld /\ Digested /\ Listed
    BY DEF SInv, IInv
  <1>2. ASSUME UNCHANGED <<AnnouncedNow, flash, requested>>
        PROVE  UNCHANGED Update!vars
    BY <1>2 DEF AnnouncedNow, Update!vars
  <1> USE <1>0, <1>1 DEF session, Threads, Goto, Unlock, At, Holding
  <1>3. CASE \/ Dispatch \/ Reply \/ PacketRefused \/ PacketFaults \/ EndRefused \/ Completed
             \/ ArmReboot \/ GetLostBusy \/ GetLost \/ HostAck
             \/ \E m \in Host : Receive(m)
    BY <1>2, <1>3 DEF AnnouncedNow, Dispatch, Reply, PacketRefused, PacketFaults, EndRefused,
       Completed, ArmReboot, GetLostBusy, GetLost, HostAck, Receive
  <1>4. CASE RunState \/ RunTx \/ CancelTx \/ TxTimeout \/ ExpireState \/ ExpireTx
    BY <1>2, <1>4 DEF AnnouncedNow, RunState, RunTx, CancelTx, TxTimeout, ExpireState, ExpireTx
  <1>5. CASE \E t \in Threads : Lock(t) \/ CancelWork(t) \/ Schedule(t) \/ RetryTx(t) \/ TxError(t)
    BY <1>2, <1>5 DEF AnnouncedNow, Lock, CancelWork, Schedule, RetryTx, TxError
  <1>6. CASE UNCHANGED vars
    BY <1>2, <1>6 DEF AnnouncedNow, vars
  <1>7. CASE NewImageRefused
    BY <1>2, <1>7 DEF AnnouncedNow, NewImageRefused, Control
  <1>8. CASE SetReboot
    BY <1>2, <1>8 DEF AnnouncedNow, SetReboot, Control
  <1>9. CASE EndPending \/ EndCompletes
    <2>1. AtEnd(img).crc = img.crc /\ AtEnd(img) \in ImageType
      BY PacketCount, ImageFields, GapFields, EndType DEF AtEnd
    <2>2. Validated(AtEnd(img)).crc = img.crc
      BY <2>1 DEF Validated, ImageType
    <2>3. img'.crc = img.crc
      BY <1>9, <2>1, <2>2 DEF EndPending, EndCompletes
    <2>4. QED
      BY <1>2, <1>9, <2>3 DEF AnnouncedNow, EndPending, EndCompletes, StillReceiving
  \* A session ends: the update is given up, or there was none.
  <1>10. ASSUME eBtlState' \in {"Idle", "Error"}, UNCHANGED <<flash, requested>>, requested = FALSE
         PROVE  [Update!Next]_(Update!vars)
    <2>1. CASE AnnouncedNow = None
      BY <1>2, <1>10, <2>1 DEF AnnouncedNow
    <2>2. CASE AnnouncedNow # None
      BY <1>10, <2>2 DEF AnnouncedNow, Update!Next, Update!GiveUp
    <2>3. QED
      BY <2>1, <2>2
  <1>11. CASE Reinit
    BY <1>10, <1>11, NotRequested DEF Reinit, RequestHeld
  <1>12. CASE EndAborts
    BY <1>10, <1>12, NotRequested DEF EndAborts, AbortLocked, StillReceiving
  <1>13. CASE \E t \in Threads : Abort(t)
    BY <1>10, <1>13, NotRequested DEF Abort, AbortLocked, Control, RequestHeld
  <1>14. CASE StateTimeout
    <2>1. CASE UNCHANGED session
      BY <1>2, <1>14, <2>1 DEF StateTimeout, AnnouncedNow
    <2>2. CASE timer.armed /\ eBtlState # "Reboot" /\ AbortLocked
      BY <1>10, <1>14, <2>2, NotRequested DEF StateTimeout, AbortLocked, Control
    <2>3. QED
      BY <1>14, <2>1, <2>2 DEF StateTimeout
  <1>15. CASE NewImage \/ Erase
    <2>1. eBtlState = "Idle" /\ eBtlState' = "Idle" /\ requested = FALSE
      BY <1>15, NotRequested DEF NewImage, Erase, Control
    <2>2. \/ UNCHANGED <<flash, requested>>
          \/ requested' = FALSE /\ \E x \in {Erased, Scrap} : flash' = [c \in Cells |-> x]
      BY <1>15, <2>1 DEF NewImage, Erase
    <2>3. CASE UNCHANGED <<flash, requested>>
      BY <1>10, <2>1, <2>3
    <2>4. CASE requested' = FALSE /\ \E x \in {Erased, Scrap} : flash' = [c \in Cells |-> x]
      BY <2>1, <2>4 DEF Update!Next, Update!Prepare
    <2>5. QED
      BY <2>2, <2>3, <2>4
  <1>16. CASE Start
    <2>1. /\ eBtlState = "Idle" /\ eBtlState' = "InProg" /\ UNCHANGED <<img, flash, requested>>
          /\ img.crc \in Images /\ \A c \in Cells : flash[c] = Erased
      BY <1>16 DEF Start, Control, Listed, Unwritten
    <2>2. flash = [c \in Cells |-> Erased]
      BY <2>1
    <2>3. QED
      BY <2>1, <2>2 DEF Update!Next, Update!Announce
  <1>17. CASE PacketStored \/ PacketAborts
    <2> DEFINE id == msg.id
    <2>1. id \in Ids /\ id \in Nat /\ msg.data \in Data
      BY <1>17 DEF PacketStored, PacketAborts, TypeInv, MsgMatches, Ids
    <2>2. eBtlState = "InProg" /\ UNCHANGED requested /\ img.crc \in Images
      BY <1>17 DEF PacketStored, PacketAborts, StillReceiving, Listed
    <2>3. requested = FALSE
      BY <2>2, NotRequested
    <2>4. img.size \in Nat /\ (BytesOf(id, img.size) > 0 => id \in Cells)
      <3>1. img.size \in Nat /\ img.size <= Avail
        BY <2>2, ConstantTypes, ImageFields DEF Digested, DigestOK
      <3>2. QED
        BY <2>1, <3>1, PacketsInImage, CellsEnough
    <2>5. CASE PacketStored
      <3> DEFINE g == WithGap(img, id)
      <3>1. /\ img' = Stored(g, id, msg.data) /\ UNCHANGED eBtlState
            /\ flash' = IF Writes(img, id) THEN [flash EXCEPT ![id] = msg.data] ELSE flash
            /\ Welcome(img, id)
        BY <2>5 DEF PacketStored
      <3>2. img'.crc = img.crc
        <4>1. g \in ImageType /\ g.crc = img.crc
          BY <2>1, GapType, GapFields
        <4>2. Stored(g, id, msg.data).crc = g.crc
          BY <4>1 DEF Stored, ImageType
        <4>3. QED
          BY <3>1, <4>1, <4>2
      <3>3. CASE ~Writes(img, id)
        BY <1>2, <2>2, <3>1, <3>2, <3>3 DEF AnnouncedNow
      <3>4. CASE Writes(img, id)
        <4>1. id \in Cells /\ BytesOf(id, img.size) > 0
          BY <2>4, <3>4 DEF Writes
        <4>2. flash[id] = Erased
          <5>1. Exact(img, flash)
            BY <2>2, ExactListed
          <5>2. id < img.nextId => id \in Pending(img)
            BY <2>1, <3>1, ImageFields DEF Welcome
          <5>3. QED
            BY <4>1, <5>1, <5>2 DEF Exact
        <4>3. Update!Store(id)
          BY <2>1, <2>2, <2>3, <3>1, <3>2, <3>4, <4>2 DEF Update!Store
        <4>4. QED
          BY <4>1, <4>3 DEF Update!Next
      <3>5. QED
        BY <3>3, <3>4
    <2>6. CASE PacketAborts
      <3>1. eBtlState' = "Error"
        BY <2>6 DEF PacketAborts, AbortLocked
      <3>2. CASE UNCHANGED flash
        BY <1>10, <2>2, <2>3, <3>1, <3>2
      <3>3. CASE BytesOf(id, img.size) > 0 /\ flash' = [flash EXCEPT ![id] = Scrap]
        <4>1. Update!Spoil(id)
          BY <2>2, <2>3, <3>1, <3>3 DEF Update!Spoil
        <4>2. QED
          BY <2>4, <3>3, <4>1 DEF Update!Next
      <3>4. QED
        BY <2>6, <3>2, <3>3 DEF PacketAborts
    <2>7. QED
      BY <1>17, <2>5, <2>6
  <1>18. CASE RequestUpgrade
    <2>1. /\ eBtlState = "Completed" /\ UNCHANGED <<eBtlState, img, flash>>
          /\ img.crc \in Images /\ ImageInSlot
      BY <1>18 DEF RequestUpgrade, Control, Listed, Digested
    <2>2. CASE UNCHANGED requested
      BY <1>2, <2>1, <2>2 DEF AnnouncedNow
    <2>3. CASE requested' = TRUE
      <3>1. Update!Holds(img.crc)
        BY <2>1 DEF ImageInSlot, Update!Holds
      <3>2. Update!Request
        BY <2>1, <2>3, <3>1 DEF Update!Request, Update!Holds
      <3>3. QED
        BY <3>2 DEF Update!Next
    <2>4. QED
      BY <1>18, <2>2, <2>3 DEF RequestUpgrade
  <1>19. CASE Reset
    BY <1>19 DEF Reset, Update!Next, Update!Restart
  <1>20. QED
    BY <1>3, <1>4, <1>5, <1>6, <1>7, <1>8, <1>9, <1>11, <1>12, <1>13, <1>14, <1>15, <1>16,
       <1>17, <1>18, <1>19
    DEF Next, Btl, Wq, Shared, Packet, End, SysReboot, PowerLoss

\* The session implements FirmwareUpdate, for every size of slot, packet and image.
THEOREM UpdateImplemented == Spec => ImplementsUpdate
  <1>1. Spec => []SInv
    BY SessionInvariant
  <1>2. SInv /\ [Next]_vars => [Update!Next]_(Update!vars)
    BY UpdateStep
  <1>3. QED
    BY <1>1, <1>2, UpdateInit, PTL DEF Spec, ImplementsUpdate, Update!Spec
=============================================================================
