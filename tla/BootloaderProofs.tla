-------------------------- MODULE BootloaderProofs --------------------------
(***************************************************************************)
(* Proofs about the firmware-update session: type correctness, and that     *)
(* MCUboot is asked to swap only while the slot holds the announced image.  *)
(***************************************************************************)
EXTENDS BootloaderProperties, TLAPS

(* TypeOK is not inductive: a handler uses the fields its message has, and  *)
(* a first report counts as a try.                                          *)
MsgMatches ==
  /\ pc["btl"] = "packet" => msg \in [cmd : {"FWUpMsg"}, id : Ids, data : Data]
  /\ pc["btl"] \in {"newImage", "erasing"} =>
       msg \in [cmd : {"FWUpReq"}, size : Sizes, crc : Images]

FreshWhenIdle == tx.state = "Idle" => tx.retry = 0

TypeInv == TypeOK /\ MsgMatches /\ FreshWhenIdle

(* Which thread may be where in which state of the session. *)
Control ==
  /\ pc["wq"] = "abort" => eBtlState = "InProg" /\ owner # "btl"
  /\ timer.armed => eBtlState \in {"InProg", "Reboot"}
  /\ pc["btl"] \in {"newImage", "erasing", "start"} => eBtlState = "Idle"
  /\ pc["btl"] \in {"completed", "upgrade", "setReboot"} => eBtlState = "Completed"
  /\ pc["btl"] = "armReboot" => eBtlState = "Reboot"

(* While an upgrade is requested nothing aborts the session or erases the slot. *)
RequestHeld ==
  requested =>
    \/ eBtlState = "Completed" /\ pc["btl"] = "setReboot"
    \/ /\ eBtlState = "Reboot"
       /\ pc["btl"] \in {"armReboot", "reply", "idle", "dispatch", "hostAck",
                         "retry", "schedule", "txError", "reboot"}

(* The running CRC covers the packets below Covered(img): all before the     *)
(* first one that was lost, or all that came while none was lost.            *)
Covered(i) == IF i.lostState THEN i.firstLost ELSE i.nextId

Fresh(i) == i = Announced(i.size, i.crc)

DigestOK(i, f) ==
  /\ i.size \in 1 .. Avail
  /\ Len(i.digest) = IF Covered(i) <= PacketsOf(i.size) THEN Covered(i)
                     ELSE PacketsOf(i.size)
  /\ \A k \in 1 .. Len(i.digest) : f[k - 1] = i.digest[k]
  /\ i.lost \subseteq Covered(i) .. i.nextId - 1
  /\ Covered(i) <= i.nextId
  /\ ~i.lostState => i.lost = {}

Digested ==
  /\ eBtlState = "InProg" => DigestOK(img, flash)
  /\ pc["btl"] \in {"erasing", "start"} => Fresh(img) /\ img.size \in 1 .. Avail
  /\ eBtlState \in {"Completed", "Reboot"} => ImageInSlot

IInv == TypeInv /\ Control /\ RequestHeld /\ Digested

-----------------------------------------------------------------------------
\* What the assumption says of each constant.
LEMMA ConstantTypes ==
  /\ Payload \in Nat /\ Payload > 0
  /\ Avail \in Nat /\ Avail > 0
  /\ RetryMax \in Nat /\ RetryMax > 0
  /\ IdMod \in Nat /\ IdMod > 0
  /\ SeqMod \in Nat /\ SeqMod > 0
  /\ Sizes \subseteq Nat
  /\ Images \subseteq Seq(Data)
  /\ Erased \notin Data /\ Scrap \notin Data
  /\ None # "btl" /\ None # "wq"
  /\ (IdMod - 1) * Payload > Avail
  BY ConstantsAssumption

\* The number of packets is the quotient rounded up.
LEMMA PacketCount ==
  ASSUME NEW size \in Nat
  PROVE  /\ PacketsOf(size) \in Nat
         /\ PacketsOf(size) * Payload >= size
         /\ (PacketsOf(size) - 1) * Payload < size
  <1> DEFINE n == PacketsOf(size)
             r == (size + Payload - 1) % Payload
  <1>1. Payload \in Nat /\ Payload > 0
    BY ConstantTypes
  <1>2. n \in Int /\ r \in 0 .. Payload - 1 /\ size + Payload - 1 = Payload * n + r
    BY <1>1 DEF PacketsOf
  <1>3. Payload * n = n * Payload /\ (n - 1) * Payload = n * Payload - Payload
    BY <1>1, <1>2
  <1>4. n * Payload >= size /\ (n - 1) * Payload < size
    BY <1>1, <1>2, <1>3
  <1>5. n >= 0
    BY <1>1, <1>2
  <1>6. QED
    BY <1>2, <1>4, <1>5

\* Multiplication by the payload reflects the order.
LEMMA PayloadOrder ==
  ASSUME NEW a \in Int, NEW b \in Int, a * Payload < b * Payload
  PROVE  a < b
  <1>1. Payload \in Nat /\ Payload > 0
    BY ConstantTypes
  <1>2. CASE a >= b
    <2>1. (a - b) * Payload >= 0
      BY <1>1, <1>2
    <2>2. (a - b) * Payload = a * Payload - b * Payload
      BY <1>1
    <2>3. QED
      BY <2>1, <2>2, <1>1
  <1>3. QED
    BY <1>2

-----------------------------------------------------------------------------
(* The types of the operators the actions are made of. *)

LEMMA TimerOps ==
  ASSUME NEW w \in TimerType
  PROVE  /\ w.armed \in BOOLEAN
         /\ Refreshed(w) \in TimerType
         /\ Disarmed(w) \in TimerType /\ ~Disarmed(w).armed
         /\ Cancelled(w) \in TimerType /\ Cancelled(w).armed = w.armed
         /\ Rescheduled(w) \in TimerType /\ Rescheduled(w).armed = w.armed
         /\ Taken(w) \in TimerType /\ Taken(w).armed = w.armed
         /\ Expired(w) \in TimerType /\ Expired(w).armed = w.armed
         /\ Late(w) \in TimerType /\ Late(w).armed = w.armed
  BY DEF TimerType, Refreshed, Disarmed, Cancelled, Rescheduled, Taken, Expired, Late

LEMMA WorkOps ==
  ASSUME NEW w \in WorkType
  PROVE  /\ Cancelled(w) \in WorkType
         /\ Rescheduled(w) \in WorkType
         /\ Taken(w) \in WorkType
         /\ Expired(w) \in WorkType
  BY DEF WorkType, Cancelled, Rescheduled, Taken, Expired

LEMMA TxOps ==
  ASSUME NEW x \in TxType
  PROVE  /\ x.state \in {"Idle", "InProgress", "RetryInProgress"}
         /\ x.retry \in 0 .. RetryMax
         /\ x.retry = 0 => Reported(x) \in TxType /\ Unreported(x) \in TxType
         /\ Reported(x).state # "Idle" /\ Unreported(x).state # "Idle"
         /\ Acknowledged(x) \in TxType /\ Acknowledged(x).retry = 0
         /\ ToRetry(x) \in TxType /\ ToRetry(x).state # "Idle"
         /\ x.retry < RetryMax => Retried(x) \in TxType
         /\ Retried(x).state = x.state
  <1>1. ASSUME NEW n \in 0 .. SeqMod - 1
        PROVE  /\ [x EXCEPT !.state = "InProgress", !.frame = x.seq, !.seq = n] \in TxType
               /\ [x EXCEPT !.state = "InProgress", !.frame = x.seq, !.seq = n].state # "Idle"
    BY DEF TxType
  <1>2. ASSUME NEW n \in 0 .. RetryMax
        PROVE  [x EXCEPT !.state = "RetryInProgress", !.frame = x.seq, !.retry = n] \in TxType
    BY DEF TxType
  <1>3. ASSUME NEW n
        PROVE  [x EXCEPT !.state = "RetryInProgress", !.frame = x.seq, !.retry = n].state # "Idle"
    BY DEF TxType
  <1>4. ASSUME NEW n \in 0 .. RetryMax
        PROVE  [x EXCEPT !.state = "Idle", !.retry = n] \in TxType
    BY DEF TxType
  <1>5. Acknowledged(x).retry = 0
    BY DEF TxType, Acknowledged
  <1>6. ToRetry(x) \in TxType /\ ToRetry(x).state # "Idle"
    BY DEF TxType, ToRetry
  <1>7. /\ x.retry < RetryMax => Retried(x) \in TxType
        /\ Retried(x).state = x.state
    BY ConstantTypes DEF TxType, Retried
  <1>8. /\ x.seq \in 0 .. SeqMod - 1 /\ x.retry \in 0 .. RetryMax
        /\ x.state \in {"Idle", "InProgress", "RetryInProgress"}
    BY DEF TxType
  <1>9. (x.seq + 1) % SeqMod \in 0 .. SeqMod - 1
    BY <1>8, ConstantTypes
  <1>10. 0 \in 0 .. RetryMax /\ (x.retry = 0 => x.retry + 1 \in 0 .. RetryMax)
    BY <1>8, ConstantTypes
  <1>11. Acknowledged(x) \in TxType
    BY <1>4, <1>10 DEF Acknowledged
  <1>12. Reported(x) \in TxType /\ Reported(x).state # "Idle"
    BY <1>1, <1>9 DEF Reported
  <1>13. x.retry = 0 => Unreported(x) \in TxType
    BY <1>2, <1>10 DEF Unreported
  <1>14. Unreported(x).state # "Idle"
    BY <1>3 DEF Unreported
  <1>15. QED
    BY <1>5, <1>6, <1>7, <1>8, <1>11, <1>12, <1>13, <1>14

LEMMA BootValues ==
  /\ NoImage \in ImageType /\ NoTx \in TxType
  /\ Unarmed \in TimerType /\ ~Unarmed.armed /\ NoWork \in WorkType
  /\ NoTx.state = "Idle" /\ NoTx.retry = 0
  BY ConstantTypes DEF NoImage, ImageType, NoTx, TxType, Unarmed, TimerType, NoWork,
     WorkType, Ids

LEMMA LabelsKnown ==
  {"idle", "dispatch", "newImage", "erasing", "start", "packet", "end", "abort", "cancel",
   "completed", "upgrade", "setReboot", "armReboot", "reinit", "getLost", "hostAck",
   "retry", "schedule", "txError", "reboot", "reply", "fault", "stateTimeout",
   "txTimeout", "cancelTx"} \subseteq Labels
  BY DEF Labels, BtlPcs, WqPcs, SessionPcs

LEMMA HandlerOps ==
  ASSUME NEW state, NEW cmd
  PROVE  /\ Handler(state, cmd) \in Labels
         /\ Handler(state, cmd) = "packet" => cmd = "FWUpMsg"
         /\ Handler(state, cmd) = "newImage" => cmd = "FWUpReq" /\ state = "Idle"
         /\ Handler(state, cmd) \notin {"erasing", "start", "completed", "setReboot",
                                        "armReboot"}
         /\ Handler(state, cmd) = "upgrade" => state = "Completed"
         /\ state = "Reboot" => Handler(state, cmd) = "reboot"
  BY LabelsKnown DEF Handler

LEMMA HostMessages ==
  ASSUME NEW m \in Host \cup {Quiet}
  PROVE  /\ m.cmd = "FWUpMsg" => m \in [cmd : {"FWUpMsg"}, id : Ids, data : Data]
         /\ m.cmd = "FWUpReq" => m \in [cmd : {"FWUpReq"}, size : Sizes, crc : Images]
  BY DEF Host, Quiet

LEMMA PcGoto ==
  ASSUME pc \in [Threads -> Labels], NEW t \in Threads, NEW l \in Labels, Goto(t, l)
  PROVE  /\ pc' \in [Threads -> Labels]
         /\ pc'[t] = l
         /\ \A u \in Threads \ {t} : pc'[u] = pc[u]
  BY DEF Goto

LEMMA BytesType ==
  ASSUME NEW id \in Nat, NEW size \in Nat
  PROVE  BytesOf(id, size) \in Nat
  <1>1. Payload \in Nat /\ id * Payload \in Nat
    BY ConstantTypes
  <1>2. QED
    BY <1>1 DEF BytesOf

LEMMA ImageFields ==
  ASSUME NEW i \in ImageType
  PROVE  /\ i.size \in Nat /\ i.size \in Sizes \cup {0}
         /\ i.crc \in Images \cup {<<>>} /\ i.crc \in Seq(Data)
         /\ i.nextId \in Nat /\ i.lastId \in Ids /\ i.received \in Nat
         /\ i.digest \in Seq(Data) /\ i.lostState \in BOOLEAN /\ i.firstLost \in Nat
         /\ i.lost \in SUBSET Nat /\ i.handled \in SUBSET Nat /\ i.recovered \in Nat
  <1>1. i.size \in Sizes \cup {0} /\ i.crc \in Images \cup {<<>>}
    BY DEF ImageType
  <1>2. 0 \in Nat /\ <<>> \in Seq(Data)
    OBVIOUS
  <1>3. i.size \in Nat /\ i.crc \in Seq(Data)
    <2>1. Sizes \subseteq Nat /\ Images \subseteq Seq(Data)
      BY ConstantTypes
    <2>2. i.size \in Nat
      BY <1>1, <1>2, <2>1, Zenon
    <2>3. i.crc \in Seq(Data)
      BY <1>1, <1>2, <2>1, Zenon
    <2>4. QED
      BY <2>2, <2>3
  <1>4. /\ i.nextId \in Nat /\ i.lastId \in Ids /\ i.received \in Nat
        /\ i.digest \in Seq(Data) /\ i.lostState \in BOOLEAN /\ i.firstLost \in Nat
        /\ i.lost \in SUBSET Nat /\ i.handled \in SUBSET Nat /\ i.recovered \in Nat
    BY DEF ImageType
  <1>5. QED
    BY <1>1, <1>3, <1>4

LEMMA ImageOps ==
  ASSUME NEW i \in ImageType, NEW s \in Sizes, NEW c \in Images
  PROVE  Resized(i, s) \in ImageType /\ Announced(s, c) \in ImageType
  BY ConstantTypes, BootValues DEF ImageType, Resized, Announced

LEMMA GapType ==
  ASSUME NEW i \in ImageType, NEW id \in Nat
  PROVE  WithGap(i, id) \in ImageType
  <1> DEFINE l == i.lost \cup (i.nextId .. id - 1)
             f == IF i.lostState THEN i.firstLost ELSE i.nextId
  <1>1. l \in SUBSET Nat /\ f \in Nat
    BY ImageFields
  <1>2. NoteGap(i, id) = [i EXCEPT !.lost = l, !.firstLost = f, !.lostState = TRUE,
                                   !.nextId = id]
    BY DEF NoteGap
  <1> HIDE DEF l, f
  <1>3. NoteGap(i, id) \in ImageType
    BY <1>1, <1>2 DEF ImageType
  <1>4. QED
    BY <1>3 DEF WithGap

LEMMA StoredType ==
  ASSUME NEW i \in ImageType, NEW id \in Ids, NEW d \in Data
  PROVE  Stored(i, id, d) \in ImageType
  <1> DEFINE bytes == BytesOf(id, i.size)
             recovers == i.lostState /\ id \in Pending(i)
             n == IF id >= i.nextId THEN (id + 1) % IdMod ELSE i.nextId
             r == i.received + bytes
             g == IF i.lostState \/ bytes = 0 THEN i.digest ELSE Append(i.digest, d)
             h == IF recovers THEN i.handled \cup {id} ELSE i.handled
             v == IF recovers THEN i.recovered + 1 ELSE i.recovered
  <1>1. id \in Nat /\ i.size \in Nat
    BY ImageFields DEF Ids
  <1>2. r \in Nat
    <2>1. bytes \in Nat
      BY <1>1, BytesType
    <2>2. QED
      BY <2>1, ImageFields
  <1>3. n \in Nat
    BY <1>1, ImageFields, ConstantTypes
  <1>4. g \in Seq(Data)
    BY ImageFields
  <1>5. h \in SUBSET Nat /\ v \in Nat
    BY <1>1, ImageFields
  <1>6. Stored(i, id, d) = [i EXCEPT !.lastId = id, !.nextId = n, !.received = r,
                                     !.digest = g, !.handled = h, !.recovered = v]
    BY DEF Stored
  <1> HIDE DEF n, r, g, h, v
  <1>7. QED
    BY <1>2, <1>3, <1>4, <1>5, <1>6 DEF ImageType
LEMMA EndType ==
  ASSUME NEW i \in ImageType
  PROVE  AtEnd(i) \in ImageType
  <1>1. PacketsOf(i.size) \in Nat
    BY ImageFields, PacketCount
  <1>2. QED
    BY <1>1, GapType DEF AtEnd

LEMMA ValidatedType ==
  ASSUME NEW i \in ImageType, FinalDigest(i) = i.crc
  PROVE  Validated(i) \in ImageType
  <1>1. i.crc \in Seq(Data)
    BY ImageFields
  <1>2. Validated(i) = [i EXCEPT !.lostState = FALSE, !.digest = i.crc]
    BY DEF Validated
  <1>3. QED
    BY <1>1, <1>2 DEF ImageType

-----------------------------------------------------------------------------
(* TypeInv is inductive, action by action. *)

LEMMA TypeStep ==
  ASSUME TypeInv, [Next]_vars
  PROVE  TypeInv'
  <1> USE DEF TypeInv, TypeOK, MsgMatches, FreshWhenIdle, Threads, Goto, Unlock, At,
              Holding, session
  <1>1. ASSUME NEW m \in Host, Receive(m)
        PROVE  TypeInv'
    BY <1>1, LabelsKnown DEF Receive
  <1>2. ASSUME Dispatch
        PROVE  TypeInv'
    BY <1>2, HandlerOps, HostMessages DEF Dispatch
  <1>3. ASSUME NewImageRefused
        PROVE  TypeInv'
    BY <1>3, ImageOps, LabelsKnown DEF NewImageRefused
  <1>4. ASSUME NewImage
        PROVE  TypeInv'
    BY <1>4, ImageOps, LabelsKnown DEF NewImage
  <1>5. ASSUME Erase
        PROVE  TypeInv'
    BY <1>5, LabelsKnown DEF Erase
  <1>6. ASSUME Start
        PROVE  TypeInv'
    BY <1>6, LabelsKnown, TimerOps DEF Start, States
  <1>7. ASSUME Reinit
        PROVE  TypeInv'
    BY <1>7, LabelsKnown, TimerOps, BootValues DEF Reinit, States
  <1>8. ASSUME Reply
        PROVE  TypeInv'
    BY <1>8, LabelsKnown DEF Reply
  <1>9. ASSUME PacketRefused
        PROVE  TypeInv'
    BY <1>9, LabelsKnown DEF PacketRefused
  <1>10. ASSUME PacketStored
        PROVE  TypeInv'
    <2>1. msg.id \in Ids /\ msg.id \in Nat /\ msg.data \in Data
      BY <1>10 DEF PacketStored, Ids
    <2>2. img' \in ImageType
      BY <1>10, <2>1, GapType, StoredType DEF PacketStored
    <2>3. flash' \in [Cells -> Data \cup {Erased, Scrap}]
      BY <1>10, <2>1 DEF PacketStored
    <2>4. timer' \in TimerType /\ flashOpen' \in BOOLEAN
      BY <1>10, TimerOps DEF PacketStored
    <2>5. QED
      BY <1>10, <2>2, <2>3, <2>4, LabelsKnown DEF PacketStored
  <1>11. ASSUME PacketAborts
        PROVE  TypeInv'
    <2>1. flash' \in [Cells -> Data \cup {Erased, Scrap}]
      BY <1>11 DEF PacketAborts
    <2>2. AbortLocked /\ pc' = [pc EXCEPT !["btl"] = "cancel"] /\ owner' = None /\ ok' = FALSE
      BY <1>11 DEF PacketAborts
    <2>3. UNCHANGED <<txWork, msg, requested>>
      BY <1>11 DEF PacketAborts
    <2>4. QED
      BY <2>1, <2>2, <2>3, LabelsKnown, BootValues, TimerOps DEF AbortLocked, States
  <1>12. ASSUME PacketFaults
        PROVE  TypeInv'
    BY <1>12, LabelsKnown DEF PacketFaults
  <1>13. ASSUME EndPending
        PROVE  TypeInv'
    <2>1. img' \in ImageType
      BY <1>13, EndType DEF EndPending
    <2>2. timer' \in TimerType
      BY <1>13, TimerOps DEF EndPending
    <2>3. QED
      BY <1>13, <2>1, <2>2, LabelsKnown, BootValues DEF EndPending
  <1>14. ASSUME EndCompletes
        PROVE  TypeInv'
    <2>1. img' \in ImageType
      <3>1. AtEnd(img) \in ImageType
        BY EndType
      <3>2. FinalDigest(AtEnd(img)) = AtEnd(img).crc
        BY <1>14 DEF EndCompletes, Complete
      <3>3. img' = Validated(AtEnd(img))
        BY <1>14 DEF EndCompletes
      <3>4. QED
        BY <3>1, <3>2, <3>3, ValidatedType
    <2>2. timer' \in TimerType
      BY <1>14, TimerOps DEF EndCompletes
    <2>3. QED
      BY <1>14, <2>1, <2>2, LabelsKnown DEF EndCompletes, States
  <1>15. ASSUME EndAborts
        PROVE  TypeInv'
    BY <1>15, LabelsKnown, BootValues, TimerOps DEF EndAborts, AbortLocked, States
  <1>16. ASSUME EndRefused
        PROVE  TypeInv'
    BY <1>16, LabelsKnown DEF EndRefused
  <1>17. ASSUME Completed
        PROVE  TypeInv'
    BY <1>17, LabelsKnown, TimerOps DEF Completed
  <1>18. ASSUME RequestUpgrade
        PROVE  TypeInv'
    <2>1. CASE Goto("btl", "setReboot")
      BY <1>18, <2>1, LabelsKnown DEF RequestUpgrade
    <2>2. CASE Goto("btl", "abort")
      BY <1>18, <2>2, LabelsKnown DEF RequestUpgrade
    <2>3. QED
      BY <1>18, <2>1, <2>2 DEF RequestUpgrade
  <1>19. ASSUME SetReboot
        PROVE  TypeInv'
    BY <1>19, LabelsKnown, TimerOps DEF SetReboot, States
  <1>20. ASSUME ArmReboot
        PROVE  TypeInv'
    BY <1>20, LabelsKnown, TimerOps DEF ArmReboot
  <1>21. ASSUME GetLostBusy
        PROVE  TypeInv'
    BY <1>21, LabelsKnown DEF GetLostBusy
  <1>22. ASSUME GetLost
        PROVE  TypeInv'
    BY <1>22, LabelsKnown, TxOps DEF GetLost
  <1>23. ASSUME HostAck
        PROVE  TypeInv'
    BY <1>23, LabelsKnown, TxOps, WorkOps DEF HostAck
  <1>24. ASSUME RunState
        PROVE  TypeInv'
    BY <1>24, LabelsKnown, TimerOps DEF RunState
  <1>25. ASSUME RunTx
        PROVE  TypeInv'
    BY <1>25, LabelsKnown, WorkOps DEF RunTx
  <1>26. ASSUME StateTimeout
        PROVE  TypeInv'
    <2>1. UNCHANGED <<txWork, msg, ok, flash, requested>> /\ owner' = None
      BY <1>26 DEF StateTimeout
    <2>2. \E l \in {"idle", "reboot", "cancelTx"} : pc' = [pc EXCEPT !["wq"] = l]
      BY <1>26 DEF StateTimeout
    <2>3. pc' \in [Threads -> Labels] /\ pc'["btl"] = pc["btl"]
      BY <2>2, LabelsKnown
    <2>4. CASE AbortLocked
      BY <2>1, <2>3, <2>4, TimerOps, BootValues DEF AbortLocked, States
    <2>5. CASE UNCHANGED <<session, tx>> /\ timer' \in {timer, Rescheduled(timer), Disarmed(timer)}
      BY <2>1, <2>3, <2>5, TimerOps
    <2>6. QED
      BY <1>26, <2>4, <2>5 DEF StateTimeout
  <1>27. ASSUME CancelTx
        PROVE  TypeInv'
    BY <1>27, LabelsKnown, WorkOps DEF CancelTx
  <1>28. ASSUME TxTimeout
        PROVE  TypeInv'
    BY <1>28, LabelsKnown, TxOps DEF TxTimeout
  <1>29. ASSUME NEW t \in Threads, Lock(t)
        PROVE  TypeInv'
    BY <1>29 DEF Lock
  <1>30. ASSUME NEW t \in Threads, Abort(t)
        PROVE  TypeInv'
    BY <1>30, LabelsKnown, BootValues, TimerOps DEF Abort, AbortLocked, States
  <1>31. ASSUME NEW t \in Threads, CancelWork(t)
        PROVE  TypeInv'
    BY <1>31, LabelsKnown, TimerOps, WorkOps DEF CancelWork, Finish
  <1>32. ASSUME NEW t \in Threads, Schedule(t)
        PROVE  TypeInv'
    BY <1>32, LabelsKnown, TimerOps, WorkOps DEF Schedule, Finish
  <1>33. ASSUME NEW t \in Threads, RetryTx(t)
        PROVE  TypeInv'
    BY <1>33, LabelsKnown, TxOps, ConstantTypes DEF RetryTx, Finish, Exhausted
  <1>34. ASSUME NEW t \in Threads, TxError(t)
        PROVE  TypeInv'
    BY <1>34, LabelsKnown, WorkOps DEF TxError, Finish
  <1>35. ASSUME Reset
        PROVE  TypeInv'
    BY <1>35, LabelsKnown, BootValues DEF Reset, States
  <1>36. ASSUME ExpireState
        PROVE  TypeInv'
    BY <1>36, TimerOps DEF ExpireState
  <1>37. ASSUME ExpireTx
        PROVE  TypeInv'
    BY <1>37, WorkOps DEF ExpireTx
  <1>38. CASE UNCHANGED vars
    BY <1>38 DEF vars
  <1>39. QED
    BY <1>1, <1>2, <1>3, <1>4, <1>5, <1>6, <1>7, <1>8, <1>9, <1>10, <1>11, <1>12, <1>13, <1>14, <1>15, <1>16, <1>17, <1>18, <1>19, <1>20, <1>21, <1>22, <1>23, <1>24, <1>25, <1>26, <1>27, <1>28, <1>29, <1>30, <1>31, <1>32, <1>33, <1>34, <1>35, <1>36, <1>37, <1>38
    DEF Next, Btl, Wq, Shared, Packet, End, SysReboot, PowerLoss

LEMMA TypeInit == Init => TypeInv
  BY LabelsKnown, BootValues
  DEF Init, TypeInv, TypeOK, MsgMatches, FreshWhenIdle, Threads, States

\* Every variable keeps its type, whatever the image, the packets that were lost
\* and the timeouts: no list, counter or identifier of vUpdate_FWImage leaves
\* the range it is meant to have, and the report is retried RetryMax times at most.
THEOREM TypeCorrect == Spec => []TypeOK
  <1>1. Spec => []TypeInv
    BY TypeInit, TypeStep, PTL DEF Spec
  <1>2. TypeInv => TypeOK
    BY DEF TypeInv
  <1>3. QED
    BY <1>1, <1>2, PTL
-----------------------------------------------------------------------------
(* Control and RequestHeld are inductive: the state of the session and the   *)
(* places of the two threads go together.                                   *)

LEMMA ControlStep ==
  ASSUME TypeInv, Control, RequestHeld, [Next]_vars
  PROVE  Control' /\ RequestHeld'
  <1>0. /\ pc \in [Threads -> Labels] /\ eBtlState \in States /\ timer \in TimerType
        /\ None # "btl" /\ None # "wq"
    BY ConstantTypes DEF TypeInv, TypeOK
  <1> USE DEF Control, RequestHeld, Threads, Goto, Unlock, At, Holding, MayRun, SessionPcs,
              session
  <1>1. ASSUME NEW m \in Host, Receive(m)
        PROVE  Control' /\ RequestHeld'
    BY <1>0, <1>1 DEF Receive
  <1>2. ASSUME Dispatch
        PROVE  Control' /\ RequestHeld'
    BY <1>0, <1>2, HandlerOps DEF Dispatch
  <1>3. ASSUME NewImageRefused
        PROVE  Control' /\ RequestHeld'
    BY <1>0, <1>3 DEF NewImageRefused
  <1>4. ASSUME NewImage
        PROVE  Control' /\ RequestHeld'
    BY <1>0, <1>4 DEF NewImage
  <1>5. ASSUME Erase
        PROVE  Control' /\ RequestHeld'
    BY <1>0, <1>5 DEF Erase
  <1>6. ASSUME Start
        PROVE  Control' /\ RequestHeld'
    BY <1>0, <1>6 DEF Start
  <1>7. ASSUME Reinit
        PROVE  Control' /\ RequestHeld'
    BY <1>0, <1>7, TimerOps DEF Reinit
  <1>8. ASSUME Reply
        PROVE  Control' /\ RequestHeld'
    BY <1>0, <1>8 DEF Reply
  <1>9. ASSUME PacketRefused
        PROVE  Control' /\ RequestHeld'
    BY <1>0, <1>9 DEF PacketRefused
  <1>10. ASSUME PacketStored
        PROVE  Control' /\ RequestHeld'
    BY <1>0, <1>10 DEF PacketStored, StillReceiving
  <1>11. ASSUME PacketAborts
        PROVE  Control' /\ RequestHeld'
    BY <1>0, <1>11, TimerOps DEF PacketAborts, AbortLocked, StillReceiving
  <1>12. ASSUME PacketFaults
        PROVE  Control' /\ RequestHeld'
    BY <1>0, <1>12 DEF PacketFaults
  <1>13. ASSUME EndPending
        PROVE  Control' /\ RequestHeld'
    BY <1>0, <1>13 DEF EndPending, StillReceiving
  <1>14. ASSUME EndCompletes
        PROVE  Control' /\ RequestHeld'
    BY <1>0, <1>14, TimerOps DEF EndCompletes, StillReceiving
  <1>15. ASSUME EndAborts
        PROVE  Control' /\ RequestHeld'
    BY <1>0, <1>15, TimerOps DEF EndAborts, AbortLocked, StillReceiving
  <1>16. ASSUME EndRefused
        PROVE  Control' /\ RequestHeld'
    BY <1>0, <1>16 DEF EndRefused
  <1>17. ASSUME Completed
        PROVE  Control' /\ RequestHeld'
    BY <1>0, <1>17, TimerOps DEF Completed
  <1>18. ASSUME RequestUpgrade
        PROVE  Control' /\ RequestHeld'
    BY <1>0, <1>18 DEF RequestUpgrade
  <1>19. ASSUME SetReboot
        PROVE  Control' /\ RequestHeld'
    BY <1>0, <1>19, TimerOps DEF SetReboot
  <1>20. ASSUME ArmReboot
        PROVE  Control' /\ RequestHeld'
    BY <1>0, <1>20 DEF ArmReboot
  <1>21. ASSUME GetLostBusy
        PROVE  Control' /\ RequestHeld'
    BY <1>0, <1>21 DEF GetLostBusy
  <1>22. ASSUME GetLost
        PROVE  Control' /\ RequestHeld'
    BY <1>0, <1>22 DEF GetLost
  <1>23. ASSUME HostAck
        PROVE  Control' /\ RequestHeld'
    BY <1>0, <1>23 DEF HostAck
  <1>24. ASSUME RunState
        PROVE  Control' /\ RequestHeld'
    BY <1>0, <1>24, TimerOps DEF RunState
  <1>25. ASSUME RunTx
        PROVE  Control' /\ RequestHeld'
    BY <1>0, <1>25 DEF RunTx
  <1>26. ASSUME StateTimeout
        PROVE  Control' /\ RequestHeld'
    BY <1>0, <1>26, TimerOps DEF StateTimeout, AbortLocked
  <1>27. ASSUME CancelTx
        PROVE  Control' /\ RequestHeld'
    BY <1>0, <1>27 DEF CancelTx
  <1>28. ASSUME TxTimeout
        PROVE  Control' /\ RequestHeld'
    BY <1>0, <1>28 DEF TxTimeout
  <1>29. ASSUME NEW t \in Threads, Lock(t)
        PROVE  Control' /\ RequestHeld'
    BY <1>0, <1>29 DEF Lock
  <1>30. ASSUME NEW t \in Threads, Abort(t)
        PROVE  Control' /\ RequestHeld'
    BY <1>0, <1>30, TimerOps DEF Abort, AbortLocked
  <1>31. ASSUME NEW t \in Threads, CancelWork(t)
        PROVE  Control' /\ RequestHeld'
    BY <1>0, <1>31, TimerOps DEF CancelWork, Finish
  <1>32. ASSUME NEW t \in Threads, Schedule(t)
        PROVE  Control' /\ RequestHeld'
    BY <1>0, <1>32, TimerOps DEF Schedule, Finish
  <1>33. ASSUME NEW t \in Threads, RetryTx(t)
        PROVE  Control' /\ RequestHeld'
    BY <1>0, <1>33 DEF RetryTx, Finish
  <1>34. ASSUME NEW t \in Threads, TxError(t)
        PROVE  Control' /\ RequestHeld'
    BY <1>0, <1>34 DEF TxError, Finish
  <1>35. ASSUME Reset
        PROVE  Control' /\ RequestHeld'
    BY <1>0, <1>35, BootValues DEF Reset
  <1>36. ASSUME ExpireState
        PROVE  Control' /\ RequestHeld'
    BY <1>0, <1>36, TimerOps DEF ExpireState
  <1>37. ASSUME ExpireTx
        PROVE  Control' /\ RequestHeld'
    BY <1>0, <1>37 DEF ExpireTx
  <1>38. CASE UNCHANGED vars
    BY <1>38 DEF vars
  <1>39. QED
    BY <1>1, <1>2, <1>3, <1>4, <1>5, <1>6, <1>7, <1>8, <1>9, <1>10, <1>11, <1>12,
       <1>13, <1>14, <1>15, <1>16, <1>17, <1>18, <1>19, <1>20, <1>21, <1>22, <1>23, <1>24,
       <1>25, <1>26, <1>27, <1>28, <1>29, <1>30, <1>31, <1>32, <1>33, <1>34, <1>35, <1>36,
       <1>37, <1>38
    DEF Next, Btl, Wq, Shared, Packet, End, SysReboot, PowerLoss
-----------------------------------------------------------------------------
(* Digested is inductive: a packet is written behind what the running CRC    *)
(* covers, and extends it only while none was lost.                         *)

\* The packets below PacketsOf(size) are those with bytes in the image.
LEMMA PacketsInImage ==
  ASSUME NEW size \in Nat, NEW id \in Nat
  PROVE  /\ id * Payload < size <=> id < PacketsOf(size)
         /\ BytesOf(id, size) > 0 <=> id < PacketsOf(size)
         /\ BytesOf(id, size) = 0 <=> id >= PacketsOf(size)
  <1> DEFINE n == PacketsOf(size)
  <1>1. Payload \in Nat /\ Payload > 0
    BY ConstantTypes
  <1>2. n \in Nat /\ n * Payload >= size /\ (n - 1) * Payload < size
    BY PacketCount
  <1> HIDE DEF n
  <1>3. id * Payload \in Nat /\ n * Payload \in Nat /\ (n - 1) * Payload \in Int
    BY <1>1, <1>2
  <1>4. ASSUME id * Payload < size
        PROVE  id < n
    <2>1. id * Payload < n * Payload
      BY <1>2, <1>3, <1>4
    <2>2. QED
      BY <1>2, <2>1, PayloadOrder
  <1>5. ASSUME id < n
        PROVE  id * Payload < size
    <2>1. (n - 1 - id) * Payload >= 0
      BY <1>1, <1>2, <1>5
    <2>2. (n - 1 - id) * Payload = (n - 1) * Payload - id * Payload
      BY <1>1, <1>2
    <2>3. QED
      BY <1>2, <1>3, <2>1, <2>2
  <1>6. id * Payload < size <=> id < n
    BY <1>4, <1>5
  <1>7. BytesOf(id, size) > 0 <=> id * Payload < size
    BY <1>1, <1>3 DEF BytesOf
  <1>8. BytesOf(id, size) = 0 <=> ~(id * Payload < size)
    BY <1>1, <1>3 DEF BytesOf
  <1>9. ~(id < n) <=> id >= n
    BY <1>2
  <1>10. QED
    BY <1>6, <1>7, <1>8, <1>9 DEF n

\* A packet of an image that fits the slot has a cell of its own.
LEMMA CellsEnough ==
  ASSUME NEW size \in Nat, size <= Avail, NEW id \in Nat, id < PacketsOf(size)
  PROVE  id \in Cells
  <1>1. id * Payload < size /\ id * Payload \in Nat
    BY PacketsInImage, ConstantTypes
  <1>2. id * Payload < Avail /\ Avail \in Nat
    BY <1>1, ConstantTypes
  <1>3. id < PacketsOf(Avail)
    BY <1>2, PacketsInImage
  <1>4. PacketsOf(Avail) \in Nat
    BY <1>2, PacketCount
  <1>5. QED
    BY <1>3, <1>4 DEF Cells

\* The identifier after that of a packet inside the slot does not wrap.
LEMMA NoWrap ==
  ASSUME NEW size \in Nat, NEW id \in Ids, ~OutOfSlot(id, size)
  PROVE  (id + 1) % IdMod = id + 1
  <1>1. id \in Nat /\ IdMod \in Nat /\ IdMod > 0 /\ Payload \in Nat /\ Avail \in Nat
    BY ConstantTypes DEF Ids
  <1>2. id * Payload <= Avail
    BY <1>1 DEF OutOfSlot
  <1>3. id * Payload < (IdMod - 1) * Payload
    BY <1>1, <1>2, ConstantTypes
  <1>4. id < IdMod - 1
    BY <1>1, <1>3, PayloadOrder
  <1>5. QED
    BY <1>1, <1>4

LEMMA GapFields ==
  ASSUME NEW i \in ImageType, NEW id \in Nat
  PROVE  /\ WithGap(i, id).size = i.size /\ WithGap(i, id).crc = i.crc
         /\ WithGap(i, id).digest = i.digest
         /\ id > i.nextId => WithGap(i, id).nextId = id
  BY DEF ImageType, WithGap, NoteGap

LEMMA StoredFields ==
  ASSUME NEW i \in ImageType, NEW id \in Ids, NEW d \in Data
  PROVE  /\ Stored(i, id, d).size = i.size
         /\ Stored(i, id, d).nextId = IF id >= i.nextId THEN (id + 1) % IdMod ELSE i.nextId
         /\ Stored(i, id, d).digest = IF i.lostState \/ BytesOf(id, i.size) = 0 THEN i.digest
                                      ELSE Append(i.digest, d)
         /\ Stored(i, id, d).lostState = i.lostState
         /\ Stored(i, id, d).firstLost = i.firstLost
         /\ Stored(i, id, d).lost = i.lost
  BY DEF ImageType, Stored

LEMMA GapDigest ==
  ASSUME NEW i \in ImageType, NEW f, NEW id \in Nat, DigestOK(i, f)
  PROVE  DigestOK(WithGap(i, id), f) /\ WithGap(i, id).nextId >= id
  <1>1. CASE ~(id > i.nextId)
    <2>1. WithGap(i, id) = i
      BY <1>1 DEF WithGap
    <2>2. i.nextId >= id
      BY <1>1, ImageFields
    <2>3. QED
      BY <2>1, <2>2
  <1>2. CASE id > i.nextId
    <2> DEFINE g == WithGap(i, id)
    <2>1. /\ g.size = i.size /\ g.digest = i.digest /\ g.nextId = id
          /\ g.lostState = TRUE /\ g.firstLost = Covered(i)
          /\ g.lost = i.lost \cup (i.nextId .. id - 1)
      <3>1. g = NoteGap(i, id)
        BY <1>2 DEF WithGap
      <3>2. QED
        BY <3>1 DEF NoteGap, Covered, ImageType
    <2>2. Covered(g) = Covered(i) /\ Covered(i) \in Nat /\ i.nextId \in Nat
      BY <2>1, ImageFields DEF Covered
    <2> HIDE DEF g
    <2>3. /\ Covered(i) <= i.nextId /\ i.lost \subseteq Covered(i) .. i.nextId - 1
          /\ i.size \in 1 .. Avail
          /\ Len(i.digest) = IF Covered(i) <= PacketsOf(i.size) THEN Covered(i)
                             ELSE PacketsOf(i.size)
          /\ \A k \in 1 .. Len(i.digest) : f[k - 1] = i.digest[k]
      BY DEF DigestOK
    <2>4. g.lost \subseteq Covered(i) .. id - 1 /\ Covered(i) <= id
      BY <1>2, <2>1, <2>2, <2>3
    <2>5. DigestOK(g, f)
      BY <2>1, <2>2, <2>3, <2>4 DEF DigestOK
    <2>6. QED
      BY <2>1, <2>5 DEF g
  <1>3. QED
    BY <1>1, <1>2

LEMMA StoredDigest ==
  ASSUME NEW i \in ImageType, NEW f \in [Cells -> Data \cup {Erased, Scrap}],
         NEW id \in Ids, NEW d \in Data,
         DigestOK(i, f), ~OutOfSlot(id, i.size), id = i.nextId \/ (id < i.nextId /\ id \in i.lost)
  PROVE  DigestOK(Stored(i, id, d), IF Writes(i, id) THEN [f EXCEPT ![id] = d] ELSE f)
  <1> DEFINE s == Stored(i, id, d)
             h == IF Writes(i, id) THEN [f EXCEPT ![id] = d] ELSE f
             n == PacketsOf(i.size)
  <1>1. /\ id \in Nat /\ i.size \in Nat /\ i.nextId \in Nat /\ i.firstLost \in Nat
        /\ i.lostState \in BOOLEAN /\ i.digest \in Seq(Data) /\ i.lost \in SUBSET Nat
    BY ImageFields DEF Ids
  <1>2. n \in Nat
    BY <1>1, PacketCount
  <1>3. Covered(i) \in Nat
    BY <1>1 DEF Covered
  <1>4. /\ i.size \in 1 .. Avail /\ Covered(i) <= i.nextId
        /\ i.lost \subseteq Covered(i) .. i.nextId - 1
        /\ Len(i.digest) = IF Covered(i) <= n THEN Covered(i) ELSE n
        /\ \A k \in 1 .. Len(i.digest) : f[k - 1] = i.digest[k]
        /\ ~i.lostState => i.lost = {}
    BY DEF DigestOK
  <1>5. s.size = i.size /\ s.lostState = i.lostState /\ s.firstLost = i.firstLost /\ s.lost = i.lost
    BY StoredFields
  <1>6. s.nextId = IF id = i.nextId THEN id + 1 ELSE i.nextId
    <2>1. (id + 1) % IdMod = id + 1
      BY <1>1, NoWrap
    <2>2. s.nextId = IF id >= i.nextId THEN (id + 1) % IdMod ELSE i.nextId
      BY StoredFields
    <2>3. QED
      BY <1>1, <2>1, <2>2
  <1>7. Writes(i, id) <=> id < n
    BY <1>1, PacketsInImage DEF Writes
  <1>8. s.digest = IF i.lostState \/ id >= n THEN i.digest ELSE Append(i.digest, d)
    <2>1. BytesOf(id, i.size) = 0 <=> id >= n
      BY <1>1, PacketsInImage
    <2>2. QED
      BY <2>1, StoredFields
  <1>9. id >= Covered(i)
    BY <1>1, <1>3, <1>4
  <1>10. Len(i.digest) \in Nat /\ Len(i.digest) <= id
    BY <1>1, <1>2, <1>3, <1>4, <1>9
  <1>11. \A k \in 1 .. Len(i.digest) : h[k - 1] = i.digest[k]
    <2>1. ASSUME NEW k \in 1 .. Len(i.digest)
          PROVE  h[k - 1] = f[k - 1]
      BY <1>1, <1>10
    <2>2. QED
      BY <1>4, <2>1
  <1> HIDE DEF n, s
  <1>12. CASE id = i.nextId /\ ~i.lostState /\ id < n
    <2>1. s.digest = Append(i.digest, d) /\ Len(i.digest) = id
      BY <1>1, <1>2, <1>4, <1>8, <1>12 DEF Covered
    <2>2. Len(s.digest) = id + 1
      BY <1>1, <2>1
    <2>3. Covered(s) = id + 1 /\ s.nextId = id + 1
      BY <1>5, <1>6, <1>12 DEF Covered
    <2>4. id \in Cells
      BY <1>1, <1>4, <1>12, CellsEnough, ConstantTypes DEF n
    <2>5. h[id] = d
      BY <1>7, <1>12, <2>4
    <2>6. \A k \in 1 .. Len(s.digest) : h[k - 1] = s.digest[k]
      <3>1. ASSUME NEW k \in 1 .. Len(s.digest)
            PROVE  h[k - 1] = s.digest[k]
        <4>1. CASE k = id + 1
          BY <1>1, <2>1, <2>5, <4>1
        <4>2. CASE k \in 1 .. Len(i.digest)
          BY <1>1, <1>11, <2>1, <4>2
        <4>3. QED
          BY <1>1, <2>1, <2>2, <4>1, <4>2
      <3>2. QED
        BY <3>1
    <2>7. Covered(s) <= n
      BY <1>1, <1>2, <1>12, <2>3
    <2>8. s.lost = {} /\ s.size \in 1 .. Avail
      BY <1>4, <1>5, <1>12
    <2> HIDE DEF h
    <2>9. QED
      BY <1>1, <1>5, <2>2, <2>3, <2>6, <2>7, <2>8 DEF DigestOK, n, s, h
  <1>13. CASE ~(id = i.nextId /\ ~i.lostState /\ id < n)
    <2>1. s.digest = i.digest
      <3>1. CASE i.lostState
        BY <1>8, <3>1
      <3>2. CASE ~i.lostState
        <4>1. i.lost = {}
          BY <1>4, <3>2
        <4>2. id >= n
          BY <1>1, <1>2, <1>13, <3>2, <4>1
        <4>3. QED
          BY <1>8, <4>2
      <3>3. QED
        BY <3>1, <3>2
    <2>2. i.nextId <= s.nextId /\ s.nextId \in Nat
      BY <1>1, <1>6
    <2>3. Covered(s) <= s.nextId /\ Covered(s) \in Nat
      BY <1>1, <1>4, <1>5, <2>2 DEF Covered
    <2>4. s.lost \subseteq Covered(s) .. s.nextId - 1
      <3>1. CASE i.lostState
        BY <1>1, <1>4, <1>5, <2>2, <3>1 DEF Covered
      <3>2. CASE ~i.lostState
        BY <1>4, <1>5, <3>2
      <3>3. QED
        BY <3>1, <3>2
    <2>5. Len(i.digest) = IF Covered(s) <= n THEN Covered(s) ELSE n
      <3>1. CASE i.lostState
        BY <1>4, <1>5, <3>1 DEF Covered
      <3>2. CASE ~i.lostState
        <4>1. i.lost = {}
          BY <1>4, <3>2
        <4>2. id = i.nextId /\ id >= n
          BY <1>1, <1>2, <1>13, <3>2, <4>1
        <4>3. Covered(i) = id /\ Covered(s) = id + 1
          BY <1>5, <1>6, <3>2, <4>2 DEF Covered
        <4>4. QED
          BY <1>1, <1>2, <1>4, <4>2, <4>3
      <3>3. QED
        BY <3>1, <3>2
    <2> HIDE DEF h
    <2>6. QED
      BY <1>4, <1>5, <1>11, <2>1, <2>3, <2>4, <2>5 DEF DigestOK, n, s, h
  <1>14. QED
    BY <1>12, <1>13 DEF s, n

LEMMA Joined ==
  ASSUME NEW S, NEW a \in Seq(S), NEW b \in Seq(S), NEW c, c = a \o b
  PROVE  /\ Len(c) = Len(a) + Len(b)
         /\ \A k \in 1 .. Len(a) : c[k] = a[k]
         /\ \A k \in Len(a) + 1 .. Len(a) + Len(b) : c[k] = b[k - Len(a)]
  OBVIOUS

\* What vValidate_FWImgCRC_FromFLash_AtLostPacketState concludes from equal CRCs.
LEMMA ValidatedHolds ==
  ASSUME NEW i \in ImageType, DigestOK(i, flash), i.nextId >= PacketsOf(i.size), Complete(i)
  PROVE  /\ i.crc # <<>> /\ Len(i.crc) = PacketsOf(i.size)
         /\ \A k \in 1 .. Len(i.crc) : k - 1 \in Cells /\ flash[k - 1] = i.crc[k]
  <1> DEFINE n == PacketsOf(i.size)
  <1>1. /\ i.size \in Nat /\ i.nextId \in Nat /\ i.firstLost \in Nat /\ i.lostState \in BOOLEAN
        /\ i.digest \in Seq(Data) /\ i.crc \in Seq(Data)
    BY ImageFields
  <1>2. /\ i.size \in 1 .. Avail /\ i.nextId >= n
        /\ Len(i.digest) = IF Covered(i) <= n THEN Covered(i) ELSE n
        /\ \A k \in 1 .. Len(i.digest) : flash[k - 1] = i.digest[k]
    BY DEF DigestOK
  <1>3. FinalDigest(i) = i.crc /\ Readable(i)
    BY DEF Complete
  <1>4. n \in Nat /\ n > 0 /\ Payload \in Nat /\ Payload > 0
    <2>1. n \in Nat /\ n * Payload >= i.size
      BY <1>1, PacketCount
    <2>2. QED
      BY <1>1, <1>2, <2>1, ConstantTypes
  <1>5. \A k \in 1 .. n : k - 1 \in Cells
    <2>1. ASSUME NEW k \in 1 .. n
          PROVE  k - 1 \in Cells
      <3>1. k - 1 \in Nat /\ k - 1 < PacketsOf(i.size) /\ i.size <= Avail
        BY <1>2, <1>4, ConstantTypes
      <3>2. QED
        BY <1>1, <3>1, CellsEnough
    <2>2. QED
      BY <2>1
  <1>6. CASE ~i.lostState
    <2>1. i.digest = i.crc
      BY <1>3, <1>6 DEF FinalDigest
    <2>2. Len(i.crc) = n
      BY <1>1, <1>2, <1>4, <1>6, <2>1 DEF Covered
    <2>3. i.crc # <<>>
      BY <1>4, <2>2
    <2>4. \A k \in 1 .. n : flash[k - 1] = i.crc[k]
      BY <1>2, <2>1, <2>2
    <2>5. QED
      BY <1>5, <2>2, <2>3, <2>4
  <1>7. CASE i.lostState
    <2> DEFINE g == i.firstLost
               back == ReadBack(i)
    <2>1. g <= n
      <3>1. g * Payload <= i.size
        BY <1>3, <1>7 DEF Readable
      <3>2. n * Payload >= i.size
        BY <1>1, PacketCount
      <3> HIDE DEF n
      <3>3. CASE g > n
        <4>1. n * Payload < g * Payload
          <5>1. (g - n) * Payload > 0
            BY <1>1, <1>4, <3>3
          <5>2. (g - n) * Payload = g * Payload - n * Payload
            BY <1>1, <1>4
          <5>3. QED
            BY <1>1, <1>4, <5>1, <5>2
        <4>2. QED
          BY <1>1, <1>4, <3>1, <3>2, <4>1
      <3>4. QED
        BY <1>1, <1>4, <3>3
    <2>2. Len(i.digest) = g
      BY <1>1, <1>2, <1>4, <1>7, <2>1 DEF Covered
    <2>3. back = [k \in 1 .. n - g |-> flash[g + k - 1]]
      BY DEF ReadBack
    <2>4. i.crc = i.digest \o back
      BY <1>3, <1>7 DEF FinalDigest
    <2> DEFINE any == Data \cup {flash[c] : c \in Int}
    <2> HIDE DEF back, n
    <2>5. n - g \in Nat
      BY <1>1, <1>4, <2>1
    <2>6. /\ back \in Seq(any) /\ Len(back) = n - g
          /\ \A k \in 1 .. n - g : back[k] = flash[g + k - 1]
      <3>1. \A k \in 1 .. n - g : back[k] = flash[g + k - 1] /\ g + k - 1 \in Int
        BY <1>1, <2>3, <2>5
      <3>2. back \in [1 .. n - g -> any]
        BY <2>3, <3>1
      <3> HIDE DEF any
      <3>3. back \in Seq(any) /\ Len(back) = n - g
        BY <2>5, <3>2
      <3>4. QED
        BY <3>1, <3>3
    <2>7. i.digest \in Seq(any)
      BY <1>1
    <2> HIDE DEF any
    <2>8. /\ Len(i.crc) = n
          /\ \A k \in 1 .. g : i.crc[k] = i.digest[k]
          /\ \A k \in g + 1 .. n : i.crc[k] = back[k - g]
      <3>1. /\ Len(i.crc) = Len(i.digest) + Len(back)
            /\ \A k \in 1 .. Len(i.digest) : i.crc[k] = i.digest[k]
            /\ \A k \in Len(i.digest) + 1 .. Len(i.digest) + Len(back) :
                 i.crc[k] = back[k - Len(i.digest)]
        <4>1. back \in Seq(any)
          BY <2>6
        <4>2. QED
          BY <2>4, <2>7, <4>1, Joined
      <3> HIDE DEF g
      <3>2. g \in Nat
        BY <1>1 DEF g
      <3>3. QED
        BY <1>4, <2>1, <2>2, <2>6, <3>1, <3>2
    <2>9. ASSUME NEW k \in 1 .. n
          PROVE  flash[k - 1] = i.crc[k]
      <3>1. CASE k \in 1 .. g
        BY <1>2, <2>2, <2>8, <3>1
      <3>2. CASE k \in g + 1 .. n
        <4>1. k - g \in 1 .. n - g /\ g + (k - g) - 1 = k - 1
          BY <1>1, <1>4, <3>2
        <4>2. QED
          BY <2>6, <2>8, <3>2, <4>1
      <3>3. QED
        BY <1>1, <1>4, <3>1, <3>2
    <2>10. i.crc # <<>>
      BY <1>4, <2>8
    <2>11. QED
      BY <1>5, <2>8, <2>9, <2>10 DEF n
  <1>8. QED
    BY <1>1, <1>6, <1>7

LEMMA FreshFields ==
  ASSUME NEW s, NEW c
  PROVE  Announced(s, c).size = s /\ Announced(s, c).crc = c
  BY DEF Announced, NoImage

LEMMA DigestStep ==
  ASSUME TypeInv, Control, Digested, [Next]_vars
  PROVE  Digested'
  <1>0. /\ pc \in [Threads -> Labels] /\ img \in ImageType
        /\ flash \in [Cells -> Data \cup {Erased, Scrap}]
    BY DEF TypeInv, TypeOK
  <1>1. ASSUME UNCHANGED <<eBtlState, img, flash>>,
               pc'["btl"] \in {"erasing", "start"} => pc'["btl"] = pc["btl"]
        PROVE  Digested'
    BY <1>1 DEF Digested, DigestOK, Covered, Fresh, ImageInSlot
  <1>2. ASSUME eBtlState' \in {"Idle", "Error"}, pc'["btl"] \notin {"erasing", "start"}
        PROVE  Digested'
    BY <1>2 DEF Digested
  <1> USE <1>0 DEF Threads, Goto, Unlock, At, Holding, session
  <1>3. ASSUME NEW m \in Host, Receive(m)
        PROVE  Digested'
    BY <1>1, <1>3 DEF Receive
  <1>4. ASSUME Reply
        PROVE  Digested'
    BY <1>1, <1>4 DEF Reply
  <1>5. ASSUME PacketRefused
        PROVE  Digested'
    BY <1>1, <1>5 DEF PacketRefused
  <1>6. ASSUME PacketFaults
        PROVE  Digested'
    BY <1>1, <1>6 DEF PacketFaults
  <1>7. ASSUME EndRefused
        PROVE  Digested'
    BY <1>1, <1>7 DEF EndRefused
  <1>8. ASSUME RequestUpgrade
        PROVE  Digested'
    BY <1>1, <1>8 DEF RequestUpgrade
  <1>9. ASSUME ArmReboot
        PROVE  Digested'
    BY <1>1, <1>9 DEF ArmReboot
  <1>10. ASSUME GetLostBusy
        PROVE  Digested'
    BY <1>1, <1>10 DEF GetLostBusy
  <1>11. ASSUME GetLost
        PROVE  Digested'
    BY <1>1, <1>11 DEF GetLost
  <1>12. ASSUME HostAck
        PROVE  Digested'
    BY <1>1, <1>12 DEF HostAck
  <1>13. ASSUME RunState
        PROVE  Digested'
    BY <1>1, <1>13 DEF RunState
  <1>14. ASSUME RunTx
        PROVE  Digested'
    BY <1>1, <1>14 DEF RunTx
  <1>15. ASSUME CancelTx
        PROVE  Digested'
    BY <1>1, <1>15 DEF CancelTx
  <1>16. ASSUME TxTimeout
        PROVE  Digested'
    BY <1>1, <1>16 DEF TxTimeout
  <1>17. ASSUME NEW t \in Threads, Lock(t)
        PROVE  Digested'
    BY <1>1, <1>17 DEF Lock
  <1>18. ASSUME NEW t \in Threads, CancelWork(t)
        PROVE  Digested'
    BY <1>1, <1>18 DEF CancelWork, Finish
  <1>19. ASSUME NEW t \in Threads, Schedule(t)
        PROVE  Digested'
    BY <1>1, <1>19 DEF Schedule, Finish
  <1>20. ASSUME NEW t \in Threads, RetryTx(t)
        PROVE  Digested'
    BY <1>1, <1>20 DEF RetryTx, Finish
  <1>21. ASSUME NEW t \in Threads, TxError(t)
        PROVE  Digested'
    BY <1>1, <1>21 DEF TxError, Finish
  <1>22. ASSUME ExpireState
        PROVE  Digested'
    BY <1>1, <1>22 DEF ExpireState
  <1>23. ASSUME ExpireTx
        PROVE  Digested'
    BY <1>1, <1>23 DEF ExpireTx
  <1>24. ASSUME Dispatch
        PROVE  Digested'
    BY <1>1, <1>24, HandlerOps DEF Dispatch
  <1>25. ASSUME Completed
        PROVE  Digested'
    BY <1>1, <1>25 DEF Completed
  <1>26. ASSUME SetReboot
        PROVE  Digested'
    BY <1>26 DEF SetReboot, Control, Digested, ImageInSlot
  <1>27. ASSUME NewImageRefused
        PROVE  Digested'
    <2>1. eBtlState' = "Idle" /\ pc'["btl"] = "reply"
      BY <1>27 DEF NewImageRefused, Control
    <2>2. QED
      BY <1>2, <2>1
  <1>28. ASSUME NewImage
        PROVE  Digested'
    <2>1. msg.size \in Sizes /\ msg.crc \in Images /\ eBtlState' = "Idle"
      BY <1>28 DEF NewImage, TypeInv, MsgMatches, Control
    <2>2. img' = Announced(msg.size, msg.crc) /\ msg.size \in 1 .. Avail
      BY <1>28 DEF NewImage
    <2>3. Fresh(img') /\ img'.size \in 1 .. Avail
      <3>1. img'.size = msg.size /\ img'.crc = msg.crc
        BY <2>2, FreshFields
      <3>2. QED
        BY <2>2, <3>1 DEF Fresh
    <2>4. pc'["btl"] # "start"
      BY <1>28 DEF NewImage
    <2>5. QED
      BY <2>1, <2>3, <2>4 DEF Digested, Fresh
  <1>29. ASSUME Erase
        PROVE  Digested'
    <2>1. eBtlState' = "Idle" /\ img' = img /\ Fresh(img) /\ img.size \in 1 .. Avail
      BY <1>29 DEF Erase, Control, Digested
    <2>2. QED
      BY <2>1 DEF Digested, Fresh
  <1>30. ASSUME Start
        PROVE  Digested'
    <2>1. /\ Fresh(img) /\ img.size \in 1 .. Avail /\ img' = img /\ flash' = flash
          /\ eBtlState' = "InProg" /\ pc'["btl"] = "reply"
      BY <1>30 DEF Start, Digested
    <2>2. img.size \in Sizes /\ img.crc \in Images \cup {<<>>}
      BY <2>1, ImageFields
    <2>3. /\ img.nextId = 0 /\ img.digest = <<>> /\ img.lostState = FALSE /\ img.lost = {}
      BY <2>1 DEF Fresh, Announced, NoImage
    <2>4. Covered(img) = 0 /\ Len(img.digest) = 0 /\ PacketsOf(img.size) \in Nat
      BY <2>2, <2>3, PacketCount, ImageFields DEF Covered
    <2>5. DigestOK(img, flash)
      BY <2>1, <2>3, <2>4 DEF DigestOK
    <2>6. QED
      BY <2>1, <2>5 DEF Digested
  <1>31. ASSUME Reinit
        PROVE  Digested'
    BY <1>2, <1>31 DEF Reinit
  <1>32. ASSUME PacketStored
        PROVE  Digested'
    <2> DEFINE id == msg.id
               g == WithGap(img, id)
    <2>1. id \in Ids /\ id \in Nat /\ msg.data \in Data
      BY <1>32 DEF PacketStored, TypeInv, MsgMatches, Ids
    <2>2. /\ StillReceiving /\ Welcome(img, id) /\ ~OutOfSlot(id, img.size)
          /\ img' = Stored(g, id, msg.data)
          /\ flash' = IF Writes(img, id) THEN [flash EXCEPT ![id] = msg.data] ELSE flash
          /\ UNCHANGED eBtlState /\ pc'["btl"] = "reply"
      BY <1>32 DEF PacketStored
    <2>3. DigestOK(img, flash)
      BY <2>2 DEF Digested, StillReceiving
    <2>4. g \in ImageType /\ DigestOK(g, flash) /\ g.size = img.size
      BY <2>1, <2>3, GapType, GapDigest, GapFields
    <2>5. id = g.nextId \/ (id < g.nextId /\ id \in g.lost)
      <3>1. CASE id > img.nextId
        BY <2>1, <3>1, GapFields
      <3>2. CASE id <= img.nextId
        <4>1. g = img
          BY <2>1, <3>2, ImageFields DEF WithGap
        <4>2. QED
          BY <2>1, <2>2, <3>2, <4>1, ImageFields DEF Welcome, Pending
      <3>3. QED
        BY <2>1, <3>1, <3>2, ImageFields
    <2> HIDE DEF g, id
    <2>6. Writes(g, id) = Writes(img, id) /\ ~OutOfSlot(id, g.size)
      BY <2>2, <2>4 DEF Writes
    <2>7. DigestOK(img', flash')
      BY <2>1, <2>2, <2>4, <2>5, <2>6, StoredDigest
    <2>8. QED
      BY <2>2, <2>7 DEF Digested, DigestOK, Covered, StillReceiving
  <1>33. ASSUME PacketAborts
        PROVE  Digested'
    BY <1>2, <1>33 DEF PacketAborts, AbortLocked
  <1>34. ASSUME EndPending
        PROVE  Digested'
    <2>1. DigestOK(img, flash) /\ img' = AtEnd(img) /\ flash' = flash
          /\ UNCHANGED eBtlState /\ eBtlState = "InProg" /\ pc'["btl"] = "reply"
      BY <1>34 DEF EndPending, StillReceiving, Digested
    <2>2. DigestOK(AtEnd(img), flash)
      BY <2>1, PacketCount, ImageFields, GapDigest DEF AtEnd
    <2>3. DigestOK(img', flash')
      BY <2>1, <2>2
    <2>4. QED
      BY <2>1, <2>3 DEF Digested, DigestOK, Covered
  <1>35. ASSUME EndCompletes
        PROVE  Digested'
    <2> DEFINE i == AtEnd(img)
    <2>1. /\ DigestOK(img, flash) /\ Complete(i) /\ img' = Validated(i) /\ flash' = flash
          /\ eBtlState' = "Completed" /\ pc'["btl"] = "completed"
      BY <1>35 DEF EndCompletes, StillReceiving, Digested
    <2>2. PacketsOf(img.size) \in Nat
      BY PacketCount, ImageFields
    <2>3. i \in ImageType /\ DigestOK(i, flash) /\ i.nextId >= PacketsOf(i.size)
      <3>1. i.size = img.size
        BY <2>2, GapFields DEF AtEnd
      <3>2. i \in ImageType
        BY EndType
      <3>3. DigestOK(i, flash) /\ i.nextId >= PacketsOf(img.size)
        BY <2>1, <2>2, GapDigest DEF AtEnd
      <3>4. QED
        BY <3>1, <3>2, <3>3
    <2> HIDE DEF i
    <2>4. /\ i.crc # <<>> /\ Len(i.crc) = PacketsOf(i.size)
          /\ \A k \in 1 .. Len(i.crc) : k - 1 \in Cells /\ flash[k - 1] = i.crc[k]
      BY <2>1, <2>3, ValidatedHolds
    <2>5. img'.crc = i.crc /\ img'.size = i.size
      BY <2>1, <2>3 DEF Validated, ImageType
    <2>6. ImageInSlot'
      BY <2>1, <2>4, <2>5 DEF ImageInSlot, PacketsOf
    <2>7. QED
      BY <2>1, <2>6 DEF Digested
  <1>36. ASSUME EndAborts
        PROVE  Digested'
    BY <1>2, <1>36 DEF EndAborts, AbortLocked
  <1>37. ASSUME StateTimeout
        PROVE  Digested'
    <2>1. CASE AbortLocked
      BY <1>2, <1>37, <2>1 DEF StateTimeout, AbortLocked, Control
    <2>2. CASE UNCHANGED session
      BY <1>1, <1>37, <2>2 DEF StateTimeout
    <2>3. QED
      BY <1>37, <2>1, <2>2 DEF StateTimeout
  <1>38. ASSUME NEW t \in Threads, Abort(t)
        PROVE  Digested'
    BY <1>2, <1>38 DEF Abort, AbortLocked, Control
  <1>39. ASSUME Reset
        PROVE  Digested'
    BY <1>2, <1>39 DEF Reset
  <1>40. CASE UNCHANGED vars
    BY <1>1, <1>40 DEF vars
  <1>41. QED
    BY <1>3, <1>4, <1>5, <1>6, <1>7, <1>8, <1>9, <1>10, <1>11, <1>12, <1>13, <1>14,
       <1>15, <1>16, <1>17, <1>18, <1>19, <1>20, <1>21, <1>22, <1>23, <1>24, <1>25, <1>26,
       <1>27, <1>28, <1>29, <1>30, <1>31, <1>32, <1>33, <1>34, <1>35, <1>36, <1>37, <1>38,
       <1>39, <1>40
    DEF Next, Btl, Wq, Shared, Packet, End, SysReboot, PowerLoss

LEMMA ControlInit == Init => Control /\ RequestHeld /\ Digested
  BY BootValues DEF Init, Control, RequestHeld, Digested, Threads

\* MCUboot is asked to swap the images only while the slot holds, packet by packet,
\* the image the host announced: for every image, payload and slot size, whatever
\* was lost, resent, repeated, timed out or interrupted by a reset.
THEOREM UpgradeIntact == Spec => []UpgradeOnlyIntact
  <1>1. Init => IInv
    BY TypeInit, ControlInit DEF IInv
  <1>2. IInv /\ [Next]_vars => IInv'
    BY TypeStep, ControlStep, DigestStep DEF IInv
  <1>3. IInv => UpgradeOnlyIntact
    BY DEF IInv, RequestHeld, Digested, UpgradeOnlyIntact
  <1>4. QED
    BY <1>1, <1>2, <1>3, PTL DEF Spec

LEMMA AbortedStep ==
  ASSUME TypeInv, Control, [Next]_vars, eBtlState = "Error"
  PROVE  eBtlState' \in {"Error", "Idle"}
  <1> USE DEF Threads, Shared, session
  <1>1. CASE UNCHANGED eBtlState
    BY <1>1
  <1>2. CASE Reset \/ \E t \in Threads : Abort(t)
    BY <1>2 DEF Reset, Abort, AbortLocked
  <1>3. CASE Start \/ SetReboot \/ Reinit
    BY <1>3 DEF Start, SetReboot, Reinit, Holding, Control
  <1>4. CASE PacketAborts \/ EndCompletes \/ EndAborts
    BY <1>4 DEF PacketAborts, EndCompletes, EndAborts, StillReceiving
  <1>5. CASE StateTimeout
    BY <1>5 DEF StateTimeout, AbortLocked
  <1>6. CASE \/ \E m \in Host : Receive(m)
             \/ Dispatch \/ NewImageRefused \/ NewImage \/ Erase \/ Reply \/ PacketRefused
             \/ PacketStored \/ PacketFaults
    BY <1>1, <1>6 DEF Receive, Dispatch, NewImageRefused, NewImage, Erase, Reply, PacketRefused,
       PacketStored, PacketFaults
  <1>7. CASE \/ EndPending \/ EndRefused \/ Completed \/ RequestUpgrade \/ ArmReboot
             \/ GetLostBusy \/ GetLost \/ HostAck
    BY <1>1, <1>7 DEF EndPending, EndRefused, Completed, RequestUpgrade, ArmReboot,
       GetLostBusy, GetLost, HostAck
  <1>8. CASE RunState \/ RunTx \/ CancelTx \/ TxTimeout \/ ExpireState \/ ExpireTx
    BY <1>1, <1>8 DEF RunState, RunTx, CancelTx, TxTimeout, ExpireState, ExpireTx
  <1>9. CASE \E t \in Threads : Lock(t) \/ CancelWork(t) \/ Schedule(t) \/ RetryTx(t) \/ TxError(t)
    BY <1>1, <1>9 DEF Lock, CancelWork, Schedule, RetryTx, TxError
  <1>10. CASE UNCHANGED vars
    BY <1>10 DEF vars
  <1>11. QED
    BY <1>2, <1>3, <1>4, <1>5, <1>6, <1>7, <1>8, <1>9, <1>10
    DEF Next, Btl, Wq, Packet, End, SysReboot, PowerLoss

\* A session that a timeout, a fault of the flash or the host aborted is not brought
\* back to life by a handler that read its state before: only RecoverFromError (or
\* a reset) leaves the Error state, and it leads to Idle.
THEOREM AbortedStaysAborted == Spec => AbortIsFinal
  <1>1. Spec => [](TypeInv /\ Control)
    <2>1. Init => IInv
      BY TypeInit, ControlInit DEF IInv
    <2>2. IInv /\ [Next]_vars => IInv'
      BY TypeStep, ControlStep, DigestStep DEF IInv
    <2>3. IInv => TypeInv /\ Control
      BY DEF IInv
    <2>4. QED
      BY <2>1, <2>2, <2>3, PTL DEF Spec
  <1>2. TypeInv /\ Control /\ [Next]_vars =>
          [eBtlState = "Error" => eBtlState' \in {"Error", "Idle"}]_eBtlState
    BY AbortedStep
  <1>3. QED
    BY <1>1, <1>2, PTL DEF Spec, AbortIsFinal
=============================================================================
