----------------------------- MODULE CommProofs -----------------------------
(***************************************************************************)
(* Proofs about the transactions of the communication manager, for every   *)
(* number of commands, of senders of each command and of slots, every      *)
(* retry limit and every number of messages.                               *)
(***************************************************************************)
EXTENDS CommProperties, TLAPS

(***************************************************************************)
(* The invariant: who may touch a transaction in each of its states.  One  *)
(* sender has it from the claim to the submission, the frame in the driver *)
(* until its completion, the driver's callback until the release, and the  *)
(* system-management thread from the answer or the time-out on.            *)
(***************************************************************************)

Working == {"send", "backoff", "drop"}

\* A free slot has no command; a transaction has a generation.
SlotShape(s) ==
  /\ slot[s].state = "Free" <=> slot[s].cmd = None
  /\ slot[s].state # "Free" => slot[s].gen \in 1 .. LastGen

\* No sender, frame, or callback has the slot, and no report is about it.
NoSender(s) == \A k \in Senders : ~ (sender[k].pc \in Working /\ sender[k].slot = s)
NoFrame(s) == \A f \in frames : f.slot # s
DriverOff(s) == driver.pc # "idle" => driver.slot # s
ReportOff(s) == sys.pc = "report" => sys.slot # s

\* A sender has the transaction to itself from the claim to the submission.
SenderOwns(k) ==
  LET j == sender[k] IN
  /\ j.pc \notin Working => j.slot = None
  /\ j.pc \in Working =>
       /\ j.slot \in Slots /\ slot[j.slot].cmd = Sends[k]
       /\ NoFrame(j.slot) /\ DriverOff(j.slot) /\ ReportOff(j.slot)
  /\ j.pc \in {"send", "backoff"} => slot[j.slot].state = "WaitingTx"
  /\ j.pc = "drop" => slot[j.slot].state \in {"WaitingTx", "Failed"}

OwnSlots ==
  \A j, k \in Senders :
    sender[j].pc \in Working /\ sender[k].pc \in Working /\ sender[j].slot = sender[k].slot
      => j = k

OneFrame == \A f, g \in frames : f.slot = g.slot => f = g

DriverHolds ==
  driver.pc # "idle" =>
    driver.slot \in Slots /\ slot[driver.slot].state = "WaitingTx" /\ NoFrame(driver.slot)

SysHolds ==
  /\ sys.pc \in {"report", "ask", "giveup"} => sys.slot \in Slots
  /\ sys.pc = "report" => slot[sys.slot].state \in {"DestACK", "Failed"}

\* An acknowledgement on the bus is one that the destination gave.
AnswerTrue(a) == a.kind = "ack" => a.rev \in acked[a.cmd]

Safe ==
  /\ \A s \in Slots : SlotShape(s)
  /\ \A k \in Senders : SenderOwns(k)
  /\ OwnSlots
  /\ FramesCurrent /\ OneFrame
  /\ DriverHolds /\ SysHolds
  /\ \A a \in answers : AnswerTrue(a)
  /\ AckTruthful

IInv == TypeOK /\ Safe

-----------------------------------------------------------------------------
(* What the types say, variable by variable. *)

\* The types that the invariant needs.
Typed ==
  /\ \A s \in Slots : slot[s].state \in States /\ slot[s].cmd \in Commands \cup {None}
  /\ \A k \in Senders : /\ sender[k].pc \in {"idle", "subscribe", "claim"} \cup Working
                        /\ sender[k].slot \in Slots \cup {None}
                        /\ Sends[k] \in Commands
  /\ \A f \in frames : f.slot \in Slots /\ f.cmd \in Commands /\ f.rev \in Nat
  /\ \A a \in answers : a.cmd \in Commands
  /\ None \notin Slots /\ None \notin Commands

LEMMA TypesOfAll == TypeOK => Typed
<1> SUFFICES ASSUME TypeOK PROVE Typed
  OBVIOUS
<1>1. \A s \in Slots : slot[s] \in Transactions
  BY DEF TypeOK
<1>2. \A k \in Senders : sender[k] \in SenderStates
  BY DEF TypeOK
<1>3. \A s \in Slots : slot[s].state \in States /\ slot[s].cmd \in Commands \cup {None}
  BY <1>1 DEF Transactions
<1>4. \A k \in Senders : /\ sender[k].pc \in {"idle", "subscribe", "claim"} \cup Working
                         /\ sender[k].slot \in Slots \cup {None}
  BY <1>2 DEF SenderStates, Working
<1>5. \A k \in Senders : Sends[k] \in Commands
  BY CommConstantsAssumption
<1>6. \A f \in frames : f.slot \in Slots /\ f.cmd \in Commands /\ f.rev \in Nat
  BY DEF TypeOK, Frames
<1>7. \A a \in answers : a.cmd \in Commands
  BY DEF TypeOK, Answers
<1>8. None \notin Slots /\ None \notin Commands
  BY CommConstantsAssumption DEF Slots
<1> QED
  BY <1>3, <1>4, <1>5, <1>6, <1>7, <1>8 DEF Typed

-----------------------------------------------------------------------------
(* What a step does to a slot and to a sender, field by field. *)

\* Only this slot, this sender.
OnlySlot(s) == \A r \in Slots \ {s} : slot'[r] = slot[r]
OnlySender(k) == \A j \in Senders \ {k} : sender'[j] = sender[j]

\* The transaction in s, the sender k after the step.
SlotBecomes(s, st, c, v) ==
  /\ slot'[s].state = st /\ slot'[s].cmd = c /\ slot'[s].rev = v
  /\ st # "Free" => slot'[s].gen \in 1 .. LastGen
  /\ OnlySlot(s)

SenderBecomes(k, p, s) == sender'[k].pc = p /\ sender'[k].slot = s /\ OnlySender(k)

SlotTypes ==
  /\ slot \in [Slots -> Transactions]
  /\ \A s \in Slots : slot[s].cmd # None => slot[s].retry <= MaxRetry[slot[s].cmd] + 1

LEMMA SetSlot ==
  ASSUME SlotTypes, NEW s \in Slots, NEW v \in Transactions,
         slot' = [slot EXCEPT ![s] = v],
         v.state # "Free" => v.gen \in 1 .. LastGen,
         v.cmd # None => v.retry <= MaxRetry[v.cmd] + 1
  PROVE  SlotTypes' /\ SlotBecomes(s, v.state, v.cmd, v.rev)
<1>1. slot'[s] = v /\ OnlySlot(s)
  BY DEF OnlySlot, SlotTypes
<1>2. slot' \in [Slots -> Transactions]
  BY DEF SlotTypes
<1>3. SlotTypes'
  BY <1>1, <1>2 DEF OnlySlot, SlotTypes
<1> QED
  BY <1>1, <1>3 DEF SlotBecomes

LEMMA SetState ==
  ASSUME IInv, NEW s \in Slots, NEW st \in States,
         slot' = [slot EXCEPT ![s].state = st], slot[s].state # "Free"
  PROVE  SlotTypes' /\ SlotBecomes(s, st, slot[s].cmd, slot[s].rev)
<1> DEFINE v == [slot[s] EXCEPT !.state = st]
<1>1. SlotTypes /\ slot[s] \in Transactions
  BY DEF IInv, TypeOK, SlotTypes
<1>2. v \in Transactions
  BY <1>1 DEF Transactions
<1>3. /\ v.state = st /\ v.cmd = slot[s].cmd /\ v.rev = slot[s].rev
      /\ v.gen = slot[s].gen /\ v.retry = slot[s].retry
  BY <1>1 DEF Transactions
<1>4. slot' = [slot EXCEPT ![s] = v]
  OBVIOUS
<1>5. v.cmd # None => v.retry <= MaxRetry[v.cmd] + 1
  BY <1>1, <1>3 DEF SlotTypes
<1>6. v.gen \in 1 .. LastGen
  BY <1>3 DEF IInv, Safe, SlotShape
<1> HIDE DEF v
<1> QED
  BY <1>1, <1>2, <1>3, <1>4, <1>5, <1>6, SetSlot

LEMMA ClearSlot ==
  ASSUME IInv, NEW s \in Slots, slot' = Cleared(s)
  PROVE  SlotTypes' /\ SlotBecomes(s, "Free", None, 0)
<1> DEFINE v == FreeSlot(slot[s].gen)
<1>1. SlotTypes /\ slot[s] \in Transactions
  BY DEF IInv, TypeOK, SlotTypes
<1>2. v \in Transactions
  BY <1>1 DEF Transactions, FreeSlot, States
<1>3. v.state = "Free" /\ v.cmd = None /\ v.rev = 0
  BY DEF FreeSlot
<1>4. slot' = [slot EXCEPT ![s] = v]
  BY DEF Cleared
<1> HIDE DEF v
<1> QED
  BY <1>1, <1>2, <1>3, <1>4, SetSlot

LEMMA TakeBecomes ==
  ASSUME sender \in [Senders -> SenderStates], NEW k \in Senders,
         NEW p \in {"idle", "subscribe", "claim"} \cup Working,
         NEW s \in Slots \cup {None}, Take(k, p, s)
  PROVE  sender' \in [Senders -> SenderStates] /\ SenderBecomes(k, p, s)
<1> DEFINE j == [pc |-> p, slot |-> s]
<1>1. j \in SenderStates /\ j.pc = p /\ j.slot = s
  BY DEF SenderStates, Working
<1>2. sender' = [sender EXCEPT ![k] = j]
  BY DEF Take
<1> HIDE DEF j
<1> QED
  BY <1>1, <1>2 DEF SenderBecomes, OnlySender

LEMMA GotoBecomes ==
  ASSUME sender \in [Senders -> SenderStates], NEW k \in Senders,
         NEW p \in {"idle", "subscribe", "claim"} \cup Working, Goto(k, p)
  PROVE  sender' \in [Senders -> SenderStates] /\ SenderBecomes(k, p, sender[k].slot)
<1> DEFINE j == [sender[k] EXCEPT !.pc = p]
<1>1. sender[k] \in SenderStates
  OBVIOUS
<1>2. j \in SenderStates /\ j.pc = p /\ j.slot = sender[k].slot
  BY <1>1 DEF SenderStates, Working
<1>3. sender' = [sender EXCEPT ![k] = j]
  BY DEF Goto
<1> HIDE DEF j
<1> QED
  BY <1>2, <1>3 DEF SenderBecomes, OnlySender

-----------------------------------------------------------------------------
(* The kinds of step, by what becomes of the slots. *)

\* A transaction in these states is nobody's.
LEMMA UnusedSlots ==
  ASSUME IInv, NEW s \in Slots
  PROVE  /\ slot[s].state # "WaitingTx" => NoFrame(s) /\ DriverOff(s)
         /\ slot[s].state \notin {"DestACK", "Failed"} => ReportOff(s)
         /\ slot[s].state \notin {"WaitingTx", "Failed"} => NoSender(s)
BY DEF IInv, Safe, FramesCurrent, Current, DriverHolds, SysHolds, SenderOwns, Working,
       NoFrame, DriverOff, ReportOff, NoSender

\* No slot changes, and no sender takes or leaves one.
LEMMA NoSlotTouched ==
  ASSUME IInv,
         sys' \in Managers, latch' \in Latches, asked' \subseteq Commands,
         sys' = sys \/ (sys'.pc # "report" /\ (sys'.pc \in {"ask", "giveup"} => sys'.slot \in Slots)),
         frames' \subseteq frames, answers' \subseteq answers,
         UNCHANGED <<slot, uiaRevision, sender, driver, acked>>
  PROVE  IInv'
<1>1. TypeOK'
  BY DEF IInv, TypeOK
<1>2. \A s \in Slots : SlotShape(s)'
  BY DEF IInv, Safe, SlotShape
<1>3. (\A k \in Senders : SenderOwns(k)') /\ OwnSlots'
  BY DEF IInv, Safe, SenderOwns, OwnSlots, NoFrame, DriverOff, ReportOff
<1>4. FramesCurrent' /\ OneFrame' /\ DriverHolds' /\ SysHolds'
  BY DEF IInv, Safe, FramesCurrent, Current, OneFrame, DriverHolds, NoFrame, SysHolds
<1>5. (\A a \in answers' : AnswerTrue(a)') /\ AckTruthful'
  BY DEF IInv, Safe, AnswerTrue, AckTruthful
<1> QED
  BY <1>1, <1>2, <1>3, <1>4, <1>5 DEF IInv, Safe

\* A sender goes on with the slot it has, or without one.
LEMMA SenderMoves ==
  ASSUME IInv, NEW k \in Senders,
         NEW p \in {"idle", "subscribe", "claim", "backoff", "drop"}, NEW s \in Slots \cup {None},
         sender' \in [Senders -> SenderStates], SenderBecomes(k, p, s),
         p \in Working => sender[k].pc \in {"send", "backoff"} /\ s = sender[k].slot,
         p \notin Working => s = None,
         uiaRevision' \in [Commands -> Nat], \A c \in Commands : uiaRevision'[c] \in Revs(c),
         asked' \subseteq Commands,
         UNCHANGED <<slot, frames, answers, driver, sys, latch, acked>>
  PROVE  IInv'
<1>1. TypeOK'
  BY DEF IInv, TypeOK, Revs
<1>2. \A r \in Slots : SlotShape(r)'
  BY DEF IInv, Safe, SlotShape
<1>3. \A j \in Senders : SenderOwns(j)'
  BY DEF IInv, Safe, SenderOwns, SenderBecomes, OnlySender, NoFrame, DriverOff, ReportOff, Working
<1>4. OwnSlots'
  BY DEF IInv, Safe, OwnSlots, SenderBecomes, OnlySender, Working
<1>5. FramesCurrent' /\ OneFrame' /\ DriverHolds' /\ SysHolds'
  BY DEF IInv, Safe, FramesCurrent, Current, OneFrame, DriverHolds, NoFrame, SysHolds
<1>6. (\A a \in answers' : AnswerTrue(a)') /\ AckTruthful'
  BY DEF IInv, Safe, AnswerTrue, AckTruthful
<1> QED
  BY <1>1, <1>2, <1>3, <1>4, <1>5, <1>6 DEF IInv, Safe

\* A sender takes up a free slot, or a transaction that is to be resent.
LEMMA TakeUp ==
  ASSUME IInv, NEW k \in Senders, NEW s \in Slots, NEW st \in {"WaitingTx", "Failed"},
         NEW p \in {"send", "drop"}, NEW v \in Nat,
         slot[s].state \in {"Free", "PrepareRetransmit"},
         p = "send" => st = "WaitingTx",
         SlotTypes', SlotBecomes(s, st, Sends[k], v),
         sender' \in [Senders -> SenderStates], SenderBecomes(k, p, s),
         UNCHANGED <<uiaRevision, asked, frames, answers, driver, sys, latch, acked>>
  PROVE  IInv'
<1>1. TypeOK'
  BY DEF IInv, TypeOK, SlotTypes
<1>2. Typed
  BY TypesOfAll DEF IInv
<1>3. NoFrame(s) /\ DriverOff(s) /\ ReportOff(s) /\ NoSender(s)
  BY UnusedSlots
<1>4. \A r \in Slots : SlotShape(r)'
  BY <1>2 DEF IInv, Safe, SlotShape, SlotBecomes, OnlySlot, Typed
<1>5. \A j \in Senders : SenderOwns(j)'
  <2>1. ASSUME NEW j \in Senders \ {k} PROVE SenderOwns(j)'
    <3>1. sender'[j] = sender[j] /\ SenderOwns(j)
      BY DEF SenderBecomes, OnlySender, IInv, Safe
    <3>2. sender[j].pc \in Working => sender[j].slot # s
      BY <1>3 DEF NoSender
    <3> QED
      BY <3>1, <3>2 DEF SenderOwns, NoFrame, DriverOff, ReportOff, Working, SlotBecomes, OnlySlot
  <2>2. SenderOwns(k)'
    BY <1>3 DEF SenderOwns, SenderBecomes, SlotBecomes, NoFrame, DriverOff, ReportOff, Working
  <2> QED
    BY <2>1, <2>2
<1>6. OwnSlots'
  BY <1>3 DEF IInv, Safe, OwnSlots, SenderBecomes, OnlySender, NoSender
<1>7. FramesCurrent' /\ OneFrame'
  BY <1>2, <1>3 DEF IInv, Safe, FramesCurrent, Current, OneFrame, NoFrame, SlotBecomes,
                    OnlySlot, Typed
<1>8. DriverHolds' /\ SysHolds'
  BY <1>3 DEF IInv, Safe, DriverHolds, SysHolds, NoFrame, DriverOff, ReportOff,
              SlotBecomes, OnlySlot
<1>9. (\A a \in answers' : AnswerTrue(a)') /\ AckTruthful'
  BY DEF IInv, Safe, AnswerTrue, AckTruthful, SlotBecomes, OnlySlot
<1> QED
  BY <1>1, <1>4, <1>5, <1>6, <1>7, <1>8, <1>9 DEF IInv, Safe

\* A slot changes that no sender, frame or callback has after the step.
LEMMA SlotChanges ==
  ASSUME IInv, NEW s \in Slots, NEW st \in States, NEW c \in Commands \cup {None}, NEW v \in Nat,
         SlotTypes', SlotBecomes(s, st, c, v), st = "Free" <=> c = None,
         st = "DestACK" => v \in acked[c],
         sender' \in [Senders -> SenderStates], NoSender(s)',
         \A k \in Senders :
           sender'[k] = sender[k] \/ (sender'[k].pc \notin Working /\ sender'[k].slot = None),
         frames' \subseteq frames, NoFrame(s)',
         driver' \in Drivers, driver' = driver \/ driver'.pc = "idle", DriverOff(s)',
         sys' \in Managers,
         \/ sys' = sys /\ ReportOff(s)
         \/ sys'.pc = "report" /\ sys'.slot = s /\ st \in {"DestACK", "Failed"}
         \/ sys'.pc # "report" /\ (sys'.pc \in {"ask", "giveup"} => sys'.slot \in Slots),
         answers' \subseteq answers,
         UNCHANGED <<uiaRevision, asked, latch, acked>>
  PROVE  IInv'
<1>1. TypeOK'
  BY DEF IInv, TypeOK, SlotTypes
<1>2. Typed
  BY TypesOfAll DEF IInv
<1>3. \A r \in Slots : SlotShape(r)'
  BY <1>2 DEF IInv, Safe, SlotShape, SlotBecomes, OnlySlot, Typed
<1>4. \A k \in Senders : SenderOwns(k)'
  <2> SUFFICES ASSUME NEW k \in Senders PROVE SenderOwns(k)'
    OBVIOUS
  <2>1. CASE sender'[k].pc \notin Working /\ sender'[k].slot = None
    BY <2>1 DEF SenderOwns, Working
  <2>2. CASE sender'[k] = sender[k] /\ sender[k].pc \in Working
    <3>1. SenderOwns(k) /\ sender[k].slot # s
      BY <2>2 DEF IInv, Safe, NoSender
    <3> QED
      BY <2>2, <3>1
         DEF SenderOwns, NoFrame, DriverOff, ReportOff, Working, SlotBecomes, OnlySlot
  <2>3. CASE sender'[k] = sender[k] /\ sender[k].pc \notin Working
    BY <2>3 DEF IInv, Safe, SenderOwns, Working
  <2> QED
    BY <2>1, <2>2, <2>3
<1>5. OwnSlots'
  BY DEF IInv, Safe, OwnSlots
<1>6. FramesCurrent' /\ OneFrame'
  BY <1>2 DEF IInv, Safe, FramesCurrent, Current, OneFrame, NoFrame, SlotBecomes, OnlySlot, Typed
<1>7. DriverHolds'
  BY DEF IInv, Safe, DriverHolds, NoFrame, DriverOff, SlotBecomes, OnlySlot
<1>8. SysHolds'
  BY DEF IInv, Safe, SysHolds, ReportOff, SlotBecomes, OnlySlot
<1>9. (\A a \in answers' : AnswerTrue(a)') /\ AckTruthful'
  BY DEF IInv, Safe, AnswerTrue, AckTruthful, SlotBecomes, OnlySlot
<1> QED
  BY <1>1, <1>3, <1>4, <1>5, <1>6, <1>7, <1>8, <1>9 DEF IInv, Safe

-----------------------------------------------------------------------------
(* Every step of a sender keeps the invariant. *)

LEMMA NewMessageStep ==
  ASSUME IInv, NEW k \in Senders, NewMessage(k)
  PROVE  IInv'
<1> DEFINE c == Sends[k]
<1>1. /\ sender[k].pc = "idle" /\ Goto(k, "subscribe")
      /\ uiaRevision[c] < MaxMsgs[c] /\ uiaRevision' = [uiaRevision EXCEPT ![c] = @ + 1]
      /\ UNCHANGED <<slot, asked, frames, answers, driver, sys, latch, acked>>
  BY DEF NewMessage, Within
<1>2. c \in Commands
  BY CommConstantsAssumption
<1> HIDE DEF c
<1>3. /\ sender' \in [Senders -> SenderStates]
      /\ SenderBecomes(k, "subscribe", sender[k].slot)
  BY <1>1, GotoBecomes DEF IInv, TypeOK
<1>4. sender[k].slot = None
  BY <1>1 DEF IInv, Safe, SenderOwns, Working
<1>5. uiaRevision' \in [Commands -> Nat] /\ uiaRevision'[c] = uiaRevision[c] + 1
      /\ \A d \in Commands \ {c} : uiaRevision'[d] = uiaRevision[d]
  BY <1>1, <1>2 DEF IInv, TypeOK
<1>6. \A d \in Commands : uiaRevision'[d] \in Revs(d)
  BY <1>1, <1>2, <1>5, CommConstantsAssumption DEF IInv, TypeOK, Revs
<1> QED
  BY <1>1, <1>3, <1>4, <1>5, <1>6, SenderMoves DEF IInv, TypeOK, Working

LEMMA ResendStep ==
  ASSUME IInv, NEW k \in Senders, Resend(k)
  PROVE  IInv'
<1>1. /\ sender[k].pc = "idle" /\ Goto(k, "subscribe") /\ asked' \subseteq asked
      /\ UNCHANGED <<slot, uiaRevision, frames, answers, driver, sys, latch, acked>>
  BY DEF Resend
<1>2. /\ sender' \in [Senders -> SenderStates]
      /\ SenderBecomes(k, "subscribe", sender[k].slot)
  BY <1>1, GotoBecomes DEF IInv, TypeOK
<1>3. sender[k].slot = None
  BY <1>1 DEF IInv, Safe, SenderOwns, Working
<1> QED
  BY <1>1, <1>2, <1>3, SenderMoves DEF IInv, TypeOK, Working

\* The steps that only go on to another place.
LEMMA GotoStep ==
  ASSUME IInv, NEW k \in Senders,
         NotPending(k) \/ NotSubmitted(k) \/ InvalidMsg(k)
  PROVE  IInv'
<1> DEFINE p == IF NotPending(k) THEN "claim" ELSE IF NotSubmitted(k) THEN "backoff" ELSE "drop"
<1>1. Goto(k, p)
  BY DEF NotPending, NotSubmitted, InvalidMsg
<1>2. p \in {"claim", "backoff", "drop"}
  OBVIOUS
<1>3. /\ UNCHANGED <<slot, uiaRevision, asked, frames, answers, driver, sys, latch, acked>>
      /\ IF p = "claim" THEN sender[k].pc = "subscribe" ELSE sender[k].pc = "send"
  BY DEF NotPending, NotSubmitted, InvalidMsg
<1> HIDE DEF p
<1>4. sender' \in [Senders -> SenderStates] /\ SenderBecomes(k, p, sender[k].slot)
  BY <1>1, <1>2, GotoBecomes DEF IInv, TypeOK, Working
<1>5. sender[k].slot \in Slots \cup {None} /\ (p = "claim" => sender[k].slot = None)
  BY <1>3, TypesOfAll DEF IInv, Safe, SenderOwns, Working, Typed
<1> QED
  BY <1>2, <1>3, <1>4, <1>5, SenderMoves DEF IInv, TypeOK, Working

\* The steps in which it stops: with no slot, or with one that stays as it is.
LEMMA LeaveStep ==
  ASSUME IInv, NEW k \in Senders,
         NoneFree(k) \/ Refused(k) \/ BackOffFails(k)
  PROVE  IInv'
<1>1. /\ Take(k, "idle", None)
      /\ UNCHANGED <<slot, uiaRevision, asked, frames, answers, driver, sys, latch, acked>>
  BY DEF NoneFree, Refused, BackOffFails, Leave
<1>2. sender' \in [Senders -> SenderStates] /\ SenderBecomes(k, "idle", None)
  BY <1>1, TakeBecomes DEF IInv, TypeOK
<1> QED
  BY <1>1, <1>2, SenderMoves DEF IInv, TypeOK, Working

LEMMA ClaimStep ==
  ASSUME IInv, NEW k \in Senders, Claim(k)
  PROVE  IInv'
<1> DEFINE c == Sends[k]
<1>1. PICK s \in Slots :
        /\ slot[s].state = "Free"
        /\ slot' = [slot EXCEPT ![s] =
                      [state |-> "WaitingTx", cmd |-> c, retry |-> 0, rev |-> uiaRevision[c],
                       gen |-> IF @.gen = LastGen THEN 1 ELSE @.gen + 1]]
        /\ Take(k, "send", s)
  BY DEF Claim
<1>2. UNCHANGED <<uiaRevision, asked, frames, answers, driver, sys, latch, acked>>
  BY DEF Claim
<1> DEFINE g == IF slot[s].gen = LastGen THEN 1 ELSE slot[s].gen + 1
           v == [state |-> "WaitingTx", cmd |-> c, retry |-> 0, rev |-> uiaRevision[c], gen |-> g]
<1>3. g \in 1 .. LastGen
  <2>1. slot[s] \in Transactions
    BY DEF IInv, TypeOK
  <2>2. slot[s].gen \in 0 .. LastGen
    BY <2>1 DEF Transactions
  <2> QED
    BY <2>2, CommConstantsAssumption
<1>4. c \in Commands /\ uiaRevision[c] \in Nat /\ MaxRetry[c] \in Nat
  BY CommConstantsAssumption DEF IInv, TypeOK
<1>5. v \in Transactions
  BY <1>3, <1>4, CommConstantsAssumption DEF Transactions, States
<1>6. slot' = [slot EXCEPT ![s] = v]
  BY <1>1
<1>7. /\ v.state = "WaitingTx" /\ v.cmd = c /\ v.rev = uiaRevision[c]
      /\ v.gen \in 1 .. LastGen /\ v.retry <= MaxRetry[v.cmd] + 1
  BY <1>3, <1>4
<1> HIDE DEF v, g
<1>8. SlotTypes
  BY DEF IInv, TypeOK, SlotTypes
<1>9. SlotTypes' /\ SlotBecomes(s, "WaitingTx", c, uiaRevision[c])
  BY <1>5, <1>6, <1>7, <1>8, SetSlot
<1>10. sender' \in [Senders -> SenderStates] /\ SenderBecomes(k, "send", s)
  BY <1>1, TakeBecomes DEF IInv, TypeOK, Working
<1> QED
  BY <1>1, <1>2, <1>4, <1>9, <1>10, TakeUp

\* What a thread that finds a transaction of a command knows of it.
LEMMA FoundSlot ==
  ASSUME IInv, NEW c \in Commands, NEW s \in Found(c)
  PROVE  /\ s \in Slots /\ slot[s].cmd = c /\ slot[s].state # "Free"
         /\ slot[s].retry \in Nat /\ slot[s].rev \in Nat /\ slot[s].gen \in 1 .. LastGen
<1>1. s \in Slots /\ slot[s].cmd = c /\ slot[s].state # "Free"
  BY DEF Found, Pending
<1>2. slot[s] \in Transactions
  BY <1>1 DEF IInv, TypeOK
<1>3. slot[s].retry \in Nat /\ slot[s].rev \in Nat
  BY <1>2 DEF Transactions
<1> QED
  BY <1>1, <1>3 DEF IInv, Safe, SlotShape

\* A transaction is resent, or dropped because it has been resent often enough.
LEMMA RetryStep ==
  ASSUME IInv, NEW k \in Senders, Retransmit(k) \/ RetryLimit(k)
  PROVE  IInv'
<1> DEFINE c == Sends[k]
           st == IF Retransmit(k) THEN "WaitingTx" ELSE "Failed"
           p == IF Retransmit(k) THEN "send" ELSE "drop"
           r(s) == IF Retransmit(k) THEN uiaRevision[c] ELSE slot[s].rev
           v(s) == [state |-> st, cmd |-> slot[s].cmd, retry |-> slot[s].retry + 1,
                    rev |-> r(s), gen |-> slot[s].gen]
<1>1. PICK s \in Found(c) :
        /\ slot[s].state = "PrepareRetransmit" /\ slot[s].retry <= MaxRetry[c]
        /\ slot' = [slot EXCEPT ![s] = v(s)]
        /\ Take(k, p, s)
  <2>0. c \in Commands
    BY CommConstantsAssumption
  <2>1. CASE Retransmit(k)
    <3>1. PICK s \in Found(c) :
            /\ slot[s].state = "PrepareRetransmit" /\ slot[s].retry < MaxRetry[c]
            /\ slot' = [slot EXCEPT ![s] = v(s)]
            /\ Take(k, p, s)
      BY <2>1 DEF Retransmit
    <3>2. slot[s].retry <= MaxRetry[c]
      BY <2>0, <3>1, FoundSlot, CommConstantsAssumption
    <3> QED
      BY <3>1, <3>2
  <2>2. CASE ~ Retransmit(k)
    <3>0. RetryLimit(k)
      BY <2>2
    <3>1. PICK s \in Found(c) :
            /\ slot[s].state = "PrepareRetransmit" /\ slot[s].retry = MaxRetry[c]
            /\ slot' = [slot EXCEPT ![s] = v(s)]
            /\ Take(k, p, s)
      BY <2>2, <3>0 DEF RetryLimit
    <3>2. slot[s].retry <= MaxRetry[c]
      BY <2>0, <3>1, FoundSlot, CommConstantsAssumption
    <3> QED
      BY <3>1, <3>2
  <2> QED
    BY <2>1, <2>2
<1>2. UNCHANGED <<uiaRevision, asked, frames, answers, driver, sys, latch, acked>>
  BY DEF Retransmit, RetryLimit
<1>3. c \in Commands /\ uiaRevision[c] \in Nat /\ MaxRetry[c] \in Nat
  BY CommConstantsAssumption DEF IInv, TypeOK
<1>4. /\ s \in Slots /\ slot[s].cmd = c /\ slot[s].rev \in Nat
      /\ slot[s].retry \in Nat /\ slot[s].gen \in 1 .. LastGen
  BY <1>3, FoundSlot
<1>5. /\ st \in {"WaitingTx", "Failed"} /\ p \in {"send", "drop"} /\ r(s) \in Nat
      /\ p = "send" => st = "WaitingTx"
  BY <1>3, <1>4
<1> HIDE DEF st, p, r
<1>6. v(s) \in Transactions
  BY <1>3, <1>4, <1>5, CommConstantsAssumption DEF Transactions, States
<1>7. /\ v(s).state = st /\ v(s).cmd = c /\ v(s).rev = r(s)
      /\ v(s).gen \in 1 .. LastGen /\ v(s).retry <= MaxRetry[v(s).cmd] + 1
  BY <1>1, <1>3, <1>4
<1> HIDE DEF v, c
<1>8. SlotTypes
  BY DEF IInv, TypeOK, SlotTypes
<1>9. SlotTypes' /\ SlotBecomes(s, st, c, r(s))
  BY <1>1, <1>4, <1>6, <1>7, <1>8, SetSlot
<1>10. sender' \in [Senders -> SenderStates] /\ SenderBecomes(k, p, s)
  BY <1>1, <1>4, <1>5, TakeBecomes DEF IInv, TypeOK, Working
<1> QED
  BY <1>1, <1>2, <1>4, <1>5, <1>9, <1>10, TakeUp DEF c

\* The frame carries the context of the transaction, which now waits for its completion.
LEMMA SubmitStep ==
  ASSUME IInv, NEW k \in Senders, Submit(k)
  PROVE  IInv'
<1> DEFINE s == sender[k].slot
           g == [slot |-> s, gen |-> slot[s].gen, cmd |-> slot[s].cmd, rev |-> slot[s].rev,
                 result |-> "pending"]
<1>1. /\ sender[k].pc = "send" /\ frames' = frames \cup {g} /\ Take(k, "idle", None)
      /\ UNCHANGED <<slot, uiaRevision, asked, answers, driver, sys, latch, acked>>
  BY DEF Submit, Leave
<1>2. Typed
  BY TypesOfAll DEF IInv
<1>3. /\ s \in Slots /\ slot[s].cmd = Sends[k] /\ slot[s].state = "WaitingTx"
      /\ NoFrame(s) /\ DriverOff(s) /\ ReportOff(s)
  BY <1>1 DEF IInv, Safe, SenderOwns, Working
<1>4. slot[s] \in Transactions
  BY <1>3 DEF IInv, TypeOK
<1>5. slot[s].rev \in Nat /\ slot[s].gen \in 1 .. LastGen /\ slot[s].cmd \in Commands
  BY <1>2, <1>3, <1>4 DEF Transactions, IInv, Safe, SlotShape, Typed
<1>6. g \in Frames /\ g.slot = s /\ g.gen = slot[s].gen /\ g.cmd = slot[s].cmd
      /\ g.rev = slot[s].rev
  BY <1>3, <1>5 DEF Frames
<1>7. sender' \in [Senders -> SenderStates] /\ SenderBecomes(k, "idle", None)
  BY <1>1, TakeBecomes DEF IInv, TypeOK
<1>8. \A j \in Senders \ {k} :
        sender'[j] = sender[j] /\ (sender[j].pc \in Working => sender[j].slot # s)
  BY <1>1, <1>7 DEF SenderBecomes, OnlySender, IInv, Safe, OwnSlots, Working
<1> HIDE DEF g, s
<1>9. TypeOK'
  BY <1>1, <1>6, <1>7 DEF IInv, TypeOK
<1>10. \A r \in Slots : SlotShape(r)'
  BY <1>1 DEF IInv, Safe, SlotShape
<1>11. \A j \in Senders : SenderOwns(j)'
  <2>1. ASSUME NEW j \in Senders \ {k} PROVE SenderOwns(j)'
    BY <1>1, <1>6, <1>8
       DEF IInv, Safe, SenderOwns, NoFrame, DriverOff, ReportOff, Working
  <2>2. SenderOwns(k)'
    BY <1>7 DEF SenderOwns, SenderBecomes, Working
  <2> QED
    BY <2>1, <2>2
<1>12. OwnSlots'
  BY <1>7 DEF IInv, Safe, OwnSlots, SenderBecomes, OnlySender, Working
<1>13. FramesCurrent' /\ OneFrame'
  BY <1>1, <1>3, <1>6 DEF IInv, Safe, FramesCurrent, Current, OneFrame, NoFrame
<1>14. DriverHolds' /\ SysHolds'
  BY <1>1, <1>3, <1>6 DEF IInv, Safe, DriverHolds, SysHolds, NoFrame, DriverOff
<1>15. (\A a \in answers' : AnswerTrue(a)') /\ AckTruthful'
  BY <1>1 DEF IInv, Safe, AnswerTrue, AckTruthful
<1> QED
  BY <1>9, <1>10, <1>11, <1>12, <1>13, <1>14, <1>15 DEF IInv, Safe

\* A sender gives its transaction back: to the time-out, or to be claimed again.
LEMMA GiveBackStep ==
  ASSUME IInv, NEW k \in Senders, BackOff(k) \/ Drop(k)
  PROVE  IInv'
<1>0. PICK s \in Slots : s = sender[k].slot
  BY DEF BackOff, Drop, IInv, Safe, SenderOwns, Working
<1>1. /\ sender[k].pc \in {"backoff", "drop"} /\ Take(k, "idle", None)
      /\ slot' = [slot EXCEPT ![s].state = "Queued"] \/ slot' = Cleared(s)
      /\ UNCHANGED <<uiaRevision, asked, frames, answers, driver, sys, latch, acked>>
  BY <1>0 DEF BackOff, Drop, Leave
<1>2. slot[s].state # "Free" /\ NoFrame(s) /\ DriverOff(s) /\ ReportOff(s)
  BY <1>0, <1>1 DEF IInv, Safe, SenderOwns, Working
<1>3. sender' \in [Senders -> SenderStates] /\ SenderBecomes(k, "idle", None)
  BY <1>1, TakeBecomes DEF IInv, TypeOK
<1>4. NoSender(s)'
  BY <1>0, <1>1, <1>3 DEF SenderBecomes, OnlySender, NoSender, IInv, Safe, OwnSlots,
                          Working
<1>5. \A j \in Senders :
        sender'[j] = sender[j] \/ (sender'[j].pc \notin Working /\ sender'[j].slot = None)
  BY <1>3 DEF SenderBecomes, OnlySender, Working
<1>6. slot[s].cmd \in Commands /\ slot[s].rev \in Nat
  <2>1. slot[s] \in Transactions
    BY <1>2 DEF IInv, TypeOK
  <2> QED
    BY <1>2, <2>1 DEF Transactions, IInv, Safe, SlotShape
<1>7. None \notin Commands /\ driver \in Drivers /\ sys \in Managers
  BY CommConstantsAssumption DEF IInv, TypeOK
<1>8. CASE slot' = [slot EXCEPT ![s].state = "Queued"]
  <2>1. SlotTypes' /\ SlotBecomes(s, "Queued", slot[s].cmd, slot[s].rev)
    BY <1>2, <1>8, SetState DEF States
  <2>2. NoFrame(s)' /\ DriverOff(s)'
    BY <1>1, <1>2 DEF NoFrame, DriverOff
  <2> QED
    BY <1>1, <1>2, <1>3, <1>4, <1>5, <1>6, <1>7, <2>1, <2>2, SlotChanges DEF States
<1>9. CASE slot' = Cleared(s)
  <2>1. SlotTypes' /\ SlotBecomes(s, "Free", None, 0)
    BY <1>2, <1>9, ClearSlot
  <2>2. NoFrame(s)' /\ DriverOff(s)'
    BY <1>1, <1>2 DEF NoFrame, DriverOff
  <2> QED
    BY <1>1, <1>2, <1>3, <1>4, <1>5, <1>7, <2>1, <2>2, SlotChanges DEF States
<1> QED
  BY <1>1, <1>8, <1>9

-----------------------------------------------------------------------------
(* So does every step of the bus, the driver and the system-management thread. *)

\* The frame keeps its context; what the destination answers, it has answered.
LEMMA TransmitStep ==
  ASSUME IInv, NEW f \in frames, Transmit(f)
  PROVE  IInv'
<1> DEFINE g(r) == [f EXCEPT !.result = r]
           b(k) == [cmd |-> f.cmd, rev |-> f.rev, kind |-> k]
<1>1. PICK r \in {"sent", "late", "retry", "fatal"} :
        /\ frames' = (frames \ {f}) \cup {g(r)}
        /\ \/ UNCHANGED <<answers, acked>>
           \/ \E k \in {"ack", "nack", "abort"} :
                /\ answers' = answers \cup {b(k)}
                /\ acked' = [acked EXCEPT ![f.cmd] = IF k = "ack" THEN @ \cup {f.rev} ELSE @]
  BY DEF Transmit
<1>2. UNCHANGED <<slot, uiaRevision, sender, asked, driver, sys, latch>>
  BY DEF Transmit
<1>3. f \in Frames
  BY DEF IInv, TypeOK
<1>4. /\ g(r) \in Frames /\ g(r).slot = f.slot /\ g(r).gen = f.gen /\ g(r).cmd = f.cmd
      /\ g(r).rev = f.rev
  BY <1>3 DEF Frames
<1>5. f.cmd \in Commands /\ f.rev \in Nat
  BY <1>3 DEF Frames
<1>6. \A k \in {"ack", "nack", "abort"} :
        b(k) \in Answers /\ b(k).cmd = f.cmd /\ b(k).rev = f.rev /\ b(k).kind = k
  BY <1>5 DEF Answers
<1> HIDE DEF g, b
<1>7. /\ answers' \subseteq Answers /\ acked' \in [Commands -> SUBSET Nat]
      /\ \A a \in answers' : AnswerTrue(a)'
      /\ \A c \in Commands : acked[c] \subseteq acked'[c]
  <2>0. /\ answers \subseteq Answers /\ acked \in [Commands -> SUBSET Nat]
        /\ \A a \in answers : AnswerTrue(a) /\ a.cmd \in Commands
    BY TypesOfAll DEF IInv, TypeOK, Safe, Typed
  <2>1. CASE UNCHANGED <<answers, acked>>
    BY <2>0, <2>1 DEF AnswerTrue
  <2>2. CASE ~ UNCHANGED <<answers, acked>>
    <3>1. PICK k \in {"ack", "nack", "abort"} :
            /\ answers' = answers \cup {b(k)}
            /\ acked' = [acked EXCEPT ![f.cmd] = IF k = "ack" THEN @ \cup {f.rev} ELSE @]
      BY <1>1, <2>2
    <3>2. acked' \in [Commands -> SUBSET Nat]
      BY <1>5, <2>0, <3>1
    <3>3. \A c \in Commands : acked[c] \subseteq acked'[c]
      BY <1>5, <2>0, <3>1
    <3>4. k = "ack" => f.rev \in acked'[f.cmd]
      BY <1>5, <2>0, <3>1
    <3>5. \A a \in answers' : AnswerTrue(a)'
      BY <1>6, <2>0, <3>1, <3>3, <3>4 DEF AnswerTrue
    <3> QED
      BY <1>6, <2>0, <3>1, <3>2, <3>3, <3>5
  <2> QED
    BY <2>1, <2>2
<1>8. TypeOK'
  BY <1>1, <1>2, <1>4, <1>7 DEF IInv, TypeOK
<1>9. \A s \in Slots : SlotShape(s)'
  BY <1>2 DEF IInv, Safe, SlotShape
<1>10. \A s \in Slots : NoFrame(s) => NoFrame(s)'
  BY <1>1, <1>4 DEF NoFrame
<1>11. (\A k \in Senders : SenderOwns(k)') /\ OwnSlots'
  BY <1>2, <1>10 DEF IInv, Safe, SenderOwns, OwnSlots, DriverOff, ReportOff
<1>12. FramesCurrent' /\ OneFrame'
  BY <1>1, <1>2, <1>4 DEF IInv, Safe, FramesCurrent, Current, OneFrame
<1>13. DriverHolds' /\ SysHolds'
  BY <1>2, <1>10 DEF IInv, Safe, DriverHolds, SysHolds
<1>14. AckTruthful'
  <2> SUFFICES ASSUME NEW s \in Slots, slot[s].state = "DestACK"
               PROVE  slot[s].rev \in acked'[slot[s].cmd]
    BY <1>2 DEF AckTruthful
  <2>1. slot[s].rev \in acked[slot[s].cmd]
    BY DEF IInv, Safe, AckTruthful
  <2>2. slot[s].cmd \in Commands
    BY TypesOfAll DEF IInv, Typed, Safe, SlotShape
  <2> QED
    BY <1>7, <2>1, <2>2
<1> QED
  BY <1>7, <1>8, <1>9, <1>11, <1>12, <1>13, <1>14 DEF IInv, Safe

\* What is known of the transaction that a frame belongs to.
LEMMA FrameSlot ==
  ASSUME IInv, NEW f \in frames
  PROVE  /\ f.slot \in Slots /\ slot[f.slot].state = "WaitingTx"
         /\ slot[f.slot].cmd \in Commands /\ slot[f.slot].rev \in Nat
         /\ DriverOff(f.slot) /\ ReportOff(f.slot) /\ NoSender(f.slot)
         /\ \A g \in frames \ {f} : g.slot # f.slot
<1>1. f.slot \in Slots /\ f.cmd \in Commands /\ f.rev \in Nat
  BY TypesOfAll DEF IInv, Typed
<1>2. /\ slot[f.slot].state = "WaitingTx" /\ slot[f.slot].cmd = f.cmd
      /\ slot[f.slot].rev = f.rev
  BY DEF IInv, Safe, FramesCurrent, Current
<1>3. DriverOff(f.slot) /\ ReportOff(f.slot) /\ NoSender(f.slot)
  BY <1>2 DEF IInv, Safe, DriverHolds, SysHolds, SenderOwns, NoFrame, DriverOff, ReportOff, NoSender
<1> QED
  BY <1>1, <1>2, <1>3 DEF IInv, Safe, OneFrame

LEMMA CompleteStep ==
  ASSUME IInv, NEW f \in frames, Complete(f)
  PROVE  IInv'
<1>1. /\ driver.pc = "idle" /\ frames' = frames \ {f}
      /\ UNCHANGED <<uiaRevision, sender, asked, answers, sys, latch, acked>>
  BY DEF Complete
<1>2. PICK s \in Slots : s = f.slot
  BY FrameSlot
<1>3. /\ slot[s].state = "WaitingTx" /\ slot[s].cmd \in Commands /\ slot[s].rev \in Nat
      /\ DriverOff(s) /\ ReportOff(s) /\ NoSender(s)
  BY <1>2, FrameSlot
<1>4. NoFrame(s)'
  BY <1>1, <1>2, FrameSlot DEF NoFrame
<1>5. /\ sender \in [Senders -> SenderStates] /\ sys \in Managers /\ latch \in Latches
      /\ driver \in Drivers /\ asked \subseteq Commands
  BY DEF IInv, TypeOK
<1>6. CASE UNCHANGED <<slot, driver>>
  BY <1>1, <1>5, <1>6, NoSlotTouched
<1>7. ASSUME NEW st \in {"WaitingACK", "Queued"}, UNCHANGED driver,
             slot' = [slot EXCEPT ![s].state = st]
      PROVE  IInv'
  <2>1. SlotTypes' /\ SlotBecomes(s, st, slot[s].cmd, slot[s].rev)
    BY <1>3, <1>7, SetState DEF States
  <2>2. NoSender(s)' /\ DriverOff(s)'
    BY <1>1, <1>3, <1>7 DEF NoSender, DriverOff
  <2>3. None \notin Commands
    BY CommConstantsAssumption
  <2> QED
    BY <1>1, <1>3, <1>4, <1>5, <1>7, <2>1, <2>2, <2>3, SlotChanges DEF States
<1>8. ASSUME UNCHANGED slot, driver' = [pc |-> "free", slot |-> s]
      PROVE  IInv'
  <2>1. driver' \in Drivers /\ driver'.pc = "free" /\ driver'.slot = s
    BY <1>8 DEF Drivers
  <2>2. TypeOK'
    BY <1>1, <1>8, <2>1 DEF IInv, TypeOK
  <2>3. \A r \in Slots : SlotShape(r)'
    BY <1>8 DEF IInv, Safe, SlotShape
  <2>4. (\A k \in Senders : SenderOwns(k)') /\ OwnSlots'
    BY <1>1, <1>3, <1>8, <2>1
       DEF IInv, Safe, SenderOwns, OwnSlots, NoFrame, DriverOff, ReportOff, NoSender
  <2>5. FramesCurrent' /\ OneFrame' /\ SysHolds'
    BY <1>1, <1>8 DEF IInv, Safe, FramesCurrent, Current, OneFrame, SysHolds
  <2>6. DriverHolds'
    BY <1>3, <1>4, <1>8, <2>1 DEF DriverHolds
  <2>7. (\A a \in answers' : AnswerTrue(a)') /\ AckTruthful'
    BY <1>1, <1>8 DEF IInv, Safe, AnswerTrue, AckTruthful
  <2> QED
    BY <2>2, <2>3, <2>4, <2>5, <2>6, <2>7 DEF IInv, Safe
<1> QED
  BY <1>2, <1>6, <1>7, <1>8 DEF Complete, Stale, AwaitAnswer, Done, Requeue, Fatal

LEMMA DriverFreesStep ==
  ASSUME IInv, DriverFrees
  PROVE  IInv'
<1>1. PICK s \in Slots : s = driver.slot
  BY DEF DriverFrees, IInv, Safe, DriverHolds
<1>2. /\ slot' = Cleared(s) /\ driver' = Idle
      /\ UNCHANGED <<uiaRevision, sender, asked, frames, answers, sys, latch, acked>>
  BY <1>1 DEF DriverFrees
<1>3. driver.pc # "idle" /\ slot[s].state = "WaitingTx" /\ NoFrame(s)
  BY <1>1 DEF DriverFrees, IInv, Safe, DriverHolds
<1>4. ReportOff(s) /\ NoSender(s)
  BY <1>1, <1>3 DEF IInv, Safe, SenderOwns, SysHolds, DriverOff, ReportOff, NoSender
<1>5. driver' \in Drivers /\ driver'.pc = "idle"
  BY <1>2 DEF Idle, Drivers
<1>6. /\ sender \in [Senders -> SenderStates] /\ sys \in Managers
  BY DEF IInv, TypeOK
<1>7. NoSender(s)' /\ NoFrame(s)' /\ DriverOff(s)'
  BY <1>2, <1>3, <1>4, <1>5 DEF NoSender, NoFrame, DriverOff
<1>8. SlotTypes' /\ SlotBecomes(s, "Free", None, 0)
  BY <1>2, ClearSlot
<1> QED
  BY <1>2, <1>4, <1>5, <1>6, <1>7, <1>8, SlotChanges DEF States

\* The system-management thread changes a slot that is nobody's.
LEMMA SysTakes ==
  ASSUME IInv, NEW s \in Slots, NEW st \in {"DestACK", "Failed", "PrepareRetransmit"},
         slot[s].state \in {"WaitingACK", "Queued", "PrepareRetransmit"},
         slot' = [slot EXCEPT ![s].state = st],
         st = "DestACK" => slot[s].rev \in acked[slot[s].cmd],
         sys' \in Managers, sys'.slot = s,
         sys'.pc = IF st = "PrepareRetransmit" THEN "ask" ELSE "report",
         answers' \subseteq answers,
         UNCHANGED <<uiaRevision, sender, asked, frames, driver, latch, acked>>
  PROVE  IInv'
<1>1. NoFrame(s) /\ DriverOff(s) /\ NoSender(s)
  BY UnusedSlots
<1>2. NoSender(s)' /\ NoFrame(s)' /\ DriverOff(s)'
  BY <1>1 DEF NoSender, NoFrame, DriverOff
<1>3. SlotTypes' /\ SlotBecomes(s, st, slot[s].cmd, slot[s].rev)
  BY SetState DEF States
<1>4. slot[s].cmd \in Commands /\ slot[s].rev \in Nat
  <2>1. slot[s] \in Transactions
    BY DEF IInv, TypeOK
  <2> QED
    BY <2>1 DEF Transactions, IInv, Safe, SlotShape
<1>5. None \notin Commands /\ sender \in [Senders -> SenderStates] /\ driver \in Drivers
  BY CommConstantsAssumption DEF IInv, TypeOK
<1> QED
  BY <1>2, <1>3, <1>4, <1>5, SlotChanges DEF States

LEMMA AnswerStep ==
  ASSUME IInv, NEW a \in answers, Answer(a)
  PROVE  IInv'
<1>1. /\ answers' \subseteq answers
      /\ UNCHANGED <<uiaRevision, sender, asked, frames, driver, latch, acked>>
  BY DEF Answer
<1>2. sys \in Managers /\ latch \in Latches /\ asked \subseteq Commands
  BY DEF IInv, TypeOK
<1>3. a.cmd \in Commands
  BY TypesOfAll DEF IInv, Typed
<1>4. CASE UNCHANGED <<slot, sys>>
  BY <1>1, <1>2, <1>4, NoSlotTouched
<1>5. ASSUME NEW s \in Found(a.cmd), NEW st \in {"DestACK", "Failed"},
             Matches(a, s), st = "DestACK" => a.kind = "ack",
             slot' = [slot EXCEPT ![s].state = st],
             sys' = [pc |-> "report", slot |-> s]
      PROVE  IInv'
  <2>1. s \in Slots /\ slot[s].cmd = a.cmd
    BY <1>3, FoundSlot
  <2>2. slot[s].state = "WaitingACK" /\ slot[s].rev = a.rev
    BY <1>5 DEF Matches
  <2>3. st = "DestACK" => slot[s].rev \in acked[slot[s].cmd]
    BY <1>5, <2>1, <2>2 DEF IInv, Safe, AnswerTrue
  <2>4. sys' \in Managers /\ sys'.pc = "report" /\ sys'.slot = s
    BY <1>5, <2>1 DEF Managers
  <2> QED
    BY <1>1, <1>5, <2>1, <2>2, <2>3, <2>4, SysTakes
<1> QED
  BY <1>4, <1>5 DEF Answer, AnswerIgnored, Acknowledged, NackWaits, NackFails, FormatError,
                    TransactionAbort

LEMMA TrackStep ==
  ASSUME IInv, NEW s \in Slots, Track(s)
  PROVE  IInv'
<1>1. sys' \in Managers /\ sys'.pc = "ask" /\ sys'.slot = s
  BY DEF Track, Managers
<1> QED
  BY <1>1, SysTakes DEF Track

LEMMA GiveUpStep ==
  ASSUME IInv, GiveUp
  PROVE  IInv'
<1>1. PICK s \in Slots : s = sys.slot
  BY DEF GiveUp, IInv, Safe, SysHolds
<1>2. sys' \in Managers /\ sys'.pc = "report" /\ sys'.slot = s
  BY <1>1 DEF GiveUp, IInv, TypeOK, Managers
<1> QED
  BY <1>1, <1>2, SysTakes DEF GiveUp

LEMMA ReportStep ==
  ASSUME IInv, Report
  PROVE  IInv'
<1>1. PICK s \in Slots : s = sys.slot
  BY DEF Report, IInv, Safe, SysHolds
<1>2. /\ sys.pc = "report" /\ slot' = Cleared(s) /\ sys' = Idle
      /\ UNCHANGED <<uiaRevision, sender, asked, frames, answers, driver, latch, acked>>
  BY <1>1 DEF Report
<1>3. NoFrame(s) /\ DriverOff(s) /\ NoSender(s)
  BY <1>1, <1>2
     DEF IInv, Safe, SysHolds, FramesCurrent, Current, DriverHolds, SenderOwns, NoFrame, DriverOff,
         ReportOff, NoSender
<1>4. sys' \in Managers /\ sys'.pc = "idle"
  BY <1>2 DEF Idle, Managers
<1>5. sender \in [Senders -> SenderStates] /\ driver \in Drivers
  BY DEF IInv, TypeOK
<1>6. NoSender(s)' /\ NoFrame(s)' /\ DriverOff(s)'
  BY <1>2, <1>3 DEF NoSender, NoFrame, DriverOff
<1>7. SlotTypes' /\ SlotBecomes(s, "Free", None, 0)
  BY <1>2, ClearSlot
<1> QED
  BY <1>2, <1>4, <1>5, <1>6, <1>7, SlotChanges DEF States

LEMMA AskStep ==
  ASSUME IInv, Ask
  PROVE  IInv'
<1>1. /\ sys.pc = "ask"
      /\ UNCHANGED <<slot, uiaRevision, sender, frames, answers, driver, latch, acked>>
  BY DEF Ask
<1>2. sys \in Managers /\ latch \in Latches /\ asked \subseteq Commands
  BY DEF IInv, TypeOK
<1>3. sys.slot \in Slots
  BY <1>1 DEF IInv, Safe, SysHolds
<1>4. slot[sys.slot].cmd # None => slot[sys.slot].cmd \in Commands
  BY <1>3, TypesOfAll DEF IInv, Typed
<1>5. asked' \subseteq Commands
  BY <1>2, <1>4 DEF Ask
<1>6. /\ sys' \in Managers
      /\ sys'.pc = "idle" \/ (sys'.pc = "giveup" /\ sys'.slot = sys.slot)
  BY <1>1, <1>2, <1>3 DEF Ask, Idle, Managers
<1> QED
  BY <1>1, <1>2, <1>3, <1>5, <1>6, NoSlotTouched

LEMMA OtherSteps ==
  ASSUME IInv,
         TakenUp \/ Subscribe \/ Register \/ Replay \/ Booted \/ BusFails \/ CallBack
  PROVE  IInv'
<1>1. UNCHANGED <<slot, uiaRevision, sender, asked, frames, answers, driver, acked>>
  BY DEF TakenUp, Subscribe, Register, Replay, Booted, BusFails, CallBack
<1>2. sys \in Managers /\ latch \in Latches /\ asked \subseteq Commands
  BY DEF IInv, TypeOK
<1>3. sys'.pc \in {"idle", "register", "replay"} \/ sys' = sys
  BY <1>2 DEF TakenUp, Subscribe, Register, Replay, Booted, BusFails, CallBack, Idle, Managers
<1>4. sys' \in Managers
  BY <1>2 DEF TakenUp, Subscribe, Register, Replay, Booted, BusFails, CallBack, Idle, Managers
<1>5. latch' \in Latches
  <2>1. Noticed \in BOOLEAN
    BY <1>2 DEF Noticed, Latches
  <2>2. CASE TakenUp
    BY <1>2, <2>2 DEF TakenUp
  <2>3. CASE Subscribe \/ Register
    BY <1>2, <2>3 DEF Subscribe, Register, Latches
  <2>4. CASE Replay
    BY <1>2, <2>1, <2>4 DEF Replay, Latches
  <2>5. CASE Booted
    BY <1>2, <2>5 DEF Booted, Latches
  <2>6. CASE BusFails
    BY <1>2, <2>6 DEF BusFails, Latches
  <2>7. CASE CallBack
    BY <1>2, <2>1, <2>7 DEF CallBack, Latches
  <2> QED
    BY <2>2, <2>3, <2>4, <2>5, <2>6, <2>7
<1> QED
  BY <1>1, <1>2, <1>3, <1>4, <1>5, NoSlotTouched

-----------------------------------------------------------------------------
(* The theorems. *)

LEMMA InitHolds == Init => IInv
<1> SUFFICES ASSUME Init PROVE IInv
  OBVIOUS
<1> USE CommConstantsAssumption DEF Init
<1>1. TypeOK
  <2>1. slot \in [Slots -> Transactions] /\ \A s \in Slots : slot[s].cmd = None
    BY DEF FreeSlot, Transactions, States
  <2>2. sender \in [Senders -> SenderStates]
    BY DEF SenderStates, Idle
  <2>3. driver \in Drivers /\ sys \in Managers
    BY DEF Idle, Drivers, Managers
  <2>4. latch \in Latches
    BY DEF Latches
  <2>5. \A c \in Commands : uiaRevision[c] \in Revs(c)
    BY DEF Revs
  <2> QED
    BY <2>1, <2>2, <2>3, <2>4, <2>5 DEF TypeOK
<1>2. \A s \in Slots : slot[s].state = "Free" /\ slot[s].cmd = None
  BY DEF FreeSlot
<1>3. \A k \in Senders : sender[k].pc = "idle" /\ sender[k].slot = None
  BY DEF Idle
<1>4. driver.pc = "idle" /\ sys.pc = "idle" /\ frames = {} /\ answers = {}
  BY DEF Idle
<1> QED
  BY <1>1, <1>2, <1>3, <1>4
     DEF IInv, Safe, SlotShape, SenderOwns, OwnSlots, Working, FramesCurrent, OneFrame,
         DriverHolds, SysHolds, AckTruthful

LEMMA StepHolds == IInv /\ [Next]_commVars => IInv'
<1> SUFFICES ASSUME IInv, [Next]_commVars PROVE IInv'
  OBVIOUS
<1>1. ASSUME NEW k \in Senders, NewMessage(k) PROVE IInv'
  BY <1>1, NewMessageStep
<1>2. ASSUME NEW k \in Senders, SenderStep(k) PROVE IInv'
  BY <1>2, ResendStep, GotoStep, LeaveStep, ClaimStep, RetryStep, SubmitStep, GiveBackStep
     DEF SenderStep
<1>3. ASSUME NEW f \in frames, Transmit(f) \/ Complete(f) PROVE IInv'
  BY <1>3, TransmitStep, CompleteStep
<1>4. CASE DriverFrees
  BY <1>4, DriverFreesStep
<1>5. ASSUME NEW a \in answers, Answer(a) PROVE IInv'
  BY <1>5, AnswerStep
<1>6. ASSUME NEW s \in Slots, Track(s) PROVE IInv'
  BY <1>6, TrackStep
<1>7. CASE SysStep
  BY <1>7, ReportStep, AskStep, GiveUpStep, OtherSteps DEF SysStep
<1>8. CASE Booted \/ BusFails \/ CallBack
  BY <1>8, OtherSteps
<1>9. CASE UNCHANGED commVars
  <2>1. sys \in Managers /\ latch \in Latches /\ asked \subseteq Commands
    BY DEF IInv, TypeOK
  <2> QED
    BY <1>9, <2>1, NoSlotTouched DEF commVars
<1> QED
  BY <1>1, <1>2, <1>3, <1>4, <1>5, <1>6, <1>7, <1>8, <1>9 DEF Next

\* The invariant holds of every state that the threads, the bus and the destination can reach.
THEOREM CommInvariant == Spec => []IInv
BY InitHolds, StepHolds, PTL DEF Spec

\* Every variable keeps its type, and no transaction is counted as resent more often than its
\* command allows, plus the one time at which that is noticed (758-760).
THEOREM CommTypeCorrect == Spec => []TypeOK
<1>1. IInv => TypeOK
  BY DEF IInv
<1> QED
  BY <1>1, CommInvariant, PTL

\* Looking for a transaction and claiming a slot are two steps, with no lock held between them,
\* and any number of threads may send the same command: they may get several transactions, but
\* no two of them ever work on one, and each works on one that waits for it (702-768, 932-1010).
THEOREM SendersApart == Spec => []OneSenderPerSlot
<1>1. IInv => OneSenderPerSlot
  <2> SUFFICES ASSUME IInv PROVE OneSenderPerSlot
    OBVIOUS
  <2>1. ASSUME NEW k \in Senders, NEW s \in Slots, Works(k, s)
        PROVE  /\ \A j \in Senders : Works(j, s) => j = k
               /\ slot[s].cmd = Sends[k]
               /\ sender[k].pc # "drop" => slot[s].state = "WaitingTx"
    BY <2>1 DEF IInv, Safe, Works, SenderOwns, OwnSlots, Working
  <2> QED
    BY <2>1 DEF OneSenderPerSlot
<1> QED
  BY <1>1, CommInvariant, PTL

\* An answer that a transaction takes for its own is the destination's to this very message,
\* however late or often answers come (523-572).
THEOREM AnswersTruthful == Spec => []AckTruthful
<1>1. IInv => AckTruthful
  BY DEF IInv, Safe
<1> QED
  BY <1>1, CommInvariant, PTL

\* The context that a frame carries through the driver is still that of the transaction in its
\* slot when the frame is completed (165-182).
THEOREM NoStaleCompletion == Spec => []FramesCurrent
<1>1. IInv => FramesCurrent
  BY DEF IInv, Safe
<1> QED
  BY <1>1, CommInvariant, PTL

\* A transaction that a thread has unlocked to release or report it is released by that thread
\* alone, and no sender of the command takes it up before (176-179, 594-597).
THEOREM OneRelease == Spec => []ReleasedOnce
<1>1. IInv => ReleasedOnce
  <2> SUFFICES ASSUME IInv PROVE ReleasedOnce
    OBVIOUS
  <2>1. driver.pc # "idle" => slot[driver.slot].state = "WaitingTx"
    BY DEF IInv, Safe, DriverHolds
  <2>2. sys.pc = "report" => slot[sys.slot].state \in {"DestACK", "Failed"}
    BY DEF IInv, Safe, SysHolds
  <2>3. ASSUME NEW s \in Slots, NEW k \in Senders, Works(k, s)
        PROVE  DriverOff(s) /\ ReportOff(s)
    BY <2>3 DEF IInv, Safe, SenderOwns, Works, Working
  <2> QED
    BY <2>1, <2>2, <2>3 DEF ReleasedOnce, DriverOff, ReportOff
<1> QED
  BY <1>1, CommInvariant, PTL
=============================================================================
