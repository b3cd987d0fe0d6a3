-------------------------- MODULE CommTransactions --------------------------
(***************************************************************************)
(* The transactions of the wall controller's communication manager         *)
(* (WallController_Comm_Manager.c) over the CAN controller                 *)
(* (CAN_Controller.c): a command is sent, its transmission completed by    *)
(* the driver, its answer awaited, and it is resent or given up.           *)
(*                                                                         *)
(* Three kinds of thread work on the table: senders (outside the sources;  *)
(* any number of them for one command), the completion callback of the CAN *)
(* driver, and the system-management thread with the answers and the       *)
(* time-outs.  A section under the mutex of a slot is one step; what a     *)
(* thread does after it has unlocked is another: a sender looks its        *)
(* command up in one step and claims a slot for it in a later one.         *)
(***************************************************************************)
EXTENDS Integers, FiniteSets

CONSTANTS
  Senders,    \* the threads that send
  Commands,   \* the commands
  Sends,      \* the command of each sender
  Answered,   \* commands sent with bIsACKReq
  NumSlots,   \* MAX_NUMBER_OF_TRANSACTION_TRACKINGs
  MaxRetry,   \* uiMaxRetryCount given for a command
  MaxMsgs,    \* bound: messages of a command that are started, each with a new revision
  LastGen,    \* bound: the generation of a slot after which it starts again at 1
  FaultMsgs,  \* bound: messages of a command started before a permanent fault of the bus
  LockFails,  \* a lock that does not wait for ever may fail
  None        \* no command, no slot

ASSUME CommConstantsAssumption ==
  /\ Sends \in [Senders -> Commands]
  /\ Answered \subseteq Commands
  /\ NumSlots \in Nat \ {0}
  /\ MaxRetry \in [Commands -> Nat]
  /\ {MaxMsgs, FaultMsgs} \subseteq [Commands -> Nat]
  /\ LastGen \in Nat \ {0}
  /\ LockFails \in BOOLEAN
  /\ None \notin Commands \cup Nat

VARIABLES
  slot,         \* staCMDTransactions
  uiaRevision,  \* the revision of each command
  sender,       \* where each sender is, and the slot it works on
  asked,        \* commands whose senders are asked to resend
  frames,       \* frames in the driver, with the context of their transaction
  answers,      \* answers of the destination that have not been handled
  driver, sys,  \* the completion callback, the system-management thread
  latch,        \* failure of the bus, subscription to it, and whether it was noticed
  acked         \* history: the messages of each command the destination acknowledged

commVars ==
  <<slot, uiaRevision, sender, asked, frames, answers, driver, sys, latch, acked>>

Slots == 0 .. NumSlots - 1
Revs(c) == 0 .. MaxMsgs[c]

FreeSlot(gen) ==
  [state |-> "Free", cmd |-> None, retry |-> 0, rev |-> 0, gen |-> gen]

Idle == [pc |-> "idle", slot |-> None]

Init ==
  /\ slot = [s \in Slots |-> FreeSlot(0)]
  /\ uiaRevision = [c \in Commands |-> 0]
  /\ sender = [k \in Senders |-> Idle] /\ asked = {}
  /\ frames = {} /\ answers = {}
  /\ driver = Idle /\ sys = Idle
  /\ latch = [booting |-> TRUE, stopped |-> FALSE, subscribed |-> FALSE,
              callback |-> FALSE, calling |-> FALSE, permanent |-> FALSE]
  /\ acked = [c \in Commands |-> {}]

-----------------------------------------------------------------------------
(* Operators. *)

\* vReset_TransactionState: everything but the generation is cleared.
Cleared(s) == [slot EXCEPT ![s] = FreeSlot(@.gen)]

\* The transactions of a command.
Pending(c) == {s \in Slots : slot[s].state # "Free" /\ slot[s].cmd = c}

\* bManage_TransmissionError sets Invalid before Queued, and the lookup reads the state
\* before it asks for the mutex: it may overlook such a slot.
Overlooked(s) == \E j \in Senders : sender[j].pc = "backoff" /\ sender[j].slot = s

\* What pstFindAndLockTransaction_ByCMDId may return: the first one, or a later one if those
\* before it are overlooked or their mutexes are not had in time.
Found(c) ==
  {s \in Pending(c) : LockFails \/ \A r \in Pending(c) : s <= r \/ Overlooked(r)}

Goto(k, p) == sender' = [sender EXCEPT ![k].pc = p]
\* The sender goes on with this slot, or with none.
Take(k, p, s) == sender' = [sender EXCEPT ![k] = [pc |-> p, slot |-> s]]
Leave(k) == Take(k, "idle", None)

-----------------------------------------------------------------------------
(* Senders. *)

\* Bound: beyond the first messages, the bus works and its faults are subscribed to.
Within(c) ==
  /\ uiaRevision[c] < MaxMsgs[c]
  /\ \/ uiaRevision[c] < FaultMsgs[c]
     \/ latch.subscribed /\ latch.callback /\ ~ latch.booting /\ ~ latch.stopped

\* A new message: vUpdate_CommandRevision.
NewMessage(k) ==
  /\ sender[k].pc = "idle" /\ Within(Sends[k])
  /\ Goto(k, "subscribe")
  /\ uiaRevision' = [uiaRevision EXCEPT ![Sends[k]] = @ + 1]
  /\ UNCHANGED <<slot, asked, frames, answers, driver, sys, latch, acked>>

\* A sender of the command takes up a request to resend.
Resend(k) ==
  /\ sender[k].pc = "idle" /\ Sends[k] \in asked
  /\ Goto(k, "subscribe")
  /\ asked' = asked \ {Sends[k]}
  /\ UNCHANGED <<slot, uiaRevision, frames, answers, driver, sys, latch, acked>>

\* stSubscribe_To_TransactionManager, when the command has no transaction.  A sender that is
\* told TransactionLocked tries again, which changes nothing.
NotPending(k) ==
  /\ sender[k].pc = "subscribe"
  /\ \A s \in Pending(Sends[k]) : Overlooked(s)
  /\ Goto(k, "claim")
  /\ UNCHANGED <<slot, uiaRevision, asked, frames, answers, driver, sys, latch, acked>>

\* Seeded fault: the state of the slot is not looked at again under its mutex.
ClaimAnyState(k) ==
  /\ sender[k].pc = "claim"
  /\ \E s \in Slots :
       /\ slot' = [slot EXCEPT ![s] =
                     [state |-> "WaitingTx", cmd |-> Sends[k], retry |-> 0,
                      rev |-> uiaRevision[Sends[k]],
                      gen |-> IF @.gen = LastGen THEN 1 ELSE @.gen + 1]]
       /\ Take(k, "send", s)
  /\ UNCHANGED <<uiaRevision, asked, frames, answers, driver, sys, latch, acked>>

\* The lookup is not repeated: another sender of the command may have claimed a slot since.
Claim(k) ==
  /\ sender[k].pc = "claim"
  /\ \E s \in Slots :
       /\ slot[s].state = "Free"
       /\ LockFails \/ \A r \in Slots : slot[r].state = "Free" => s <= r
       /\ slot' = [slot EXCEPT ![s] =
                     [state |-> "WaitingTx", cmd |-> Sends[k], retry |-> 0,
                      rev |-> uiaRevision[Sends[k]],
                      gen |-> IF @.gen = LastGen THEN 1 ELSE @.gen + 1]]
       /\ Take(k, "send", s)
  /\ UNCHANGED <<uiaRevision, asked, frames, answers, driver, sys, latch, acked>>

\* NoFreeTransaction.
NoneFree(k) ==
  /\ sender[k].pc = "claim"
  /\ LockFails \/ \A s \in Slots : slot[s].state # "Free"
  /\ Leave(k)
  /\ UNCHANGED <<slot, uiaRevision, asked, frames, answers, driver, sys, latch, acked>>

\* InvalidRetransmitRequest: a transaction of the command is on its way.
Refused(k) ==
  /\ sender[k].pc = "subscribe"
  /\ \E s \in Found(Sends[k]) : slot[s].state # "PrepareRetransmit"
  /\ Leave(k)
  /\ UNCHANGED <<slot, uiaRevision, asked, frames, answers, driver, sys, latch, acked>>

\* Seeded fault: the retry is not counted.
RetransmitUncounted(k) ==
  /\ sender[k].pc = "subscribe"
  /\ \E s \in Found(Sends[k]) :
       /\ slot[s].state = "PrepareRetransmit" /\ slot[s].retry < MaxRetry[Sends[k]]
       /\ slot' = [slot EXCEPT ![s].state = "WaitingTx", ![s].rev = uiaRevision[Sends[k]]]
       /\ Take(k, "send", s)
  /\ UNCHANGED <<uiaRevision, asked, frames, answers, driver, sys, latch, acked>>

Retransmit(k) ==
  /\ sender[k].pc = "subscribe"
  /\ \E s \in Found(Sends[k]) :
       /\ slot[s].state = "PrepareRetransmit" /\ slot[s].retry < MaxRetry[Sends[k]]
       /\ slot' = [slot EXCEPT ![s] =
                     [state |-> "WaitingTx", cmd |-> @.cmd, retry |-> @.retry + 1,
                      rev |-> uiaRevision[Sends[k]], gen |-> @.gen]]
       /\ Take(k, "send", s)
  /\ UNCHANGED <<uiaRevision, asked, frames, answers, driver, sys, latch, acked>>

\* TransactionMaxRetryReach: the sender frees the failed transaction.
RetryLimit(k) ==
  /\ sender[k].pc = "subscribe"
  /\ \E s \in Found(Sends[k]) :
       /\ slot[s].state = "PrepareRetransmit" /\ slot[s].retry = MaxRetry[Sends[k]]
       /\ slot' = [slot EXCEPT ![s] =
                     [state |-> "Failed", cmd |-> @.cmd, retry |-> @.retry + 1,
                      rev |-> @.rev, gen |-> @.gen]]
       /\ Take(k, "drop", s)
  /\ UNCHANGED <<uiaRevision, asked, frames, answers, driver, sys, latch, acked>>

\* vSend_CANMessage: the context of the transaction goes with the frame.
Submit(k) ==
  /\ sender[k].pc = "send" /\ ~ latch.stopped
  /\ LET t == slot[sender[k].slot] IN
       frames' = frames \cup {[slot |-> sender[k].slot, gen |-> t.gen, cmd |-> t.cmd,
                               rev |-> t.rev, result |-> "pending"]}
  /\ Leave(k)
  /\ UNCHANGED <<slot, uiaRevision, asked, answers, driver, sys, latch, acked>>

\* The bus is not available, always so once it has failed; or the queue is full.
NotSubmitted(k) ==
  /\ sender[k].pc = "send"
  /\ Goto(k, "backoff")
  /\ UNCHANGED <<slot, uiaRevision, asked, frames, answers, driver, sys, latch, acked>>

\* bManage_TransmissionError.
BackOff(k) ==
  /\ sender[k].pc = "backoff"
  /\ slot' = [slot EXCEPT ![sender[k].slot].state = "Queued"]
  /\ Leave(k)
  /\ UNCHANGED <<uiaRevision, asked, frames, answers, driver, sys, latch, acked>>

\* The mutex is not had in time: false, as for an invalid message.
BackOffFails(k) ==
  /\ sender[k].pc = "backoff" /\ LockFails
  /\ Leave(k)
  /\ UNCHANGED <<slot, uiaRevision, asked, frames, answers, driver, sys, latch, acked>>

\* The driver does not accept the message, and bManage_TransmissionError resets the slot.
InvalidMsg(k) ==
  /\ sender[k].pc = "send" /\ ~ latch.stopped
  /\ Goto(k, "drop")
  /\ UNCHANGED <<slot, uiaRevision, asked, frames, answers, driver, sys, latch, acked>>

Drop(k) ==
  /\ sender[k].pc = "drop"
  /\ slot' = Cleared(sender[k].slot)
  /\ Leave(k)
  /\ UNCHANGED <<uiaRevision, asked, frames, answers, driver, sys, latch, acked>>

-----------------------------------------------------------------------------
(* The bus and the driver. *)

\* A frame leaves the mailbox and is received, maybe too late for the driver, or not.
\* The receiver answers or does not; an answer may be lost.
Transmit(f) ==
  /\ f.result = "pending"
  /\ \E r \in {"sent", "late", "retry", "fatal"} :
       /\ frames' = (frames \ {f}) \cup {[f EXCEPT !.result = r]}
       /\ \/ UNCHANGED <<answers, acked>>
          \/ /\ r \in {"sent", "late"}
             /\ \E k \in {"ack", "nack", "abort"} :
                  /\ answers' = answers \cup {[cmd |-> f.cmd, rev |-> f.rev, kind |-> k]}
                  /\ acked' = [acked EXCEPT ![f.cmd] = IF k = "ack" THEN @ \cup {f.rev} ELSE @]
  /\ UNCHANGED <<slot, uiaRevision, sender, asked, driver, sys, latch>>

\* The context of the frame is that of the transaction in its slot.
Current(f) ==
  /\ slot[f.slot].state = "WaitingTx"
  /\ slot[f.slot].cmd = f.cmd /\ slot[f.slot].gen = f.gen /\ slot[f.slot].rev = f.rev

\* vNotify_MessageTxComplete, by result.
Stale(f) ==
  /\ ~ Current(f)
  /\ UNCHANGED <<slot, driver>>

AwaitAnswer(f) ==
  /\ Current(f) /\ f.result = "sent" /\ f.cmd \in Answered
  /\ slot' = [slot EXCEPT ![f.slot].state = "WaitingACK"]
  /\ UNCHANGED driver

\* Unlocked here, freed in the next step.
Done(f) ==
  /\ Current(f) /\ f.result = "sent" /\ f.cmd \notin Answered
  /\ driver' = [pc |-> "free", slot |-> f.slot]
  /\ UNCHANGED slot

Requeue(f) ==
  /\ Current(f) /\ f.result \in {"late", "retry"}
  /\ slot' = [slot EXCEPT ![f.slot].state = "Queued"]
  /\ UNCHANGED driver

Fatal(f) ==
  /\ Current(f) /\ f.result = "fatal"
  /\ driver' = [pc |-> "free", slot |-> f.slot]
  /\ UNCHANGED slot

Complete(f) ==
  /\ driver.pc = "idle" /\ f.result # "pending"
  /\ Stale(f) \/ AwaitAnswer(f) \/ Done(f) \/ Requeue(f) \/ Fatal(f)
  /\ frames' = frames \ {f}
  /\ UNCHANGED <<uiaRevision, sender, asked, answers, sys, latch, acked>>

\* vSetTransaction_Free; a failure is then told to the application, which keeps no transaction.
DriverFrees ==
  /\ driver.pc = "free"
  /\ slot' = Cleared(driver.slot)
  /\ driver' = Idle
  /\ UNCHANGED <<uiaRevision, sender, asked, frames, answers, sys, latch, acked>>

-----------------------------------------------------------------------------
(* The system-management thread: answers. *)

\* Seeded fault: an answer to any message of the command is taken.
MatchesAnyRev(a, s) == slot[s].state = "WaitingACK"

Matches(a, s) == slot[s].state = "WaitingACK" /\ slot[s].rev = a.rev

\* No transaction of that command; or the one found has another revision, or awaits nothing
\* yet; or a mutex is not had in time.
AnswerIgnored(a) ==
  /\ LockFails \/ \A s \in Found(a.cmd) : ~ Matches(a, s)
  /\ UNCHANGED <<slot, sys>>

Acknowledged(a) ==
  /\ a.kind = "ack"
  /\ \E s \in Found(a.cmd) :
       /\ Matches(a, s)
       /\ slot' = [slot EXCEPT ![s].state = "DestACK"]
       /\ sys' = [pc |-> "report", slot |-> s]

\* vNotify_Controller_ForHostNACK leaves the transaction to the time-out while retries are left.
NackWaits(a) ==
  /\ a.kind = "nack"
  /\ \E s \in Found(a.cmd) : Matches(a, s) /\ slot[s].retry < MaxRetry[a.cmd]
  /\ UNCHANGED <<slot, sys>>

\* vNotify_Controller_TransactionAbort.
TransactionAbort(s) ==
  /\ slot' = [slot EXCEPT ![s].state = "Failed"]
  /\ sys' = [pc |-> "report", slot |-> s]

\* No retry is left.
NackFails(a) ==
  /\ a.kind = "nack"
  /\ \E s \in Found(a.cmd) :
       Matches(a, s) /\ slot[s].retry = MaxRetry[a.cmd] /\ TransactionAbort(s)

\* An error of the message itself, which no retry mends (vSubmit_To_HandleInvalidMsgFormat).
FormatError(a) ==
  /\ a.kind = "abort"
  /\ \E s \in Found(a.cmd) : Matches(a, s) /\ TransactionAbort(s)

Answer(a) ==
  /\ sys.pc = "idle"
  /\ AnswerIgnored(a) \/ Acknowledged(a) \/ NackWaits(a) \/ NackFails(a) \/ FormatError(a)
  /\ answers' = answers \ {a}
  /\ UNCHANGED <<uiaRevision, sender, asked, frames, driver, latch, acked>>

\* vNotify_Controller_ForHostFeedback: the application is told, and the transaction freed.
Report ==
  /\ sys.pc = "report"
  /\ slot' = Cleared(sys.slot)
  /\ sys' = Idle
  /\ UNCHANGED <<uiaRevision, sender, asked, frames, answers, driver, latch, acked>>

-----------------------------------------------------------------------------
(* The system-management thread: time-outs. *)

\* Seeded fault: a transmission that is not completed is timed out too.
TrackSending(s) ==
  /\ sys.pc = "idle"
  /\ slot[s].state \in {"WaitingTx", "WaitingACK", "Queued"}
  /\ slot' = [slot EXCEPT ![s].state = "PrepareRetransmit"]
  /\ sys' = [pc |-> "ask", slot |-> s]
  /\ UNCHANGED <<uiaRevision, sender, asked, frames, answers, driver, latch, acked>>

\* vHandle_SysMgmt_MessageTracking.
Track(s) ==
  /\ sys.pc = "idle"
  /\ slot[s].state \in {"WaitingACK", "Queued"}
  /\ slot' = [slot EXCEPT ![s].state = "PrepareRetransmit"]
  /\ sys' = [pc |-> "ask", slot |-> s]
  /\ UNCHANGED <<uiaRevision, sender, asked, frames, answers, driver, latch, acked>>

\* bNotify_ControllerToReTransmit: the application takes the request, or does not; nobody is
\* asked for a transaction that was dropped meanwhile.
Ask ==
  /\ sys.pc = "ask"
  /\ \/ /\ slot[sys.slot].cmd # None
        /\ asked' = asked \cup {slot[sys.slot].cmd}
        /\ sys' = Idle
     \/ sys' = [sys EXCEPT !.pc = "giveup"] /\ UNCHANGED asked
  /\ UNCHANGED <<slot, uiaRevision, sender, frames, answers, driver, latch, acked>>

GiveUp ==
  /\ sys.pc = "giveup" /\ slot[sys.slot].state = "PrepareRetransmit"
  /\ slot' = [slot EXCEPT ![sys.slot].state = "Failed"]
  /\ sys' = [sys EXCEPT !.pc = "report"]
  /\ UNCHANGED <<uiaRevision, sender, asked, frames, answers, driver, latch, acked>>

\* A sender has taken the transaction up in the meantime.
TakenUp ==
  /\ sys.pc = "giveup" /\ slot[sys.slot].state # "PrepareRetransmit"
  /\ sys' = Idle
  /\ UNCHANGED <<slot, uiaRevision, sender, asked, frames, answers, driver, latch, acked>>

-----------------------------------------------------------------------------
(* Failure of the bus, and its subscription. *)

\* Start-up resets the flag after it has created the thread.
Booted ==
  /\ latch.booting
  /\ latch' = [latch EXCEPT !.booting = FALSE, !.subscribed = FALSE]
  /\ UNCHANGED <<slot, uiaRevision, sender, asked, frames, answers, driver, sys, acked>>

\* vSubscribe_ToCANController_CriticalFailures exchanges the flag, then registers.
Subscribe ==
  /\ sys.pc = "idle" /\ ~ latch.subscribed
  /\ latch' = [latch EXCEPT !.subscribed = TRUE]
  /\ sys' = [sys EXCEPT !.pc = "register"]
  /\ UNCHANGED <<slot, uiaRevision, sender, asked, frames, answers, driver, acked>>

\* Seeded fault: a failure that came first is not replayed.
RegisterOnly ==
  /\ sys.pc = "register"
  /\ latch' = [latch EXCEPT !.callback = TRUE]
  /\ sys' = Idle
  /\ UNCHANGED <<slot, uiaRevision, sender, asked, frames, answers, driver, acked>>

Register ==
  /\ sys.pc = "register"
  /\ latch' = [latch EXCEPT !.callback = TRUE]
  /\ sys' = [sys EXCEPT !.pc = IF latch.stopped THEN "replay" ELSE "idle"]
  /\ UNCHANGED <<slot, uiaRevision, sender, asked, frames, answers, driver, acked>>

\* vCANBus_CriticalFailureCallback does nothing unless the flag is set.
Noticed == latch.permanent \/ latch.subscribed

Replay ==
  /\ sys.pc = "replay"
  /\ latch' = [latch EXCEPT !.permanent = Noticed]
  /\ sys' = Idle
  /\ UNCHANGED <<slot, uiaRevision, sender, asked, frames, answers, driver, acked>>

\* vCAN_BusRecovery_Failed_Callback: the latch and the callback under one lock, the call after.
BusFails ==
  /\ ~ latch.stopped /\ \A c \in Commands : uiaRevision[c] <= FaultMsgs[c]
  /\ latch' = [latch EXCEPT !.stopped = TRUE, !.calling = latch.callback]
  /\ UNCHANGED <<slot, uiaRevision, sender, asked, frames, answers, driver, sys, acked>>

CallBack ==
  /\ latch.calling
  /\ latch' = [latch EXCEPT !.calling = FALSE, !.permanent = Noticed]
  /\ UNCHANGED <<slot, uiaRevision, sender, asked, frames, answers, driver, sys, acked>>

-----------------------------------------------------------------------------
(* The specification. *)

\* Steps of a sender that has begun.
SenderStep(k) ==
  \/ Resend(k) \/ NotPending(k) \/ Claim(k) \/ NoneFree(k) \/ Refused(k) \/ Retransmit(k)
  \/ RetryLimit(k) \/ Submit(k) \/ NotSubmitted(k) \/ BackOff(k) \/ BackOffFails(k)
  \/ InvalidMsg(k) \/ Drop(k)

SysStep == Report \/ Ask \/ GiveUp \/ TakenUp \/ Subscribe \/ Register \/ Replay

Next ==
  \/ \E k \in Senders : NewMessage(k) \/ SenderStep(k)
  \/ \E f \in frames : Transmit(f) \/ Complete(f)
  \/ DriverFrees
  \/ \E a \in answers : Answer(a)
  \/ \E s \in Slots : Track(s)
  \/ SysStep
  \/ Booted \/ BusFails \/ CallBack

Spec == Init /\ [][Next]_commVars

\* Every thread that has something to do does it; the bus disposes of every frame, though it
\* owes no delivery; the scan visits every slot in each turn of its thread.
FairSpec ==
  /\ Spec
  /\ \A k \in Senders : WF_commVars(SenderStep(k))
  /\ WF_commVars(\E f \in frames : Transmit(f))
  /\ WF_commVars(DriverFrees \/ \E f \in frames : Complete(f))
  /\ WF_commVars(SysStep)
  /\ \A s \in Slots : SF_commVars(Track(s))
  /\ WF_commVars(Booted) /\ WF_commVars(CallBack)
=============================================================================
