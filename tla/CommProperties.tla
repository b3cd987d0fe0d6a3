--------------------------- MODULE CommProperties ---------------------------
(* What the communication manager must keep to, whatever the threads, the bus and the
   destination do. *)
EXTENDS CommTransactions

States == {"Free", "Queued", "WaitingTx", "WaitingACK", "DestACK", "Failed", "PrepareRetransmit"}
Transactions ==
  [state : States, cmd : Commands \cup {None}, retry : Nat, rev : Nat, gen : 0 .. LastGen]
SenderStates ==
  [pc : {"idle", "subscribe", "claim", "send", "backoff", "drop"}, slot : Slots \cup {None}]
Frames ==
  [slot : Slots, gen : 1 .. LastGen, cmd : Commands, rev : Nat,
   result : {"pending", "sent", "late", "retry", "fatal"}]
Answers == [cmd : Commands, rev : Nat, kind : {"ack", "nack", "abort"}]
Drivers == [pc : {"idle", "free"}, slot : Slots \cup {None}]
Managers ==
  [pc : {"idle", "report", "ask", "giveup", "register", "replay"}, slot : Slots \cup {None}]
Latches ==
  [booting : BOOLEAN, stopped : BOOLEAN, subscribed : BOOLEAN, callback : BOOLEAN,
   calling : BOOLEAN, permanent : BOOLEAN]

\* Types of all variables; a transaction is resent as often as its command allows, and once
\* more is counted when it is refused (WallController_Comm_Manager.c:758-760).
TypeOK ==
  /\ slot \in [Slots -> Transactions]
  /\ \A s \in Slots : slot[s].cmd # None => slot[s].retry <= MaxRetry[slot[s].cmd] + 1
  /\ uiaRevision \in [Commands -> Nat] /\ \A c \in Commands : uiaRevision[c] \in Revs(c)
  /\ sender \in [Senders -> SenderStates] /\ asked \subseteq Commands
  /\ acked \in [Commands -> SUBSET Nat]
  /\ frames \subseteq Frames /\ answers \subseteq Answers
  /\ driver \in Drivers /\ sys \in Managers /\ latch \in Latches

\* The sender works on a slot it has claimed, or taken for a resend, and not yet left.
Works(k, s) == sender[k].pc \in {"send", "backoff", "drop"} /\ sender[k].slot = s

\* However many threads send one command, and whatever happens between the lookup of the
\* command and the claim of a slot, two of them never get the same transaction, neither by
\* two claims, nor by two resends, nor by a claim and a resend; and what a sender is about
\* to transmit is a transaction of its command that waits for just that (702-768, 932-1010).
OneSenderPerSlot ==
  \A k \in Senders, s \in Slots : Works(k, s) =>
    /\ \A j \in Senders : Works(j, s) => j = k
    /\ slot[s].cmd = Sends[k]
    /\ sender[k].pc # "drop" => slot[s].state = "WaitingTx"

\* A transaction counts as acknowledged only if the destination acknowledged this message of
\* the command: not an earlier one, whose answer comes late (523-572).
AckTruthful ==
  \A s \in Slots : slot[s].state = "DestACK" => slot[s].rev \in acked[slot[s].cmd]

\* A frame in the driver belongs to the transaction in its slot, which waits for it: no
\* time-out, answer or resend touches a transaction before its transmission is completed, so
\* that no completion is stale (165-182).
FramesCurrent == \A f \in frames : Current(f)

\* Between the unlock of a transaction and its release, or the report of its end, it is still
\* the one whose end was found: the thread that unlocked it is the only one about to free it,
\* and no sender of the command has taken it up (176-179, 594-597).
ReleasedOnce ==
  /\ driver.pc # "idle" => slot[driver.slot].state = "WaitingTx"
  /\ sys.pc = "report" => slot[sys.slot].state \in {"DestACK", "Failed"}
  /\ \A s \in Slots :
       \/ driver.pc # "idle" /\ s = driver.slot
       \/ sys.pc = "report" /\ s = sys.slot
       => \A k \in Senders : ~ Works(k, s)

\* A transaction that nobody works on and no completion will reach.
Stranded(s) ==
  /\ slot[s].state = "WaitingTx"
  /\ ~ \E f \in frames : f.slot = s
  /\ driver.slot # s
  /\ \A k \in Senders : ~ Works(k, s)

\* The command of the transaction has a second one: two senders had looked it up before either
\* claimed a slot, which nothing prevents (703-711).
Doubled(s) == \E r \in Slots \ {s} : slot[r].state # "Free" /\ slot[r].cmd = slot[s].cmd

\* A transaction to be resent, and nobody who will: the resend found the other transaction.
PassedOver(s) ==
  /\ slot[s].state = "PrepareRetransmit"
  /\ slot[s].cmd \notin asked
  /\ \A k \in Senders : ~ (sender[k].pc = "subscribe" /\ Sends[k] = slot[s].cmd)
  /\ ~ (sys.pc \in {"ask", "giveup"} /\ sys.slot = s)

\* Every transaction ends, however often it is resent, on a bus that loses everything: the
\* retries are counted.  There are two exceptions.  A back-off that did not get the mutex in
\* time (801-814) leaves the transaction waiting for a completion that does not come.  And a
\* transaction is passed over while its command has a second one.
TransactionEnds ==
  \A s \in Slots :
    slot[s].state # "Free" /\ ~ PassedOver(s)
      ~> slot[s].state = "Free" \/ Stranded(s) \/ (PassedOver(s) /\ Doubled(s))

\* A permanent fault of the bus is noticed, whether it falls before the subscription, into it,
\* or into the window in which start-up resets the flag (82-83, 132-175; CAN_Controller.c:349-383).
FaultNoticed == latch.stopped ~> latch.permanent
=============================================================================
