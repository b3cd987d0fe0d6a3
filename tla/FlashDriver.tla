---------------------------- MODULE FlashDriver ----------------------------
(***************************************************************************)
(* The driver of the external flash: the Zephyr flash interface            *)
(* (ZephyrFlashMiddleWare.c), reading, page programming and sector erase   *)
(* (ExtFlash_ReadWriteControl.c), the setup of the chip                    *)
(* (ExtFlash_InitialSetupCtrl.c) and the SPI transfers each is made of     *)
(* (SPIController.c).                                                      *)
(*                                                                         *)
(* A mutex makes the operations take turns, so that one is in service (op) *)
(* and a caller that waits has no state.  An operation is a script of      *)
(* transfers; each is prepared, started and waited for, while the SPI      *)
(* hardware and the chip, both external, go on by themselves.  A transfer  *)
(* that is given up stays in the hardware, and completes some time later.  *)
(***************************************************************************)
EXTENDS Integers, Sequences

CONSTANTS
  PageSize,    \* EXT_FLASH_PAGE_SIZE_BYTEs
  SectorSize,  \* EXT_FLASH_SECTOR_SIZE_BYTES, the erase-block-size of the device
  DeviceSize,  \* size-in-bytes of the device
  ReadSize,    \* QUAD_READ_MAX_TRANSACTION_LENGTH
  Requests,    \* the operations callers ask for
  None         \* no transfer, no command

Kinds == {"setup", "read", "write", "erase"}

\* A bit stands for a cell: TRUE if it is programmed.  Lengths are those of the data.
ASSUME FlashConstantsAssumption ==
  /\ {PageSize, SectorSize, DeviceSize, ReadSize} \subseteq Nat \ {0}
  /\ DeviceSize % SectorSize = 0 /\ SectorSize % PageSize = 0
  /\ Requests \subseteq [kind : Kinds, addr : Nat, len : Nat, data : Seq(BOOLEAN)]
  /\ \A r \in Requests : r.kind = "write" => Len(r.data) = r.len

\* What goes over the wire.
Commands ==
       [c : {"wren", "wrdi", "id", "status"}]
  \cup [c : {"program"}, addr : Nat, data : Seq(BOOLEAN)]
  \cup [c : {"erase"}, addr : Nat]
  \cup [c : {"read"}, addr : Nat, len : Nat]

ASSUME NoCommandAssumption == None \notin Commands

VARIABLES
  mem,    \* content of the chip
  chip,   \* its write-enable latch, and the command it is busy with
  wire,   \* the transfer in the hardware, and whether its caller still waits for it
  done,   \* stTSem_SPITransferDone and eLastTransferResult
  rx,     \* what the transfer received
  op,     \* the operation in service and how far it is
  setup,  \* bIsExtFlashSetupSuccess
  past    \* history: content and state of the chip when the operation began

flashVars == <<mem, chip, wire, done, rx, op, setup, past>>

Cells == 0 .. DeviceSize - 1
RangeOf(r) == {x \in Cells : r.addr <= x /\ x < r.addr + r.len}

NoRequest == [kind |-> "none", addr |-> 0, len |-> 0, data |-> <<>>]
NoWire == [cmd |-> None, waited |-> FALSE]
\* A buffer that nothing was received into: the status register reads zero.
Blank == [wip |-> FALSE, wel |-> FALSE, data |-> <<>>]

\* A script that has not begun a transfer.
AtStep(s) == [step |-> s, phase |-> "prepare"]

Init ==
  /\ mem = [x \in Cells |-> FALSE]
  /\ chip = [wel |-> FALSE, busy |-> None]
  /\ wire = NoWire /\ done = [sem |-> 0, result |-> "success"] /\ rx = Blank
  /\ op = [req |-> NoRequest, done |-> 0, at |-> AtStep("idle"), got |-> <<>>, ok |-> FALSE]
  /\ setup = FALSE
  /\ past = [mem |-> mem, quiet |-> TRUE, touched |-> {}]

-----------------------------------------------------------------------------
(* The operation in service. *)

At(s, p) == op.at = [step |-> s, phase |-> p]
Goto(s) == op' = [op EXCEPT !.at = AtStep(s)]
Return(ok) == op' = [op EXCEPT !.at = AtStep("return"), !.ok = ok]

Left == op.req.len - op.done
Here == op.req.addr + op.done
AtMost(n) == IF Left < n THEN Left ELSE n

\* Seeded fault: a block of one page is programmed wherever it begins.
WholePage == AtMost(PageSize)

\* What is left of the page the address lies in.
PageChunk == AtMost(PageSize - (Here % PageSize))

Chunk ==
  CASE op.req.kind = "write" -> PageChunk
    [] op.req.kind = "read"  -> AtMost(ReadSize)
    [] op.req.kind = "erase" -> SectorSize

\* The command of a step.
Command ==
  CASE op.at.step = "enable"  -> [c |-> "wren"]
    [] op.at.step = "disable" -> [c |-> "wrdi"]
    [] op.at.step = "probe"   -> [c |-> "id"]
    [] op.at.step = "program" ->
         [c |-> "program", addr |-> Here, data |-> SubSeq(op.req.data, op.done + 1, op.done + Chunk)]
    [] op.at.step = "erase"   -> [c |-> "erase", addr |-> Here]
    [] op.at.step = "fetch"   -> [c |-> "read", addr |-> Here, len |-> Chunk]
    [] OTHER                  -> [c |-> "status"]

\* iValidate_FlashRange, and the alignment of an erase.
Valid(r) ==
  /\ r.addr <= DeviceSize /\ r.len <= DeviceSize - r.addr
  /\ r.kind = "erase" => r.addr % SectorSize = 0 /\ r.len % SectorSize = 0

First(r) ==
  CASE r.kind = "setup" -> "probe"
    [] r.kind = "read"  -> "fetch"
    [] OTHER            -> "enable"

\* iZephyrFlash_Init, _Read, _Write, _Erase.  Nothing else is refused once the chip is set up.
Begin(r) ==
  /\ At("idle", "prepare")
  /\ LET accepted == r.kind = "setup" \/ (Valid(r) /\ (setup \/ r.len = 0)) IN
       op' = [req |-> r, done |-> 0, got |-> <<>>, ok |-> accepted,
              at |-> AtStep(IF accepted /\ (r.kind = "setup" \/ r.len > 0) THEN First(r)
                            ELSE "return")]
  /\ r.kind = "setup" => ~ setup
  /\ LET quiet == wire = NoWire /\ chip.busy = None IN
       past' = [mem |-> mem, quiet |-> quiet,
                touched |-> IF quiet THEN RangeOf(r) ELSE past.touched \cup RangeOf(r)]
  /\ UNCHANGED <<mem, chip, wire, done, rx, setup>>

End ==
  /\ At("return", "prepare")
  /\ op' = [req |-> NoRequest, done |-> 0, at |-> AtStep("idle"), got |-> <<>>, ok |-> FALSE]
  /\ UNCHANGED <<mem, chip, wire, done, rx, setup, past>>

\* Range and length are looked at before the mutex is taken; the setup does not take it.
HoldsMutex == op.req.kind # "setup" /\ Valid(op.req) /\ op.req.len > 0

\* END of a bulk transfer aborts the thread of its worker, which may be in an operation.  Nobody
\* gives the mutex back: the flash stays in service, and what was on its way completes.
CallerAborted ==
  /\ HoldsMutex /\ op.at.step # "aborted"
  /\ op' = [op EXCEPT !.at = AtStep("aborted"), !.ok = FALSE]
  /\ UNCHANGED <<mem, chip, wire, done, rx, setup, past>>

-----------------------------------------------------------------------------
(* A transfer: bSPI_Write, bSPI_Transceive, bSPI_MultiPhaseTranseive. *)

Transferring == op.at.step \notin {"idle", "return", "aborted"}

\* The semaphore is reset; a transfer still in the hardware is not the one to wait for.
Prepare ==
  /\ Transferring /\ op.at.phase = "prepare"
  /\ done' = [sem |-> 0, result |-> "failed"]
  /\ rx' = Blank
  /\ wire' = [wire EXCEPT !.waited = FALSE]
  /\ op' = [op EXCEPT !.at.phase = "start"]
  /\ UNCHANGED <<mem, chip, setup, past>>

Start ==
  /\ op.at.phase = "start" /\ wire = NoWire
  /\ wire' = [cmd |-> Command, waited |-> TRUE]
  /\ op' = [op EXCEPT !.at.phase = "wait"]
  /\ UNCHANGED <<mem, chip, done, rx, setup, past>>

\* The hardware does not take the transfer: it has one, or it fails.
StartFails ==
  /\ op.at.phase = "start"
  /\ Return(FALSE)
  /\ UNCHANGED <<mem, chip, wire, done, rx, setup, past>>

\* The semaphore does not come in time: the transfer is left to itself.
WaitTimeout ==
  /\ op.at.phase = "wait" /\ done.sem = 0
  /\ Return(FALSE)
  /\ wire' = [wire EXCEPT !.waited = FALSE]
  /\ UNCHANGED <<mem, chip, done, rx, setup, past>>

Taken == op.at.phase = "wait" /\ done.sem = 1
Consumed == done' = [done EXCEPT !.sem = 0] /\ UNCHANGED <<mem, chip, wire, rx, past>>

TransferFails ==
  /\ Taken /\ done.result = "failed"
  /\ Return(FALSE)
  /\ Consumed /\ UNCHANGED setup

-----------------------------------------------------------------------------
(* What follows a transfer that succeeded. *)

Succeeded(s) == Taken /\ done.result = "success" /\ op.at.step = s

\* Seeded fault: the write-enable latch is not looked at.
LatchUnchecked == TRUE

\* bIsWrite_Enabled
IsWriteEnabled == rx.wel

\* bExtFlash_WriteEnable, and the command it is for.
Enabled ==
  /\ \/ Succeeded("enable") /\ Goto("enabled")
     \/ Succeeded("enabled") /\ IsWriteEnabled
        /\ Goto(CASE op.req.kind = "write" -> "program"
                  [] op.req.kind = "erase" -> "erase"
                  [] OTHER -> "disable")
     \/ Succeeded("enabled") /\ ~ IsWriteEnabled /\ Return(FALSE)
     \/ (Succeeded("program") \/ Succeeded("erase")) /\ Goto("poll")
  /\ Consumed /\ UNCHANGED setup

\* iPoll_ExtBusyStatus_Sync.
PollAgain ==
  /\ Succeeded("poll") /\ rx.wip
  /\ Goto("poll")
  /\ Consumed /\ UNCHANGED setup

\* Seeded fault: the poll never gives up.
PollForever ==
  /\ Succeeded("poll") /\ rx.wip
  /\ Goto("poll")
  /\ Consumed /\ UNCHANGED setup

PollTimeout ==
  /\ Succeeded("poll") /\ rx.wip
  /\ Return(FALSE)
  /\ Consumed /\ UNCHANGED setup

Polled ==
  /\ Succeeded("poll") /\ ~ rx.wip
  /\ Goto("cleared")
  /\ Consumed /\ UNCHANGED setup

\* A part of the operation is over.
Advance(got) ==
  op' = [op EXCEPT !.done = @ + Chunk, !.got = got,
                   !.at = AtStep(IF Left > Chunk THEN First(op.req) ELSE "return")]

\* The latch has been cleared by the chip, or the write is taken to have failed.
Cleared ==
  /\ \/ Succeeded("cleared") /\ ~ rx.wel /\ Advance(<<>>)
     \/ Succeeded("cleared") /\ rx.wel /\ Return(FALSE)
  /\ Consumed /\ UNCHANGED setup

Fetched ==
  /\ Succeeded("fetch")
  /\ Advance(op.got \o rx.data)
  /\ Consumed /\ UNCHANGED setup

\* bExec_Flash_InitialSetup: identity and registers, write enable and disable, and SFDP.
SetUp ==
  /\ \/ Succeeded("probe") /\ Goto("enable") /\ UNCHANGED setup
     \/ Succeeded("probe") /\ Return(FALSE) /\ UNCHANGED setup
     \/ Succeeded("disable") /\ Goto("disabled") /\ UNCHANGED setup
     \/ Succeeded("disabled") /\ ~ rx.wel /\ Return(TRUE) /\ setup' = TRUE
     \/ Succeeded("disabled") /\ rx.wel /\ Return(FALSE) /\ UNCHANGED setup
  /\ Consumed

-----------------------------------------------------------------------------
(* The hardware: external. *)

\* The page of a program command, in which the chip wraps around.
Programmed(cmd) ==
  {(cmd.addr - (cmd.addr % PageSize)) + ((cmd.addr + i - 1) % PageSize) :
     i \in {j \in DOMAIN cmd.data : cmd.data[j]}}

Sector(a) == {x \in Cells : x \div SectorSize = a \div SectorSize}

After(cmd) ==
  [x \in Cells |-> IF cmd.c = "program" THEN mem[x] \/ x \in Programmed(cmd)
                   ELSE mem[x] /\ x \notin Sector(cmd.addr)]

\* What the chip does with a command: while it is busy it answers the status only.
Execute(cmd) ==
  chip' = IF chip.busy # None THEN chip ELSE
            CASE cmd.c = "wren" -> [chip EXCEPT !.wel = TRUE]
              [] cmd.c = "wrdi" -> [chip EXCEPT !.wel = FALSE]
              [] cmd.c \in {"program", "erase"} /\ chip.wel -> [chip EXCEPT !.busy = cmd]
              [] OTHER -> chip

Received(cmd) ==
  [wip |-> cmd.c = "status" /\ chip.busy # None, wel |-> cmd.c = "status" /\ chip.wel,
   data |-> IF cmd.c = "read" /\ chip.busy = None
            THEN [i \in 1 .. cmd.len |-> mem[cmd.addr + i - 1]] ELSE <<>>]

\* vLPSPI1_Callback.  A command may not be taken by the chip, and a transfer may fail.
TransferDone ==
  /\ wire # NoWire
  /\ wire' = NoWire
  /\ \/ /\ Execute(wire.cmd) \/ UNCHANGED chip
        /\ done' = [sem |-> 1, result |-> "success"]
        /\ rx' = IF wire.waited THEN Received(wire.cmd) ELSE rx
     \/ done' = [sem |-> 1, result |-> "failed"] /\ UNCHANGED <<chip, rx>>
  /\ UNCHANGED <<mem, op, setup, past>>

\* The chip ends its command and clears its latch.
ChipDone ==
  /\ chip.busy # None
  /\ mem' = After(chip.busy)
  /\ chip' = [wel |-> FALSE, busy |-> None]
  /\ UNCHANGED <<wire, done, rx, op, setup, past>>

-----------------------------------------------------------------------------
(* The specification. *)

DriverStep ==
  \/ Prepare \/ Start \/ StartFails \/ WaitTimeout \/ TransferFails \/ Enabled \/ PollAgain
  \/ PollTimeout \/ Polled \/ Cleared \/ Fetched \/ SetUp \/ End

Next ==
  \/ \E r \in Requests : Begin(r)
  \/ DriverStep \/ CallerAborted \/ TransferDone \/ ChipDone

Spec == Init /\ [][Next]_flashVars

\* The caller's thread runs unless it is aborted, and the clock the poll reads goes on; the
\* hardware owes nothing.
FairSpec == Spec /\ WF_flashVars(DriverStep) /\ SF_flashVars(PollTimeout)
=============================================================================
