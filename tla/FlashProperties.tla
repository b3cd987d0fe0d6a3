-------------------------- MODULE FlashProperties --------------------------
(* What the flash driver owes to LittleFS and to the bootloader. *)
EXTENDS FlashDriver

\* Types of all variables.
FlashTypeOK ==
  /\ mem \in [Cells -> BOOLEAN]
  /\ chip.wel \in BOOLEAN /\ wire.waited \in BOOLEAN
  /\ done \in [sem : {0, 1}, result : {"success", "failed"}]
  /\ op.req \in Requests \cup {NoRequest} /\ op.done \in 0 .. op.req.len
  /\ {op.ok, setup, past.quiet} \subseteq BOOLEAN
  /\ past.touched \subseteq Cells

\* What the operation promises.
Promised(x) ==
  CASE op.req.kind = "write" ->
         past.mem[x] \/ (x \in RangeOf(op.req) /\ op.req.data[x - op.req.addr + 1])
    [] op.req.kind = "erase" -> past.mem[x] /\ x \notin RangeOf(op.req)
    [] OTHER -> past.mem[x]

\* An operation that reports success has done what it was asked for, page for page and sector
\* for sector, and nothing else; a read has returned the content.  The exception: it began
\* while the chip or the SPI hardware was still at work for an operation that had been given
\* up, whose completion it may take for its own (SPIController.c:74-78,
\* 93-118; ExtFlash_ReadWriteControl.c:63-107, 165-195).
SuccessIsTrue ==
  At("return", "prepare") /\ op.ok /\ past.quiet =>
    /\ \A x \in Cells : mem[x] = Promised(x)
    /\ op.req.kind = "read" =>
         op.got = [i \in 1 .. op.req.len |-> mem[op.req.addr + i - 1]]

\* Nothing but the cells that were asked for is ever changed, by an operation that fails and by
\* what the chip does after it was given up as well: a page program that crossed the end of
\* its page would wrap around to the begin of the page (72-81).
OnlyRangeTouched ==
  [][\A x \in Cells : mem'[x] # mem[x] => x \in past.touched]_mem

\* Every operation returns and gives the flash back, also with a chip that stays busy and an
\* SPI that never answers (SPIController.c:104-109, ExtFlash_ReadWriteControl.c:180-184).  The
\* exception: its thread is aborted in it (LittleFs_Controller.c:290-294).
OperationsReturn ==
  op.req # NoRequest ~> op.req = NoRequest \/ At("aborted", "prepare")
=============================================================================
