----------------------------- MODULE FlashProofs -----------------------------
(***************************************************************************)
(* What is proved about the driver of the external flash.  The invariant   *)
(* follows an operation through its script: what is on the wire and in the *)
(* chip stays within the cells that were asked for (Contained), and, for an*)
(* operation that began in peace, the content is at every step what the    *)
(* parts that are done make of the content it found (Faithful).            *)
(***************************************************************************)
EXTENDS FlashProperties, SequenceTheorems, TLAPS

(***************************************************************************)
(* The invariant.                                                          *)
(***************************************************************************)

Steps == {"idle", "return", "probe", "enable", "enabled", "program", "erase", "poll",
          "cleared", "fetch", "disable", "disabled", "aborted"}
Phases == {"prepare", "start", "wait"}
Works == {cmd \in Commands : cmd.c \in {"program", "erase"}}

\* The type invariant: an operation with its place in the script, and what is on the wire.
OpType == [req : Requests \cup {NoRequest}, done : Nat, at : [step : Steps, phase : Phases],
           got : Seq(BOOLEAN), ok : BOOLEAN]

WireType == [cmd : Commands, waited : BOOLEAN] \cup {NoWire}

TypeInv ==
  /\ mem \in [Cells -> BOOLEAN]
  /\ chip \in [wel : BOOLEAN, busy : Works \cup {None}]
  /\ wire \in WireType
  /\ done \in [sem : {0, 1}, result : {"success", "failed"}]
  /\ rx \in [wip : BOOLEAN, wel : BOOLEAN, data : Seq(BOOLEAN)]
  /\ op \in OpType
  /\ setup \in BOOLEAN
  /\ past \in [mem : [Cells -> BOOLEAN], quiet : BOOLEAN, touched : SUBSET Cells]

\* A part of the operation is left, and it lies within the device.
InService ==
  /\ op.req \in Requests /\ Valid(op.req) /\ op.done < op.req.len
  /\ op.req.kind = "erase" => op.done % SectorSize = 0

\* The step an operation is at fits its kind: a page program belongs to a write that has bytes
\* left, an erase to an erase, a setup goes no further than the latch.
Stepping ==
  CASE op.at.step = "idle" -> op.req = NoRequest
    [] op.at.step \in {"return", "aborted"} -> op.req \in Requests
    [] op.at.step \in {"probe", "disable", "disabled"} ->
         op.req \in Requests /\ op.req.kind = "setup"
    [] op.at.step \in {"enable", "enabled"} ->
         /\ op.req \in Requests
         /\ op.req.kind = "setup" \/ (op.req.kind \in {"write", "erase"} /\ InService)
    [] op.at.step = "program" -> op.req.kind = "write" /\ InService
    [] op.at.step = "erase" -> op.req.kind = "erase" /\ InService
    [] op.at.step \in {"poll", "cleared"} -> op.req.kind \in {"write", "erase"} /\ InService
    [] op.at.step = "fetch" -> op.req.kind = "read" /\ InService

\* Nothing has failed as long as the script goes on, and only its steps have a transfer.
Script ==
  /\ Stepping
  /\ Transferring => op.ok
  /\ ~Transferring => op.at.phase = "prepare"

\* The cells a command can change, or reads.
Reach(cmd) ==
  CASE cmd.c = "program" ->
         {(cmd.addr - (cmd.addr % PageSize)) + ((cmd.addr + i - 1) % PageSize) :
            i \in DOMAIN cmd.data}
    [] cmd.c = "erase" -> Sector(cmd.addr)
    [] cmd.c = "read" -> cmd.addr .. cmd.addr + cmd.len - 1
    [] OTHER -> {}

\* What the chip is busy with, what is on the wire, also when nobody waits for it any more, and
\* what the operation in service may yet ask for lies within the cells that were asked for.
Contained ==
  /\ chip.busy # None => Reach(chip.busy) \subseteq past.touched
  /\ wire.cmd # None => Reach(wire.cmd) \subseteq past.touched
  /\ Transferring => RangeOf(op.req) \subseteq past.touched

\* The content when n bytes of the operation are done.
Progress(n) ==
  [x \in Cells |->
     CASE op.req.kind = "write" ->
            past.mem[x] \/ (/\ op.req.addr <= x /\ x < op.req.addr + n
                            /\ op.req.data[x - op.req.addr + 1])
       [] op.req.kind = "erase" -> past.mem[x] /\ ~(op.req.addr <= x /\ x < op.req.addr + n)
       [] OTHER -> past.mem[x]]

\* The command that does the next part.
Work ==
  IF op.req.kind = "write"
  THEN [c |-> "program", addr |-> Here, data |-> SubSeq(op.req.data, op.done + 1, op.done + Chunk)]
  ELSE [c |-> "erase", addr |-> Here]

\* The states of the chip during a part: the command has not come, it may come, the chip is at
\* it, it is done.
Untouched == chip.busy = None /\ mem = Progress(op.done)
Ready == Untouched /\ chip.wel
AtWork == chip.busy = Work /\ chip.wel /\ mem = Progress(op.done)
Worked == chip.busy = None /\ ~chip.wel /\ mem = Progress(op.done + Chunk)

\* What a transfer that has succeeded leaves.
Arrived ==
  /\ op.at.step = "enabled" => rx.wel = chip.wel
  /\ op.at.step = "cleared" => (~rx.wel => ~chip.wel)
  /\ op.at.step = "fetch" => rx.data = [i \in 1 .. Chunk |-> mem[Here + i - 1]]

\* Before the command is sent the chip is idle; from its arrival to the end of the poll the chip
\* may also have missed it, be at it, or be done.
ChipState ==
  CASE op.at.step \in {"poll", "cleared"} -> Ready \/ AtWork \/ Worked
    [] op.at.step \in {"program", "erase"} ->
         IF op.at.phase = "wait" /\ done.sem = 1 THEN Ready \/ AtWork \/ Worked ELSE Ready
    [] OTHER -> Untouched

\* The only transfer in the hardware is the one that is waited for.
WireState ==
  CASE op.at.phase = "wait" /\ done.sem = 0 -> wire = [cmd |-> Command, waited |-> TRUE]
    [] op.at.phase = "wait" /\ done.sem = 1 -> wire = NoWire /\ (done.result = "success" => Arrived)
    [] op.at.phase = "start" -> wire = NoWire /\ done.sem = 0
    [] op.at.phase = "prepare" -> wire = NoWire

\* A read has returned what is in the chip, up to where it is.
Read ==
  op.req.kind = "read" => op.got = [i \in 1 .. op.done |-> mem[op.req.addr + i - 1]]

\* Success is reported at the end of the range.
Ended == op.at.step = "return" => op.req.kind = "setup" \/ op.done = op.req.len

\* An operation that began in peace and that nothing has failed for.
Live == past.quiet /\ op.ok /\ op.at.step # "idle"

\* The account of an operation that goes well.
Faithful == Live => WireState /\ ChipState /\ Read /\ Ended

\* No operation does more than it was asked for.
Bounded == op.done <= op.req.len

FlashInv == TypeInv /\ Script /\ Bounded /\ Contained /\ Faithful

-----------------------------------------------------------------------------
(* Arithmetic of pages and sectors. *)

\* The quotient and the remainder of a division are unique.
LEMMA Division ==
  ASSUME NEW m \in Nat \ {0}, NEW q \in Int, NEW r \in 0 .. m - 1, NEW a \in Int, a = m * q + r
  PROVE  a % m = r /\ a \div m = q
  <1> DEFINE d == q - (a \div m)
  <1>1. a \div m \in Int /\ a % m \in 0 .. m - 1 /\ a = m * (a \div m) + (a % m)
    BY SMTT(30)
  <1>2. m * d = m * q - m * (a \div m) /\ d \in Int
    BY <1>1
  <1>3. m * d = (a % m) - r
    BY <1>1, <1>2
  <1>4. ASSUME d > 0
        PROVE  FALSE
    <2>1. m * (d - 1) >= 0 /\ m * (d - 1) = m * d - m
      BY <1>2, <1>4
    <2>2. QED
      BY <1>1, <1>3, <2>1
  <1>5. ASSUME d < 0
        PROVE  FALSE
    <2>1. m * (-d - 1) >= 0 /\ m * (-d - 1) = -(m * d) - m
      BY <1>2, <1>5
    <2>2. QED
      BY <1>1, <1>3, <2>1
  <1>6. d = 0
    BY <1>2, <1>4, <1>5
  <1>7. QED
    BY <1>1, <1>2, <1>3, <1>6

\* The two parts of a division.
LEMMA Parts == \A m \in Nat \ {0}, a \in Int :
                 a \div m \in Int /\ a % m \in 0 .. m - 1 /\ a = m * (a \div m) + (a % m)
  BY SMTT(30)

\* The remainder alone.
LEMMA Remainder ==
  ASSUME NEW m \in Nat \ {0}, NEW a \in Int
  PROVE  a % m \in 0 .. m - 1
  OBVIOUS

\* A byte that is k bytes on in the same page is k bytes behind in the page.
LEMMA SamePage ==
  ASSUME NEW m \in Nat \ {0}, NEW a \in Nat, NEW k \in Nat, (a % m) + k < m
  PROVE  (a + k) % m = (a % m) + k
  <1>1. a \div m \in Int /\ a % m \in 0 .. m - 1 /\ a = m * (a \div m) + (a % m)
    BY Parts
  <1> DEFINE q == a \div m
             r == (a % m) + k
             b == a + k
  <1>2. q \in Int /\ r \in 0 .. m - 1 /\ b \in Int /\ b = m * q + r
    BY <1>1
  <1> HIDE DEF q, r, b
  <1>3. b % m = r
    BY <1>2, Division
  <1>4. QED
    BY <1>3 DEF b, r

\* Multiples of m are at least m apart.
LEMMA Multiples ==
  ASSUME NEW m \in Nat \ {0}, NEW a \in Nat, NEW b \in Nat, a % m = 0, b % m = 0
  PROVE  (a + b) % m = 0 /\ (a + m) % m = 0 /\ (a < b => a + m <= b)
  <1> DEFINE p == a \div m
             q == b \div m
  <1>1. p \in Int /\ q \in Int /\ a = m * p /\ b = m * q
    BY Parts
  <1> HIDE DEF p, q
  <1>2. ASSUME NEW n \in Int, NEW c \in Int, c = m * n
        PROVE  c % m = 0
    <2>1. 0 \in 0 .. m - 1 /\ c = m * n + 0
      BY <1>2
    <2>2. QED
      BY <2>1, Division
  <1>3. p + q \in Int /\ p + 1 \in Int /\ a + b = m * (p + q) /\ a + m = m * (p + 1)
    BY <1>1
  <1>4. (a + b) % m = 0 /\ (a + m) % m = 0
    BY <1>2, <1>3
  <1>5. ASSUME a < b
        PROVE  a + m <= b
    <2>1. CASE q <= p
      <3>1. m * (p - q) >= 0 /\ m * (p - q) = m * p - m * q
        BY <1>1, <2>1
      <3>2. QED
        BY <1>1, <1>5, <3>1
    <2>2. CASE q > p
      <3>1. m * (q - p - 1) >= 0 /\ m * (q - p - 1) = m * q - m * p - m
        BY <1>1, <2>2
      <3>2. QED
        BY <1>1, <3>1
    <2>3. QED
      BY <1>1, <2>1, <2>2
  <1>6. QED
    BY <1>4, <1>5

\* A sector is the cells from its begin on.
LEMMA SectorCells ==
  ASSUME NEW m \in Nat \ {0}, NEW a \in Nat, a % m = 0, NEW x \in Int
  PROVE  x \div m = a \div m <=> a <= x /\ x < a + m
  <1>1. a \div m \in Int /\ a = m * (a \div m)
    BY Parts
  <1>2. x \div m \in Int /\ x % m \in 0 .. m - 1 /\ x = m * (x \div m) + (x % m)
    BY Parts
  <1>3. ASSUME x \div m = a \div m
        PROVE  a <= x /\ x < a + m
    BY <1>1, <1>2, <1>3
  <1>4. ASSUME a <= x, x < a + m
        PROVE  x \div m = a \div m
    <2> DEFINE q == a \div m
               r == x - a
    <2>1. r \in 0 .. m - 1 /\ x = a + r
      BY <1>4
    <2>2. q \in Int /\ a = m * q
      BY <1>1
    <2> HIDE DEF q, r
    <2>3. x = m * q + r
      BY <2>1, <2>2
    <2>4. x \div m = q
      BY <2>1, <2>2, <2>3, Division
    <2>5. QED
      BY <2>4 DEF q
  <1>5. QED
    BY <1>3, <1>4

-----------------------------------------------------------------------------
(* The operation in service and its commands. *)

\* The sizes are positive.
LEMMA Sizes ==
  /\ PageSize \in Nat \ {0} /\ SectorSize \in Nat \ {0} /\ DeviceSize \in Nat \ {0}
  /\ ReadSize \in Nat \ {0}
  BY FlashConstantsAssumption

\* What a request consists of.
LEMMA RequestFields ==
  ASSUME NEW r \in Requests
  PROVE  /\ r.kind \in Kinds /\ r.addr \in Nat /\ r.len \in Nat /\ r.data \in Seq(BOOLEAN)
         /\ r.kind = "write" => Len(r.data) = r.len
  BY FlashConstantsAssumption

\* The range of a request that was let in lies within the device (iValidate_FlashRange).
LEMMA ValidRange ==
  ASSUME NEW r \in Requests, Valid(r)
  PROVE  /\ r.addr + r.len <= DeviceSize
         /\ \A x \in Int : x \in RangeOf(r) <=> r.addr <= x /\ x < r.addr + r.len
  BY RequestFields, Sizes DEF Valid, RangeOf, Cells

\* What the operation in service consists of.
LEMMA OpFields ==
  ASSUME op \in OpType
  PROVE  /\ op.req \in Requests \cup {NoRequest} /\ op.done \in Nat /\ op.got \in Seq(BOOLEAN)
         /\ op.ok \in BOOLEAN /\ op.at.step \in Steps /\ op.at.phase \in Phases
         /\ op.at = [step |-> op.at.step, phase |-> op.at.phase]
  BY DEF OpType

\* The next part of an operation: never empty, never behind the end, and within a page or
\* exactly a sector.
LEMMA ChunkFacts ==
  ASSUME op \in OpType, InService, op.req.kind \in {"write", "read", "erase"}
  PROVE  /\ Chunk \in Nat /\ Chunk > 0 /\ op.done + Chunk <= op.req.len
         /\ Here \in Nat /\ Here = op.req.addr + op.done
         /\ op.req.addr \in Nat /\ op.req.len \in Nat
         /\ op.req.addr + op.req.len <= DeviceSize
         /\ op.req.kind = "write" => (Here % PageSize) + Chunk <= PageSize
         /\ op.req.kind = "erase" => /\ Chunk = SectorSize /\ Here % SectorSize = 0
                                    /\ (op.done + Chunk) % SectorSize = 0
         /\ Left > Chunk <=> op.done + Chunk < op.req.len
  <1>1. /\ op.req \in Requests /\ Valid(op.req) /\ op.done \in Nat /\ op.done < op.req.len
        /\ op.req.addr \in Nat /\ op.req.len \in Nat
    BY OpFields, RequestFields DEF InService
  <1>2. Here \in Nat /\ Here = op.req.addr + op.done /\ Left \in Nat /\ Left > 0
        /\ Left = op.req.len - op.done
    BY <1>1 DEF Here, Left
  <1>3. op.req.addr + op.req.len <= DeviceSize
    BY <1>1, ValidRange
  <1>4. CASE op.req.kind = "write"
    <2>1. Here % PageSize \in 0 .. PageSize - 1 /\ PageSize \in Nat
      <3>1. PageSize \in Nat \ {0} /\ Here \in Int
        BY <1>2, Sizes
      <3>2. Here % PageSize \in 0 .. PageSize - 1
        BY <3>1, Remainder
      <3>3. QED
        BY <3>1, <3>2
    <2>2. Chunk = IF Left < PageSize - (Here % PageSize) THEN Left ELSE PageSize - (Here % PageSize)
      BY <1>4 DEF Chunk, PageChunk, AtMost
    <2>3. QED
      BY <1>1, <1>2, <1>3, <1>4, <2>1, <2>2
  <1>5. CASE op.req.kind = "read"
    <2>1. Chunk = IF Left < ReadSize THEN Left ELSE ReadSize
      BY <1>5 DEF Chunk, AtMost
    <2>2. QED
      BY <1>1, <1>2, <1>3, <1>5, <2>1, Sizes
  <1>6. CASE op.req.kind = "erase"
    <2>1. Chunk = SectorSize /\ SectorSize \in Nat \ {0}
      BY <1>6, Sizes DEF Chunk
    <2>2. /\ op.req.addr % SectorSize = 0 /\ op.req.len % SectorSize = 0
          /\ op.done % SectorSize = 0
      BY <1>1, <1>6 DEF Valid, InService
    <2>3. op.done + SectorSize <= op.req.len /\ (op.done + SectorSize) % SectorSize = 0
      BY <1>1, <2>1, <2>2, Multiples
    <2>4. (op.req.addr + op.done) % SectorSize = 0
      BY <1>1, <2>1, <2>2, Multiples
    <2>5. QED
      BY <1>1, <1>2, <1>3, <1>6, <2>1, <2>3, <2>4
  <1>7. QED
    BY <1>4, <1>5, <1>6

\* The cells a page program or a sector erase changes are those of its part.
LEMMA WorkCells ==
  ASSUME op \in OpType, InService, op.req.kind \in {"write", "erase"}
  PROVE  /\ Work \in Works
         /\ Reach(Work) \subseteq RangeOf(op.req)
         /\ op.req.kind = "write" =>
              \A x \in Cells : x \in Programmed(Work) <=>
                 Here <= x /\ x < Here + Chunk /\ op.req.data[x - op.req.addr + 1]
         /\ op.req.kind = "erase" =>
              \A x \in Cells : x \in Sector(Here) <=> Here <= x /\ x < Here + Chunk
  <1>1. /\ Chunk \in Nat /\ Chunk > 0 /\ op.done + Chunk <= op.req.len
        /\ Here \in Nat /\ Here = op.req.addr + op.done /\ op.done \in Nat
        /\ op.req.addr \in Nat /\ op.req.len \in Nat
        /\ op.req.addr + op.req.len <= DeviceSize /\ DeviceSize \in Nat
    BY ChunkFacts, OpFields, Sizes
  <1>2. /\ op.req \in Requests /\ Valid(op.req)
        /\ \A x \in Int : x \in RangeOf(op.req) <=> op.req.addr <= x /\ x < op.req.addr + op.req.len
    BY ValidRange DEF InService
  <1>3. CASE op.req.kind = "write"
    <2> DEFINE d == op.req.data
               b == SubSeq(d, op.done + 1, op.done + Chunk)
    <2>1. d \in Seq(BOOLEAN) /\ Len(d) = op.req.len
      BY <1>2, <1>3, RequestFields
    <2>2. b \in Seq(BOOLEAN) /\ Len(b) = Chunk /\ \A i \in 1 .. Chunk : b[i] = d[op.done + i]
      <3>1. \A i \in op.done + 1 .. op.done + Chunk : d[i] \in BOOLEAN
        BY <1>1, <2>1
      <3> DEFINE f == op.done + 1
                 l == op.done + Chunk
      <3>2. f \in Int /\ l \in Int /\ \A i \in f .. l : d[i] \in BOOLEAN
        BY <1>1, <3>1
      <3> HIDE DEF d, f, l
      <3>3. /\ SubSeq(d, f, l) \in Seq(BOOLEAN)
            /\ Len(SubSeq(d, f, l)) = IF f <= l THEN l - f + 1 ELSE 0
            /\ \A i \in 1 .. l - f + 1 : SubSeq(d, f, l)[i] = d[f + i - 1]
        BY <3>2, SubSeqProperties
      <3>4. f <= l /\ l - f + 1 = Chunk /\ \A i \in 1 .. Chunk : f + i - 1 = op.done + i
        BY <1>1 DEF f, l
      <3>5. QED
        BY <3>3, <3>4 DEF f, l
    <2> HIDE DEF b, d
    <2>3. Work = [c |-> "program", addr |-> Here, data |-> b]
      BY <1>3 DEF Work, b, d
    <2>4. Work \in Works
      BY <1>1, <2>2, <2>3 DEF Works, Commands
    <2>5. ASSUME NEW i \in 1 .. Chunk
          PROVE  (Here - (Here % PageSize)) + ((Here + i - 1) % PageSize) = Here + (i - 1)
      <3>1. Here % PageSize \in 0 .. PageSize - 1 /\ (Here % PageSize) + Chunk <= PageSize
            /\ PageSize \in Nat \ {0}
        <4>1. PageSize \in Nat \ {0} /\ Here \in Int
          BY <1>1, Sizes
        <4>2. Here % PageSize \in 0 .. PageSize - 1
          BY <4>1, Remainder
        <4>3. (Here % PageSize) + Chunk <= PageSize
          BY <1>3, ChunkFacts
        <4>4. QED
          BY <4>1, <4>2, <4>3
      <3>2. i - 1 \in Nat /\ (Here % PageSize) + (i - 1) < PageSize
        BY <1>1, <3>1
      <3>3. (Here + (i - 1)) % PageSize = (Here % PageSize) + (i - 1)
        BY <1>1, <3>1, <3>2, SamePage
      <3>4. Here + i - 1 = Here + (i - 1)
        BY <1>1
      <3>5. QED
        BY <1>1, <3>1, <3>3, <3>4
    <2>6. DOMAIN b = 1 .. Chunk /\ Work.c = "program" /\ Work.addr = Here /\ Work.data = b
      BY <1>1, <2>2, <2>3
    <2>7. Reach(Work) = {Here + (i - 1) : i \in 1 .. Chunk}
      BY <2>5, <2>6 DEF Reach
    <2>8. Reach(Work) \subseteq RangeOf(op.req)
      BY <1>1, <1>2, <2>7
    <2>9. Programmed(Work) = {Here + (i - 1) : i \in {j \in 1 .. Chunk : b[j]}}
      BY <2>5, <2>6 DEF Programmed
    <2>10. ASSUME NEW x \in Cells
           PROVE  x \in Programmed(Work) <=>
                    Here <= x /\ x < Here + Chunk /\ d[x - op.req.addr + 1]
      <3>1. x \in Int
        BY DEF Cells
      <3>2. CASE Here <= x /\ x < Here + Chunk
        <4> DEFINE k == x - Here + 1
        <4>1. k \in 1 .. Chunk /\ x = Here + (k - 1) /\ op.done + k = x - op.req.addr + 1
          BY <1>1, <3>1, <3>2
        <4>2. \A i \in 1 .. Chunk : x = Here + (i - 1) => i = k
          BY <1>1, <3>1
        <4> HIDE DEF k
        <4>3. b[k] = d[x - op.req.addr + 1]
          BY <2>2, <4>1
        <4>4. QED
          BY <2>9, <3>2, <4>1, <4>2, <4>3
      <3>3. CASE ~(Here <= x /\ x < Here + Chunk)
        BY <1>1, <2>9, <3>1, <3>3
      <3>4. QED
        BY <3>2, <3>3
    <2>11. QED
      BY <1>3, <2>4, <2>8, <2>10 DEF d
  <1>4. CASE op.req.kind = "erase"
    <2>1. Work = [c |-> "erase", addr |-> Here]
      BY <1>4 DEF Work
    <2>2. Work \in Works /\ Work.c = "erase" /\ Work.addr = Here
      BY <1>1, <2>1 DEF Works, Commands
    <2>3. Chunk = SectorSize /\ Here % SectorSize = 0 /\ SectorSize \in Nat \ {0}
      BY <1>4, ChunkFacts, Sizes
    <2>4. \A x \in Cells : x \in Sector(Here) <=> Here <= x /\ x < Here + Chunk
      <3>1. ASSUME NEW x \in Cells
            PROVE  x \in Sector(Here) <=> Here <= x /\ x < Here + Chunk
        <4>1. x \in Int
          BY DEF Cells
        <4>2. x \div SectorSize = Here \div SectorSize <=> Here <= x /\ x < Here + SectorSize
          BY <1>1, <2>3, <4>1, SectorCells
        <4>3. QED
          BY <2>3, <4>2 DEF Sector
      <3>2. QED
        BY <3>1
    <2>5. Reach(Work) \subseteq RangeOf(op.req)
      <3>1. Reach(Work) = Sector(Here) /\ Sector(Here) \subseteq Cells /\ Cells \subseteq Int
        BY <2>2 DEF Reach, Sector, Cells
      <3>2. ASSUME NEW x \in Sector(Here)
            PROVE  x \in RangeOf(op.req)
        <4>1. x \in Int /\ Here <= x /\ x < Here + Chunk
          BY <2>4, <3>1
        <4>2. op.req.addr <= x /\ x < op.req.addr + op.req.len
          BY <1>1, <4>1
        <4>3. QED
          BY <1>2, <4>1, <4>2
      <3>3. QED
        BY <3>1, <3>2
    <2>6. QED
      BY <1>4, <2>2, <2>4, <2>5
  <1>5. QED
    BY <1>3, <1>4

\* The command of every step is one the chip knows, within the range of its operation.
LEMMA CommandFacts ==
  ASSUME op \in OpType, Script, Transferring
  PROVE  /\ Command \in Commands /\ Command # None
         /\ Reach(Command) \subseteq RangeOf(op.req)
         /\ op.at.step \in {"program", "erase"} => Command = Work
         /\ op.at.step = "fetch" => /\ Command = [c |-> "read", addr |-> Here, len |-> Chunk]
                                   /\ Here \in Nat /\ Chunk \in Nat
         /\ op.at.step \notin {"program", "erase"} => Command.c \notin {"program", "erase"}
         /\ op.at.step \in {"enabled", "poll", "cleared", "disabled"} => Command.c = "status"
  <1>1. None \notin Commands
    BY NoCommandAssumption
  <1>2. CASE op.at.step \in {"program", "erase"}
    <2>1. InService /\ Command = Work /\ op.req.kind \in {"write", "erase"}
      BY <1>2 DEF Script, Stepping, Command, Work
    <2>2. Work \in Works /\ Reach(Work) \subseteq RangeOf(op.req)
      BY <2>1, WorkCells
    <2>3. QED
      BY <1>1, <1>2, <2>1, <2>2 DEF Works
  <1>3. CASE op.at.step = "fetch"
    <2>1. /\ InService /\ op.req.kind = "read"
          /\ Command = [c |-> "read", addr |-> Here, len |-> Chunk]
      BY <1>3 DEF Script, Stepping, Command
    <2>2. /\ Here \in Nat /\ Chunk \in Nat /\ Here = op.req.addr + op.done
          /\ op.done + Chunk <= op.req.len /\ op.done \in Nat
          /\ op.req.addr \in Nat /\ op.req.len \in Nat /\ op.req \in Requests /\ Valid(op.req)
      BY <2>1, ChunkFacts, OpFields DEF InService
    <2>3. Command \in Commands /\ Command.c = "read"
      BY <2>1, <2>2 DEF Commands
    <2>4. Reach(Command) = Here .. Here + Chunk - 1
      BY <2>1 DEF Reach
    <2>5. Reach(Command) \subseteq RangeOf(op.req)
      <3>1. \A x \in Int : x \in RangeOf(op.req) <=>
                            op.req.addr <= x /\ x < op.req.addr + op.req.len
        BY <2>2, ValidRange
      <3>2. ASSUME NEW x \in Here .. Here + Chunk - 1
            PROVE  x \in RangeOf(op.req)
        <4>1. x \in Int /\ op.req.addr <= x /\ x < op.req.addr + op.req.len
          BY <2>2
        <4>2. QED
          BY <3>1, <4>1
      <3>3. QED
        BY <2>4, <3>2
    <2>6. QED
      BY <1>1, <1>3, <2>1, <2>2, <2>3, <2>5
  <1>4. CASE op.at.step \notin {"program", "erase", "fetch"}
    <2>1. /\ Command \in {[c |-> "wren"], [c |-> "wrdi"], [c |-> "id"], [c |-> "status"]}
          /\ op.at.step \in {"enabled", "poll", "cleared", "disabled"} => Command = [c |-> "status"]
      BY <1>4 DEF Command
    <2>2. Command \in Commands /\ Command.c \in {"wren", "wrdi", "id", "status"}
          /\ (Command = [c |-> "status"] => Command.c = "status")
      BY <2>1 DEF Commands
    <2>3. Reach(Command) = {}
      BY <2>2 DEF Reach
    <2>4. QED
      BY <1>1, <1>4, <2>1, <2>2, <2>3
  <1>5. QED
    BY <1>2, <1>3, <1>4

-----------------------------------------------------------------------------
(* What the steps do to the operation, and the types. *)

\* A step of the script changes the place in it and nothing else of the operation.
LEMMA OpMoves ==
  ASSUME op \in OpType, NEW s \in Steps
  PROVE  /\ [op EXCEPT !.at = AtStep(s)] \in OpType
         /\ [op EXCEPT !.at = AtStep(s)].at = [step |-> s, phase |-> "prepare"]
         /\ [op EXCEPT !.at = AtStep(s)].req = op.req
         /\ [op EXCEPT !.at = AtStep(s)].done = op.done
         /\ [op EXCEPT !.at = AtStep(s)].got = op.got
         /\ [op EXCEPT !.at = AtStep(s)].ok = op.ok
  BY DEF OpType, AtStep, Phases

\* The same of the action that goes to a step.
LEMMA Moved ==
  ASSUME op \in OpType, NEW s \in Steps, Goto(s)
  PROVE  /\ op' \in OpType /\ op'.at.step = s /\ op'.at.phase = "prepare"
         /\ op'.req = op.req /\ op'.done = op.done /\ op'.got = op.got /\ op'.ok = op.ok
  BY OpMoves DEF Goto

\* An operation that returns keeps its request and its progress.
LEMMA Returned ==
  ASSUME op \in OpType, NEW b \in BOOLEAN, Return(b)
  PROVE  /\ op' \in OpType /\ op'.at.step = "return" /\ op'.at.phase = "prepare"
         /\ op'.req = op.req /\ op'.done = op.done /\ op'.got = op.got /\ op'.ok = b
  BY DEF OpType, Return, AtStep, Steps, Phases

\* An operation whose thread is aborted keeps its request and its progress.
LEMMA Aborted ==
  ASSUME op \in OpType, CallerAborted
  PROVE  /\ op' \in OpType /\ op'.at.step = "aborted" /\ op'.at.phase = "prepare"
         /\ op'.req = op.req /\ op'.done = op.done /\ op'.ok = FALSE
         /\ op.req \in Requests /\ UNCHANGED <<mem, chip, wire, done, rx, setup, past>>
  <1>1. op' \in OpType /\ op'.at.step = "aborted" /\ op'.at.phase = "prepare"
        /\ op'.req = op.req /\ op'.done = op.done /\ op'.ok = FALSE
    BY DEF OpType, CallerAborted, AtStep, Steps, Phases
  <1>2. op.req \in Requests
    BY DEF OpType, CallerAborted, HoldsMutex, NoRequest
  <1>3. QED
    BY <1>1, <1>2 DEF CallerAborted

\* A phase of a transfer changes nothing else of the operation.
LEMMA Phased ==
  ASSUME op \in OpType, NEW p \in Phases, op' = [op EXCEPT !.at.phase = p]
  PROVE  /\ op' \in OpType /\ op'.at.step = op.at.step /\ op'.at.phase = p
         /\ op'.req = op.req /\ op'.done = op.done /\ op'.got = op.got /\ op'.ok = op.ok
  BY DEF OpType

\* Where the script of an operation begins.
LEMMA FirstStep ==
  ASSUME NEW r \in Requests
  PROVE  /\ First(r) \in Steps
         /\ First(r) = IF r.kind = "setup" THEN "probe"
                       ELSE IF r.kind = "read" THEN "fetch" ELSE "enable"
  BY DEF First, Steps

\* When a part is over the operation has grown by it, and goes on unless nothing is left.
LEMMA Advanced ==
  ASSUME op \in OpType, InService, op.req.kind \in {"write", "read", "erase"},
         NEW g \in Seq(BOOLEAN), Advance(g)
  PROVE  /\ op' \in OpType /\ op'.at.phase = "prepare"
         /\ op'.at.step = IF op.done + Chunk < op.req.len THEN First(op.req) ELSE "return"
         /\ op'.req = op.req /\ op'.done = op.done + Chunk /\ op'.got = g /\ op'.ok = op.ok
  <1> DEFINE n == op.done + Chunk
             s == IF Left > Chunk THEN First(op.req) ELSE "return"
  <1>1. n \in Nat /\ (Left > Chunk <=> op.done + Chunk < op.req.len)
    BY ChunkFacts, OpFields
  <1>2. s \in Steps
    BY FirstStep DEF InService, Steps
  <1>3. op' = [op EXCEPT !.done = n, !.got = g, !.at = AtStep(s)]
    BY DEF Advance
  <1> HIDE DEF n, s
  <1>4. /\ op' \in OpType /\ op'.at = [step |-> s, phase |-> "prepare"]
        /\ op'.req = op.req /\ op'.done = n /\ op'.got = g /\ op'.ok = op.ok
    BY <1>1, <1>2, <1>3 DEF OpType, AtStep, Phases
  <1>5. QED
    BY <1>1, <1>4 DEF n, s

\* What the chip takes from a command.
LEMMA Executed ==
  ASSUME TypeInv, NEW cmd \in Commands, Execute(cmd) \/ UNCHANGED chip
  PROVE  /\ chip' \in [wel : BOOLEAN, busy : Works \cup {None}]
         /\ chip'.busy = chip.busy
               \/ (chip.busy = None /\ chip.wel /\ cmd \in Works /\ chip'.busy = cmd /\ chip'.wel)
         /\ cmd.c \in {"status", "id", "read"} => chip' = chip
         /\ cmd.c \in {"program", "erase"} => chip'.wel = chip.wel
  <1>1. chip \in [wel : BOOLEAN, busy : Works \cup {None}]
    BY DEF TypeInv
  <1>2. cmd.c \in {"program", "erase"} <=> cmd \in Works
    BY DEF Works
  <1>3. CASE UNCHANGED chip
    BY <1>1, <1>3
  <1>4. CASE Execute(cmd)
    <2>1. CASE chip.busy # None
      BY <1>1, <1>4, <2>1 DEF Execute
    <2>2. CASE chip.busy = None /\ cmd.c = "wren"
      <3>1. chip' = [chip EXCEPT !.wel = TRUE]
        BY <1>4, <2>2 DEF Execute
      <3>2. QED
        BY <1>1, <2>2, <3>1
    <2>3. CASE chip.busy = None /\ cmd.c = "wrdi"
      <3>1. chip' = [chip EXCEPT !.wel = FALSE]
        BY <1>4, <2>3 DEF Execute
      <3>2. QED
        BY <1>1, <2>3, <3>1
    <2>4. CASE chip.busy = None /\ chip.wel /\ cmd.c \in {"program", "erase"}
      <3>1. chip' = [chip EXCEPT !.busy = cmd]
        BY <1>4, <2>4 DEF Execute
      <3>2. QED
        BY <1>1, <1>2, <2>4, <3>1
    <2>5. CASE /\ chip.busy = None /\ cmd.c \notin {"wren", "wrdi"}
               /\ ~(chip.wel /\ cmd.c \in {"program", "erase"})
      <3>1. chip' = chip
        BY <1>4, <2>5 DEF Execute
      <3>2. QED
        BY <1>1, <3>1
    <2>6. QED
      BY <2>1, <2>2, <2>3, <2>4, <2>5
  <1>5. QED
    BY <1>3, <1>4

\* What a transfer receives: the latch with the status, the content with a read.
LEMMA ReceivedFacts ==
  ASSUME TypeInv, NEW cmd \in Commands, Reach(cmd) \subseteq Cells
  PROVE  /\ Received(cmd) \in [wip : BOOLEAN, wel : BOOLEAN, data : Seq(BOOLEAN)]
         /\ cmd.c = "status" => Received(cmd).wel = chip.wel
         /\ cmd.c = "read" /\ chip.busy = None =>
               Received(cmd).data = [i \in 1 .. cmd.len |-> mem[cmd.addr + i - 1]]
  <1> DEFINE d == IF cmd.c = "read" /\ chip.busy = None
                  THEN [i \in 1 .. cmd.len |-> mem[cmd.addr + i - 1]] ELSE <<>>
  <1>1. d \in Seq(BOOLEAN)
    <2>1. CASE cmd.c = "read"
      <3>1. cmd.addr \in Nat /\ cmd.len \in Nat
        BY <2>1 DEF Commands
      <3>2. \A i \in 1 .. cmd.len : cmd.addr + i - 1 \in Cells
        <4>1. Reach(cmd) = cmd.addr .. cmd.addr + cmd.len - 1
          BY <2>1 DEF Reach
        <4>2. QED
          BY <3>1, <4>1
      <3>3. mem \in [Cells -> BOOLEAN]
        BY DEF TypeInv
      <3>4. [i \in 1 .. cmd.len |-> mem[cmd.addr + i - 1]] \in Seq(BOOLEAN)
        BY <3>1, <3>2, <3>3
      <3>5. CASE chip.busy = None
        BY <2>1, <3>4, <3>5, Zenon
      <3>6. CASE chip.busy # None
        BY <3>6
      <3>7. QED
        BY <3>5, <3>6
    <2>2. CASE cmd.c # "read"
      BY <2>2
    <2>3. QED
      BY <2>1, <2>2
  <1>2. Received(cmd) = [wip |-> cmd.c = "status" /\ chip.busy # None,
                         wel |-> cmd.c = "status" /\ chip.wel, data |-> d]
    BY DEF Received
  <1>3. chip.wel \in BOOLEAN
    BY DEF TypeInv
  <1>4. cmd.c = "read" /\ chip.busy = None => d = [i \in 1 .. cmd.len |-> mem[cmd.addr + i - 1]]
    OBVIOUS
  <1> HIDE DEF d
  <1>5. QED
    BY <1>1, <1>2, <1>3, <1>4

\* The part in service is a matter of the request and the progress.
LEMMA KeptTerms ==
  ASSUME op'.req = op.req, op'.done = op.done
  PROVE  /\ InService' <=> InService
         /\ Chunk' = Chunk /\ Here' = Here /\ Work' = Work /\ Left' = Left
  BY DEF InService, Chunk, Here, Work, Left, PageChunk, AtMost

\* The values of a wire and a buffer at rest.
LEMMA RestValues ==
  /\ NoWire \in WireType /\ NoWire.cmd = None
  /\ ~NoWire.waited
  /\ Blank \in [wip : BOOLEAN, wel : BOOLEAN, data : Seq(BOOLEAN)]
  /\ <<>> \in Seq(BOOLEAN)
  BY DEF NoWire, Blank, WireType

\* The wire is at rest, or has a command.
LEMMA WireOps ==
  ASSUME NEW w \in WireType
  PROVE  /\ w.waited \in BOOLEAN
         /\ w # NoWire => w.cmd \in Commands /\ w.cmd # None
         /\ w.cmd # None <=> w # NoWire
         /\ [w EXCEPT !.waited = FALSE] \in WireType
         /\ [w EXCEPT !.waited = FALSE].cmd = w.cmd
         /\ (w = NoWire => [w EXCEPT !.waited = FALSE] = NoWire)
  <1>1. w # NoWire => w.cmd \in Commands /\ w.cmd # None
    BY NoCommandAssumption DEF WireType
  <1>2. NoWire.cmd = None
    BY DEF NoWire
  <1>3. CASE w = NoWire
    <2>1. NoWire.waited = FALSE /\ [NoWire EXCEPT !.waited = FALSE] = NoWire
      <3>1. NoWire \in [cmd : {None}, waited : {FALSE}]
        BY DEF NoWire
      <3>2. QED
        BY <3>1
    <2>2. NoWire \in WireType
      BY DEF WireType
    <2>3. QED
      BY <1>2, <1>3, <2>1, <2>2
  <1>4. CASE w # NoWire
    BY <1>1, <1>2, <1>4 DEF WireType
  <1>5. QED
    BY <1>3, <1>4

\* What a step that is not a transfer changes of the operation.
LEMMA Scripted ==
  ASSUME TypeInv, Script, op'.req = op.req, op'.done = op.done, op'.ok = op.ok,
         op'.at.step = op.at.step, Transferring
  PROVE  Script'
  BY KeptTerms DEF Script, Stepping, Transferring

\* Every step keeps the types and the script.
LEMMA TypeStep ==
  ASSUME TypeInv, Script, Contained, [Next]_flashVars
  PROVE  TypeInv' /\ Script'
  <1>0. /\ op \in OpType /\ chip \in [wel : BOOLEAN, busy : Works \cup {None}]
        /\ wire \in WireType
        /\ done \in [sem : {0, 1}, result : {"success", "failed"}]
        /\ rx.data \in Seq(BOOLEAN)
    BY DEF TypeInv
  <1>1. ASSUME op' \in OpType, done' \in [sem : {0, 1}, result : {"success", "failed"}],
               wire' \in WireType,
               UNCHANGED <<mem, chip, past>>, rx' \in {rx, Blank}, setup' \in BOOLEAN
        PROVE  TypeInv'
    BY <1>1, RestValues DEF TypeInv
  <1>2. ASSUME Consumed, op' \in OpType, setup' \in BOOLEAN
        PROVE  TypeInv'
    <2>1. done' \in [sem : {0, 1}, result : {"success", "failed"}]
      BY <1>0, <1>2 DEF Consumed
    <2>2. UNCHANGED <<mem, chip, wire, rx, past>>
      BY <1>2 DEF Consumed
    <2>3. QED
      BY <1>0, <1>1, <1>2, <2>1, <2>2
  <1>3. setup \in BOOLEAN
    BY DEF TypeInv
  <1>4. ASSUME op'.req \in Requests, op'.at.step = "return", op'.at.phase = "prepare"
        PROVE  Script'
    BY <1>4 DEF Script, Stepping, Transferring
  <1>5. Transferring => op.req \in Requests
    <2>1. op.at.step \in Steps
      BY <1>0, OpFields
    <2>2. QED
      BY <2>1 DEF Transferring, Script, Stepping, InService, Steps
  <1>6. ASSUME NEW r \in Requests, Begin(r)
        PROVE  TypeInv' /\ Script'
    <2> DEFINE accepted == r.kind = "setup" \/ (Valid(r) /\ (setup \/ r.len = 0))
               s == IF accepted /\ (r.kind = "setup" \/ r.len > 0) THEN First(r) ELSE "return"
    <2>1. /\ op' = [req |-> r, done |-> 0, got |-> <<>>, ok |-> accepted, at |-> AtStep(s)]
          /\ UNCHANGED <<mem, chip, wire, done, rx, setup>>
          /\ \E q \in BOOLEAN : past' = [mem |-> mem, quiet |-> q,
                  touched |-> IF q THEN RangeOf(r) ELSE past.touched \cup RangeOf(r)]
      BY <1>6 DEF Begin
    <2>2. s \in Steps /\ accepted \in BOOLEAN /\ (s # "return" => accepted /\ s = First(r))
      BY FirstStep DEF Steps
    <2>3. s # "return" => r.kind = "setup" \/ (Valid(r) /\ r.len > 0)
      OBVIOUS
    <2>4. r.kind \in Kinds /\ r.len \in Nat
      BY RequestFields
    <2> HIDE DEF s, accepted
    <2>5. /\ op' \in OpType /\ op'.at.step = s /\ op'.at.phase = "prepare" /\ op'.req = r
          /\ op'.done = 0 /\ op'.ok = accepted
      BY <2>1, <2>2, RestValues DEF OpType, AtStep, Phases
    <2>6. past' \in [mem : [Cells -> BOOLEAN], quiet : BOOLEAN, touched : SUBSET Cells]
      <3>1. RangeOf(r) \subseteq Cells /\ mem \in [Cells -> BOOLEAN] /\ past.touched \subseteq Cells
        BY DEF RangeOf, TypeInv
      <3>2. QED
        BY <2>1, <3>1
    <2>7. TypeInv'
      BY <2>1, <2>5, <2>6 DEF TypeInv
    <2>8. CASE s = "return"
      BY <1>4, <2>5, <2>7, <2>8
    <2>9. CASE s # "return"
      <3>1. s = IF r.kind = "setup" THEN "probe" ELSE IF r.kind = "read" THEN "fetch" ELSE "enable"
        BY <2>2, <2>9, FirstStep
      <3>2. r.kind # "setup" => InService'
        <4>1. 0 % SectorSize = 0
          BY Sizes, Division
        <4>2. QED
          BY <2>3, <2>4, <2>5, <2>9, <4>1 DEF InService
      <3>3. Script'
        BY <2>2, <2>4, <2>5, <2>9, <3>1, <3>2 DEF Script, Stepping, Transferring, Kinds
      <3>4. QED
        BY <2>7, <3>3
    <2>10. QED
      BY <2>8, <2>9
  <1>7. ASSUME End
        PROVE  TypeInv' /\ Script'
    <2>1. op' \in OpType
      BY <1>7, RestValues DEF End, OpType, AtStep, Steps, Phases
    <2>2. op'.req = NoRequest /\ op'.at.step = "idle" /\ op'.at.phase = "prepare"
      BY <1>7 DEF End, AtStep
    <2>3. QED
      BY <1>0, <1>1, <1>3, <1>7, <2>1, <2>2 DEF End, Script, Stepping, Transferring
  <1>8. ASSUME Prepare
        PROVE  TypeInv' /\ Script'
    <2>1. "start" \in Phases /\ op' = [op EXCEPT !.at.phase = "start"] /\ Transferring
      BY <1>8 DEF Prepare, Phases
    <2>2. /\ op' \in OpType /\ op'.at.step = op.at.step /\ op'.req = op.req
          /\ op'.done = op.done /\ op'.ok = op.ok
      BY <1>0, <2>1, Phased
    <2>3. done' \in [sem : {0, 1}, result : {"success", "failed"}]
          /\ wire' \in WireType
      BY <1>0, <1>8, WireOps DEF Prepare
    <2>4. QED
      BY <1>1, <1>3, <1>8, <2>1, <2>2, <2>3, Scripted DEF Prepare
  <1>9. op.at.phase # "prepare" => Transferring
    BY DEF Script
  <1>10. ASSUME Start
         PROVE  TypeInv' /\ Script'
    <2>1. "wait" \in Phases /\ op' = [op EXCEPT !.at.phase = "wait"] /\ Transferring
      BY <1>9, <1>10 DEF Start, Phases
    <2>2. /\ op' \in OpType /\ op'.at.step = op.at.step /\ op'.req = op.req
          /\ op'.done = op.done /\ op'.ok = op.ok
      BY <1>0, <2>1, Phased
    <2>3. wire' \in WireType
      BY <1>0, <1>10, <2>1, CommandFacts DEF Start, WireType
    <2>4. QED
      BY <1>0, <1>1, <1>3, <1>10, <2>1, <2>2, <2>3, Scripted DEF Start
  <1>11. ASSUME StartFails \/ WaitTimeout
         PROVE  TypeInv' /\ Script'
    <2>1. Transferring /\ Return(FALSE) /\ UNCHANGED <<mem, chip, done, rx, setup, past>>
      BY <1>9, <1>11 DEF StartFails, WaitTimeout
    <2>2. /\ op' \in OpType /\ op'.at.step = "return" /\ op'.at.phase = "prepare"
          /\ op'.req = op.req
      BY <1>0, <2>1, Returned
    <2>3. wire' \in WireType
      BY <1>0, <1>11, WireOps DEF StartFails, WaitTimeout
    <2>4. QED
      BY <1>0, <1>1, <1>3, <1>4, <1>5, <2>1, <2>2, <2>3
  <1>12. ASSUME NEW b \in BOOLEAN, Return(b), Taken, Consumed, setup' \in BOOLEAN
         PROVE  TypeInv' /\ Script'
    <2>1. /\ op' \in OpType /\ op'.at.step = "return" /\ op'.at.phase = "prepare"
          /\ op'.req = op.req
      BY <1>0, <1>12, Returned
    <2>2. op.req \in Requests
      BY <1>5, <1>9, <1>12 DEF Taken
    <2>3. QED
      BY <1>2, <1>4, <1>12, <2>1, <2>2
  <1>13. ASSUME NEW s \in Steps \ {"idle", "return", "aborted"}, Goto(s), Taken, Consumed,
                setup' = setup,
                /\ op'.req = op.req /\ op'.done = op.done /\ op'.at.step = s => Stepping'
         PROVE  TypeInv' /\ Script'
    <2>1. /\ op' \in OpType /\ op'.at.step = s /\ op'.at.phase = "prepare"
          /\ op'.req = op.req /\ op'.done = op.done /\ op'.ok = op.ok
      BY <1>0, <1>13, Moved
    <2>2. op.ok
      BY <1>9, <1>13 DEF Taken, Script
    <2>3. QED
      BY <1>2, <1>3, <1>13, <2>1, <2>2 DEF Script, Transferring
  <1>14. CASE TransferFails \/ PollTimeout
    BY <1>3, <1>12, <1>14 DEF TransferFails, PollTimeout, Succeeded
  <1>15. CASE PollAgain \/ Polled
    <2>1. \E s \in {"poll", "cleared"} : Goto(s)
      BY <1>15 DEF PollAgain, Polled
    <2>2. Taken /\ Consumed /\ setup' = setup /\ op.at.step = "poll"
      BY <1>15 DEF PollAgain, Polled, Succeeded
    <2>3. ASSUME NEW s \in {"poll", "cleared"}, op'.req = op.req, op'.done = op.done, op'.at.step = s
          PROVE  Stepping'
      BY <2>2, <2>3, KeptTerms DEF Script, Stepping
    <2>4. QED
      BY <1>13, <2>1, <2>2, <2>3 DEF Steps
  <1>16. CASE Enabled
    <2>1. CASE Return(FALSE)
      BY <1>3, <1>12, <1>16, <2>1 DEF Enabled, Succeeded
    <2>2. ASSUME NEW s \in {"enabled", "program", "erase", "disable", "poll"}, Goto(s),
                 \/ op.at.step = "enable" /\ s = "enabled"
                 \/ op.at.step = "enabled" /\ op.req.kind = "write" /\ s = "program"
                 \/ op.at.step = "enabled" /\ op.req.kind = "erase" /\ s = "erase"
                 \/ /\ op.at.step = "enabled" /\ op.req.kind \notin {"write", "erase"}
                    /\ s = "disable"
                 \/ op.at.step \in {"program", "erase"} /\ s = "poll"
          PROVE  TypeInv' /\ Script'
      <3>1. Taken /\ Consumed /\ setup' = setup
        BY <1>16 DEF Enabled, Succeeded
      <3>2. ASSUME op'.req = op.req, op'.done = op.done, op'.at.step = s
            PROVE  Stepping'
        BY <2>2, <3>2, KeptTerms DEF Script, Stepping
      <3>3. QED
        BY <1>13, <2>2, <3>1, <3>2 DEF Steps
    <2>3. QED
      BY <1>16, <2>1, <2>2 DEF Enabled, Succeeded
  <1>17. CASE SetUp
    <2>1. CASE \E b \in BOOLEAN : Return(b)
      <3>1. setup' \in BOOLEAN /\ Taken /\ Consumed
        BY <1>3, <1>17 DEF SetUp, Succeeded
      <3>2. QED
        BY <1>12, <2>1, <3>1
    <2>2. ASSUME NEW s \in {"enable", "disabled"}, Goto(s), setup' = setup,
                 op.at.step \in {"probe", "disable"}
          PROVE  TypeInv' /\ Script'
      <3>1. Taken /\ Consumed
        BY <1>17 DEF SetUp, Succeeded
      <3>2. ASSUME op'.req = op.req, op'.done = op.done, op'.at.step = s
            PROVE  Stepping'
        BY <2>2, <3>2 DEF Script, Stepping
      <3>3. QED
        BY <1>13, <2>2, <3>1, <3>2 DEF Steps
    <2>3. QED
      BY <1>17, <2>1, <2>2 DEF SetUp, Succeeded
  <1>18. ASSUME NEW g \in Seq(BOOLEAN), Advance(g), Taken, Consumed, setup' = setup, InService,
                op.req.kind \in {"write", "read", "erase"}
         PROVE  TypeInv' /\ Script'
    <2>1. /\ op' \in OpType /\ op'.at.phase = "prepare"
          /\ op'.at.step = IF op.done + Chunk < op.req.len THEN First(op.req) ELSE "return"
          /\ op'.req = op.req /\ op'.done = op.done + Chunk /\ op'.ok = op.ok
      BY <1>0, <1>18, Advanced
    <2>2. op.ok /\ op.req \in Requests
      BY <1>9, <1>18 DEF Taken, Script, InService
    <2>3. TypeInv'
      BY <1>2, <1>3, <1>18, <2>1
    <2>4. CASE op.done + Chunk < op.req.len
      <3>1. InService'
        <4>1. op.req.kind = "erase" => (op.done + Chunk) % SectorSize = 0
          BY <1>0, <1>18, ChunkFacts
        <4>2. QED
          BY <1>18, <2>1, <2>4, <4>1 DEF InService
      <3>2. op'.at.step = IF op.req.kind = "read" THEN "fetch" ELSE "enable"
        BY <1>18, <2>1, <2>2, <2>4, FirstStep
      <3>3. QED
        BY <1>18, <2>1, <2>2, <2>3, <3>1, <3>2 DEF Script, Stepping, Transferring
    <2>5. CASE ~(op.done + Chunk < op.req.len)
      BY <1>4, <2>1, <2>2, <2>3, <2>5
    <2>6. QED
      BY <2>4, <2>5
  <1>19. CASE Cleared
    <2>1. CASE Return(FALSE)
      BY <1>3, <1>12, <1>19, <2>1 DEF Cleared, Succeeded
    <2>2. CASE Advance(<<>>)
      <3>1. /\ Taken /\ Consumed /\ setup' = setup /\ InService
            /\ op.req.kind \in {"write", "read", "erase"}
        BY <1>19 DEF Cleared, Succeeded, Script, Stepping
      <3>2. QED
        BY <1>18, <2>2, <3>1, RestValues
    <2>3. QED
      BY <1>19, <2>1, <2>2 DEF Cleared
  <1>20. CASE Fetched
    <2>1. /\ Taken /\ Consumed /\ setup' = setup /\ InService /\ Advance(op.got \o rx.data)
          /\ op.req.kind \in {"write", "read", "erase"}
      BY <1>20 DEF Fetched, Succeeded, Script, Stepping
    <2>2. op.got \o rx.data \in Seq(BOOLEAN)
      BY <1>0, OpFields
    <2>3. QED
      BY <1>18, <2>1, <2>2
  <1>21. CASE TransferDone
    <2>1. UNCHANGED <<mem, op, setup, past>> /\ wire' = NoWire
          /\ done' \in [sem : {0, 1}, result : {"success", "failed"}]
      BY <1>21 DEF TransferDone
    <2>2. Script'
      BY <2>1 DEF Script, Stepping, Transferring, InService
    <2>3. CASE UNCHANGED <<chip, rx>>
      BY <2>1, <2>2, <2>3, RestValues DEF TypeInv
    <2>4. CASE /\ Execute(wire.cmd) \/ UNCHANGED chip
               /\ rx' = IF wire.waited THEN Received(wire.cmd) ELSE rx
      <3>1. wire.cmd \in Commands /\ Reach(wire.cmd) \subseteq Cells
        <4>1. wire.cmd # None
          BY <1>0, <1>21, WireOps DEF TransferDone
        <4>2. past.touched \subseteq Cells
          BY DEF TypeInv
        <4>3. QED
          BY <1>0, <4>1, <4>2, WireOps DEF Contained
      <3>2. chip' \in [wel : BOOLEAN, busy : Works \cup {None}]
        BY <2>4, <3>1, Executed
      <3>3. rx' \in [wip : BOOLEAN, wel : BOOLEAN, data : Seq(BOOLEAN)]
        BY <2>4, <3>1, ReceivedFacts DEF TypeInv
      <3>4. QED
        BY <2>1, <2>2, <3>2, <3>3, RestValues DEF TypeInv
    <2>5. QED
      BY <1>21, <2>3, <2>4 DEF TransferDone
  <1>22. CASE ChipDone
    <2>1. /\ UNCHANGED <<wire, done, rx, op, setup, past>>
          /\ chip' \in [wel : BOOLEAN, busy : Works \cup {None}]
      BY <1>22 DEF ChipDone
    <2>2. mem' \in [Cells -> BOOLEAN]
      BY <1>22 DEF ChipDone, After, TypeInv
    <2>3. QED
      BY <2>1, <2>2 DEF TypeInv, Script, Stepping, Transferring, InService
  <1>23. CASE UNCHANGED flashVars
    <2>1. TypeInv'
      BY <1>23 DEF flashVars, TypeInv
    <2>2. Script'
      BY <1>23 DEF flashVars, Script, Stepping, Transferring, InService
    <2>3. QED
      BY <2>1, <2>2
  <1>24. CASE CallerAborted
    <2>1. TypeInv'
      BY <1>0, <1>1, <1>3, <1>24, Aborted
    <2>2. Script'
      BY <1>0, <1>24, Aborted DEF Script, Stepping, Transferring
    <2>3. QED
      BY <2>1, <2>2
  <1>25. QED
    BY <1>6, <1>7, <1>8, <1>10, <1>11, <1>14, <1>15, <1>16, <1>17, <1>19, <1>20, <1>21,
       <1>22, <1>23, <1>24 DEF Next, DriverStep

\* No step makes an operation do more than it was asked for.
LEMMA BoundedStep ==
  ASSUME TypeInv, Script, Bounded, [Next]_flashVars
  PROVE  Bounded'
  <1>0. op \in OpType
    BY DEF TypeInv
  <1>1. ASSUME op'.req = op.req, op'.done = op.done
        PROVE  Bounded'
    BY <1>1 DEF Bounded
  <1>2. ASSUME NEW r \in Requests, Begin(r)
        PROVE  Bounded'
    BY <1>2, RequestFields DEF Begin, Bounded
  <1>3. CASE End
    BY <1>3 DEF End, Bounded, NoRequest
  <1>4. CASE Prepare \/ Start
    BY <1>0, <1>1, <1>4 DEF Prepare, Start, OpType
  <1>5. ASSUME NEW x, Goto(x) \/ Return(x)
        PROVE  Bounded'
    BY <1>0, <1>1, <1>5 DEF Goto, Return, OpType
  <1>6. ASSUME NEW g, Advance(g), op.at.step \in {"cleared", "fetch"}
        PROVE  Bounded'
    <2>1. InService /\ op.req.kind \in {"write", "read", "erase"}
      BY <1>6 DEF Script, Stepping
    <2>2. op.done + Chunk <= op.req.len
      BY <1>0, <2>1, ChunkFacts
    <2>3. op'.req = op.req /\ op'.done = op.done + Chunk
      BY <1>0, <1>6 DEF Advance, OpType
    <2>4. QED
      BY <2>2, <2>3 DEF Bounded
  <1>7. CASE \/ StartFails \/ WaitTimeout \/ TransferFails \/ Enabled \/ PollAgain
             \/ PollTimeout \/ Polled \/ SetUp
    <2>1. \E x : Goto(x) \/ Return(x)
      BY <1>7 DEF StartFails, WaitTimeout, TransferFails, Enabled, PollAgain, PollTimeout, Polled,
         SetUp
    <2>2. QED
      BY <1>5, <2>1
  <1>8. CASE Cleared \/ Fetched
    BY <1>5, <1>6, <1>8 DEF Cleared, Fetched, Succeeded
  <1>9. CASE TransferDone \/ ChipDone \/ UNCHANGED flashVars
    BY <1>1, <1>9 DEF TransferDone, ChipDone, flashVars
  <1>10. CASE CallerAborted
    BY <1>0, <1>1, <1>10, Aborted
  <1>11. QED
    BY <1>2, <1>3, <1>4, <1>7, <1>8, <1>9, <1>10 DEF Next, DriverStep

-----------------------------------------------------------------------------
(* Contained: what is under way stays within what was asked for. *)

\* Every step keeps the commands within the cells that were asked for: a page program is cut at
\* the end of its page, so that it cannot wrap around, and an erase is of whole sectors.
LEMMA ContainedStep ==
  ASSUME TypeInv, Script, Contained, [Next]_flashVars
  PROVE  Contained'
  <1>0. /\ op \in OpType /\ wire \in WireType /\ NoWire.cmd = None
        /\ op.at.phase # "prepare" => Transferring
    BY RestValues DEF TypeInv, Script
  <1>1. ASSUME UNCHANGED <<chip, past>>, wire'.cmd = wire.cmd,
               Transferring' => Transferring /\ op'.req = op.req
        PROVE  Contained'
    BY <1>1 DEF Contained, RangeOf, Reach, Sector
  <1>2. ASSUME NEW r \in Requests, Begin(r)
        PROVE  Contained'
    <2> DEFINE quiet == wire = NoWire /\ chip.busy = None
    <2>1. /\ past'.touched = IF quiet THEN RangeOf(r) ELSE past.touched \cup RangeOf(r)
          /\ op'.req = r /\ UNCHANGED <<chip, wire>>
      BY <1>2 DEF Begin
    <2>2. CASE quiet
      BY <1>0, <2>1, <2>2 DEF Contained, RangeOf
    <2>3. CASE ~quiet
      BY <2>1, <2>3 DEF Contained, RangeOf, Reach, Sector
    <2>4. QED
      BY <2>2, <2>3
  <1>3. CASE End
    BY <1>1, <1>3 DEF End, AtStep, Transferring
  <1>4. CASE Prepare \/ WaitTimeout \/ StartFails
    <2>1. UNCHANGED <<chip, past>> /\ wire'.cmd = wire.cmd /\ Transferring
      BY <1>0, <1>4, WireOps DEF Prepare, WaitTimeout, StartFails
    <2>2. op'.req = op.req
      BY <1>0, <1>4 DEF Prepare, WaitTimeout, StartFails, Return, OpType
    <2>3. QED
      BY <1>1, <2>1, <2>2
  <1>5. CASE Start
    <2>1. /\ wire'.cmd = Command /\ UNCHANGED <<chip, past>> /\ Transferring
      BY <1>0, <1>5 DEF Start
    <2>2. op'.req = op.req
      BY <1>0, <1>5 DEF Start, OpType
    <2>3. Reach(Command) \subseteq RangeOf(op.req)
      BY <1>0, <2>1, CommandFacts
    <2>4. QED
      BY <2>1, <2>2, <2>3 DEF Contained, RangeOf, Reach, Sector
  <1>6. CASE \/ TransferFails \/ Enabled \/ PollAgain \/ PollTimeout \/ Polled \/ Cleared
             \/ Fetched \/ SetUp
    <2>1. UNCHANGED <<chip, past>> /\ wire'.cmd = wire.cmd /\ Transferring
      BY <1>0, <1>6 DEF TransferFails, Enabled, PollAgain, PollTimeout, Polled, Cleared, Fetched,
         SetUp, Consumed, Succeeded, Taken
    <2>2. \/ \E x : Goto(x) \/ Return(x) \/ Advance(x)
      BY <1>6 DEF TransferFails, Enabled, PollAgain, PollTimeout, Polled, Cleared, Fetched, SetUp
    <2>3. op'.req = op.req
      BY <1>0, <2>2 DEF Goto, Return, Advance, OpType
    <2>4. QED
      BY <1>1, <2>1, <2>2, <2>3
  <1>7. CASE TransferDone
    <2>1. UNCHANGED <<op, past>> /\ wire'.cmd = None /\ wire # NoWire
      BY <1>0, <1>7 DEF TransferDone
    <2>2. wire.cmd \in Commands /\ Reach(wire.cmd) \subseteq past.touched
      BY <1>0, <2>1, WireOps DEF Contained
    <2>3. Execute(wire.cmd) \/ UNCHANGED chip
      BY <1>7 DEF TransferDone
    <2>4. chip'.busy = chip.busy \/ chip'.busy = wire.cmd
      BY <2>2, <2>3, Executed
    <2>5. QED
      BY <2>1, <2>2, <2>4 DEF Contained, RangeOf, Reach, Sector, Transferring
  <1>8. CASE ChipDone
    BY <1>8 DEF ChipDone, Contained, RangeOf, Reach, Sector, Transferring
  <1>9. CASE UNCHANGED flashVars
    BY <1>1, <1>9 DEF flashVars, Transferring
  <1>10. CASE CallerAborted
    BY <1>0, <1>1, <1>10, Aborted DEF Transferring
  <1>11. QED
    BY <1>2, <1>3, <1>4, <1>5, <1>6, <1>7, <1>8, <1>9, <1>10 DEF Next, DriverStep

\* The content changes when the chip ends a command, within the reach of that command.
LEMMA TouchStep ==
  ASSUME TypeInv, Contained, [Next]_flashVars
  PROVE  \A x \in Cells : mem'[x] # mem[x] => x \in past.touched
  <1>1. CASE UNCHANGED mem
    BY <1>1
  <1>2. CASE ChipDone
    <2>1. chip.busy \in Works /\ Reach(chip.busy) \subseteq past.touched
      BY <1>2 DEF ChipDone, Contained, TypeInv
    <2>2. chip.busy.c \in {"program", "erase"}
      BY <2>1 DEF Works
    <2>3. ASSUME NEW x \in Cells, x \notin Reach(chip.busy)
          PROVE  mem'[x] = mem[x]
      <3>1. mem' = After(chip.busy) /\ mem \in [Cells -> BOOLEAN]
        BY <1>2 DEF ChipDone, TypeInv
      <3>2. CASE chip.busy.c = "program"
        <4>1. x \notin Programmed(chip.busy)
          BY <2>3, <3>2 DEF Reach, Programmed
        <4>2. mem'[x] = (mem[x] \/ x \in Programmed(chip.busy))
          BY <3>1, <3>2 DEF After
        <4>3. mem[x] \in BOOLEAN
          BY <3>1
        <4>4. QED
          BY <4>1, <4>2, <4>3
      <3>3. CASE chip.busy.c = "erase"
        <4>1. x \notin Sector(chip.busy.addr)
          BY <2>3, <3>3 DEF Reach
        <4>2. mem'[x] = (mem[x] /\ x \notin Sector(chip.busy.addr))
          BY <3>1, <3>3 DEF After
        <4>3. mem[x] \in BOOLEAN
          BY <3>1
        <4>4. QED
          BY <4>1, <4>2, <4>3
      <3>4. QED
        BY <2>2, <3>2, <3>3
    <2>4. QED
      BY <2>1, <2>3
  <1>3. CASE \/ \E r \in Requests : Begin(r)
             \/ End \/ CallerAborted \/ Prepare \/ Start \/ StartFails \/ WaitTimeout
    BY <1>1, <1>3 DEF Begin, End, CallerAborted, Prepare, Start, StartFails, WaitTimeout
  <1>4. CASE \/ TransferFails \/ Enabled \/ PollAgain \/ PollTimeout \/ Polled \/ Cleared
             \/ Fetched \/ SetUp
    BY <1>1, <1>4 DEF TransferFails, Enabled, PollAgain, PollTimeout, Polled, Cleared, Fetched,
       SetUp, Consumed
  <1>5. CASE TransferDone
    BY <1>1, <1>5 DEF TransferDone
  <1>6. CASE UNCHANGED flashVars
    BY <1>1, <1>6 DEF flashVars
  <1>7. QED
    BY <1>2, <1>3, <1>4, <1>5, <1>6 DEF Next, DriverStep

-----------------------------------------------------------------------------
(* Faithful: what is done of the operation is in the chip. *)

\* The command of a part, carried out on what was done before, gives what is to be done after it.
LEMMA WorkDone ==
  ASSUME TypeInv, InService, op.req.kind \in {"write", "erase"}, mem = Progress(op.done)
  PROVE  After(Work) = Progress(op.done + Chunk)
  <1>1. op \in OpType /\ \A x \in Cells : x \in Int /\ past.mem[x] \in BOOLEAN
    <2>1. op \in OpType /\ past.mem \in [Cells -> BOOLEAN]
      BY DEF TypeInv
    <2>2. Cells \subseteq Int
      BY Sizes DEF Cells
    <2>3. QED
      BY <2>1, <2>2
  <1>2. /\ Chunk \in Nat /\ Chunk > 0
        /\ Here = op.req.addr + op.done /\ op.done \in Nat /\ op.req.addr \in Nat
    BY <1>1, ChunkFacts, OpFields
  <1>3. CASE op.req.kind = "write"
    <2>1. Work.c = "program"
      BY <1>3 DEF Work
    <2>2. ASSUME NEW x \in Cells
          PROVE  After(Work)[x] = Progress(op.done + Chunk)[x]
      <3> DEFINE d == op.req.data[x - op.req.addr + 1]
      <3>1. After(Work)[x] = (mem[x] \/ x \in Programmed(Work))
        BY <2>1 DEF After
      <3>2. x \in Programmed(Work) <=> Here <= x /\ x < Here + Chunk /\ d
        BY <1>1, <1>3, WorkCells
      <3>3. mem[x] = (past.mem[x] \/ (op.req.addr <= x /\ x < op.req.addr + op.done /\ d))
        BY <1>3 DEF Progress
      <3>4. Progress(op.done + Chunk)[x] =
              (past.mem[x] \/ (op.req.addr <= x /\ x < op.req.addr + (op.done + Chunk) /\ d))
        BY <1>3 DEF Progress
      <3>5. x \in Int /\ past.mem[x] \in BOOLEAN
        BY <1>1
      <3> HIDE DEF d
      <3>6. (/\ op.req.addr <= x /\ x < op.req.addr + (op.done + Chunk)) <=>
              \/ op.req.addr <= x /\ x < op.req.addr + op.done
              \/ Here <= x /\ x < Here + Chunk
        BY <1>2, <3>5
      <3>7. (op.req.addr <= x /\ x < op.req.addr + (op.done + Chunk) /\ d) <=>
              \/ op.req.addr <= x /\ x < op.req.addr + op.done /\ d
              \/ x \in Programmed(Work)
        BY <3>2, <3>6
      <3>8. QED
        BY <3>1, <3>3, <3>4, <3>5, <3>7, Zenon
    <2>3. QED
      BY <2>2 DEF After, Progress
  <1>4. CASE op.req.kind = "erase"
    <2>1. Work.c = "erase" /\ Work.addr = Here
      BY <1>4 DEF Work
    <2>2. ASSUME NEW x \in Cells
          PROVE  After(Work)[x] = Progress(op.done + Chunk)[x]
      <3>1. After(Work)[x] = (mem[x] /\ x \notin Sector(Here))
        BY <2>1 DEF After
      <3>2. x \in Sector(Here) <=> Here <= x /\ x < Here + Chunk
        BY <1>1, <1>4, WorkCells
      <3>3. mem[x] = (past.mem[x] /\ ~(op.req.addr <= x /\ x < op.req.addr + op.done))
        BY <1>4 DEF Progress
      <3>4. Progress(op.done + Chunk)[x] =
              (past.mem[x] /\ ~(op.req.addr <= x /\ x < op.req.addr + (op.done + Chunk)))
        BY <1>4 DEF Progress
      <3>5. x \in Int /\ past.mem[x] \in BOOLEAN
        BY <1>1
      <3>6. (/\ op.req.addr <= x /\ x < op.req.addr + (op.done + Chunk)) <=>
              \/ op.req.addr <= x /\ x < op.req.addr + op.done
              \/ x \in Sector(Here)
        BY <1>2, <3>2, <3>5
      <3>7. QED
        BY <3>1, <3>3, <3>4, <3>5, <3>6, Zenon
    <2>3. QED
      BY <2>2 DEF After, Progress
  <1>5. QED
    BY <1>3, <1>4

\* Two pieces of the content, one behind the other, are one piece.
LEMMA Joined ==
  ASSUME NEW n \in Nat, NEW k \in Nat, NEW a \in Nat, NEW m,
         NEW g \in Seq(BOOLEAN), NEW d \in Seq(BOOLEAN),
         g = [i \in 1 .. n |-> m[a + i - 1]], d = [i \in 1 .. k |-> m[a + n + i - 1]]
  PROVE  g \o d = [i \in 1 .. n + k |-> m[a + i - 1]]
  <1>1. Len(g) = n /\ Len(d) = k
    <2>1. DOMAIN g = 1 .. n /\ DOMAIN d = 1 .. k
      OBVIOUS
    <2>2. Len(g) \in Nat /\ DOMAIN g = 1 .. Len(g) /\ Len(d) \in Nat /\ DOMAIN d = 1 .. Len(d)
      OBVIOUS
    <2>3. QED
      BY <2>1, <2>2
  <1>2. \A i \in 1 .. n : g[i] = m[a + i - 1]
    OBVIOUS
  <1>3. \A i \in 1 .. k : d[i] = m[a + n + i - 1]
    OBVIOUS
  <1> DEFINE h == g \o d
             f == [i \in 1 .. n + k |-> m[a + i - 1]]
  <1>4. /\ h \in Seq(BOOLEAN) /\ Len(h) = n + k
        /\ \A i \in 1 .. n + k : h[i] = IF i <= n THEN g[i] ELSE d[i - n]
    BY <1>1, ConcatProperties
  <1>5. ASSUME NEW i \in 1 .. n + k
        PROVE  h[i] = f[i]
    <2>1. CASE i <= n
      BY <1>2, <1>4, <2>1
    <2>2. CASE i > n
      <3>1. i - n \in 1 .. k /\ a + n + (i - n) - 1 = a + i - 1
        BY <2>2
      <3>2. h[i] = d[i - n]
        BY <1>4, <2>2
      <3>3. QED
        BY <1>3, <3>1, <3>2
    <2>3. QED
      BY <2>1, <2>2
  <1>6. h = f
    <2>1. h \in Seq(BOOLEAN) /\ DOMAIN h = 1 .. n + k
      BY <1>4
    <2>2. DOMAIN f = 1 .. n + k /\ f = [i \in DOMAIN f |-> f[i]]
      OBVIOUS
    <2>3. h = [i \in DOMAIN h |-> h[i]]
      BY <2>1
    <2> HIDE DEF h, f
    <2>4. QED
      BY <1>5, <2>1, <2>2, <2>3
  <1>7. QED
    BY <1>6

\* The content that is due, and the state of the chip, while an operation stays where it is.
LEMMA SameProgress ==
  ASSUME UNCHANGED <<mem, past>>, op'.req = op.req, op'.done = op.done
  PROVE  /\ Progress(op.done)' = Progress(op.done)
         /\ Progress(op.done + Chunk)' = Progress(op.done + Chunk)
         /\ chip' = chip => (Ready' <=> Ready) /\ (AtWork' <=> AtWork) /\ (Worked' <=> Worked)
         /\ chip'.busy = chip.busy => (Untouched' <=> Untouched)
  <1>1. Chunk' = Chunk /\ Work' = Work
    BY KeptTerms
  <1>2. Progress(op.done)' = Progress(op.done)
    BY DEF Progress
  <1>3. Progress(op.done + Chunk)' = Progress(op.done + Chunk)
    BY <1>1 DEF Progress
  <1>4. QED
    BY <1>1, <1>2, <1>3 DEF Ready, AtWork, Worked, Untouched

\* Which of the states of the chip a step can be in.
LEMMA ChipSteps ==
  ASSUME TypeInv
  PROVE  /\ ChipState => \/ Untouched \/ AtWork \/ Worked
         /\ Ready => Untouched
  BY DEF ChipState, Ready

\* Every step keeps the account of what is in the chip.
LEMMA FaithfulStep ==
  ASSUME TypeInv, Script, Faithful, [Next]_flashVars
  PROVE  Faithful'
  <1>0. /\ op \in OpType /\ wire \in WireType /\ done.sem \in {0, 1}
        /\ op.at.step \in Steps /\ op.at.phase \in Phases
    BY OpFields DEF TypeInv
  <1>1. op.at.phase # "prepare" => Transferring /\ op.ok
    BY DEF Script
  <1>2. ASSUME UNCHANGED <<mem, past>>, op'.req = op.req, op'.done = op.done, op'.got = op.got,
               Read
        PROVE  Read'
    BY <1>2 DEF Read
  <1>3. ASSUME op'.ok = FALSE
        PROVE  Faithful'
    BY <1>3 DEF Faithful, Live
  <1>4. ASSUME NEW r \in Requests, Begin(r)
        PROVE  Faithful'
    <2> DEFINE accepted == r.kind = "setup" \/ (Valid(r) /\ (setup \/ r.len = 0))
               quiet == wire = NoWire /\ chip.busy = None
               s == IF accepted /\ (r.kind = "setup" \/ r.len > 0) THEN First(r) ELSE "return"
    <2>1. /\ op' = [req |-> r, done |-> 0, got |-> <<>>, ok |-> accepted, at |-> AtStep(s)]
          /\ past'.mem = mem /\ past'.quiet = quiet
          /\ UNCHANGED <<mem, chip, wire, done, rx, setup>>
      BY <1>4 DEF Begin
    <2>2. s \in {"probe", "fetch", "enable", "return"}
      BY FirstStep
    <2>3. accepted => s # "return" \/ r.len = 0
      <3>1. r.len \in Nat
        BY RequestFields
      <3>2. First(r) # "return"
        BY FirstStep
      <3>3. QED
        BY <3>1, <3>2
    <2> HIDE DEF accepted, s
    <2>4. /\ op'.req = r /\ op'.done = 0 /\ op'.got = <<>> /\ op'.ok = accepted
          /\ op'.at.step = s /\ op'.at.phase = "prepare"
      BY <2>1 DEF AtStep
    <2>5. SUFFICES ASSUME accepted, quiet
                   PROVE  (WireState /\ ChipState /\ Read /\ Ended)'
      BY <2>1, <2>4 DEF Faithful, Live
    <2>6. WireState'
      BY <2>1, <2>4, <2>5 DEF WireState
    <2>7. Progress(0)' = mem
      <3>1. r.addr \in Nat /\ mem \in [Cells -> BOOLEAN] /\ \A x \in Cells : x \in Int
        BY RequestFields, Sizes DEF TypeInv, Cells
      <3>2. ASSUME NEW x \in Cells
            PROVE  Progress(0)'[x] = mem[x]
        <4>1. ~(r.addr <= x /\ x < r.addr + 0)
          BY <3>1
        <4>2. mem[x] \in BOOLEAN
          BY <3>1
        <4>3. QED
          BY <2>1, <2>4, <4>1, <4>2 DEF Progress
      <3>3. QED
        BY <3>1, <3>2 DEF Progress
    <2>8. Untouched'
      BY <2>1, <2>4, <2>5, <2>7 DEF Untouched
    <2>9. ChipState'
      BY <2>2, <2>4, <2>8 DEF ChipState
    <2>10. Read'
      BY <2>4 DEF Read
    <2>11. Ended'
      BY <2>3, <2>4, <2>5 DEF Ended
    <2>12. QED
      BY <2>6, <2>9, <2>10, <2>11
  <1>5. CASE End \/ StartFails \/ WaitTimeout \/ TransferFails \/ PollTimeout
    <2>1. CASE End
      BY <1>3, <2>1 DEF End
    <2>2. CASE Return(FALSE)
      BY <1>0, <1>3, <2>2, Returned
    <2>3. QED
      BY <1>5, <2>1, <2>2 DEF StartFails, WaitTimeout, TransferFails, PollTimeout
  <1>6. CASE Prepare
    <2>1. /\ op' \in OpType /\ op'.at.step = op.at.step /\ op'.at.phase = "start"
          /\ op'.req = op.req /\ op'.done = op.done /\ op'.got = op.got /\ op'.ok = op.ok
      BY <1>0, <1>6, Phased DEF Prepare, Phases
    <2>2. /\ op.at.phase = "prepare" /\ done'.sem = 0 /\ wire' = [wire EXCEPT !.waited = FALSE]
          /\ UNCHANGED <<mem, chip, past>> /\ Transferring
      BY <1>6 DEF Prepare
    <2>3. SUFFICES ASSUME Live
                   PROVE  (WireState /\ ChipState /\ Read /\ Ended)'
      BY <2>1, <2>2 DEF Faithful, Live
    <2>4. WireState'
      <3>1. wire = NoWire
        BY <2>2, <2>3 DEF Faithful, WireState
      <3>2. wire' = NoWire
        BY <1>0, <2>2, <3>1, WireOps
      <3>3. QED
        BY <2>1, <2>2, <3>2 DEF WireState
    <2>5. ChipState'
      BY <2>1, <2>2, <2>3, SameProgress DEF Faithful, ChipState
    <2>6. Read' /\ Ended'
      BY <1>2, <2>1, <2>2, <2>3 DEF Faithful, Ended
    <2>7. QED
      BY <2>4, <2>5, <2>6
  <1>7. CASE Start
    <2>1. /\ op' \in OpType /\ op'.at.step = op.at.step /\ op'.at.phase = "wait"
          /\ op'.req = op.req /\ op'.done = op.done /\ op'.got = op.got /\ op'.ok = op.ok
      BY <1>0, <1>7, Phased DEF Start, Phases
    <2>2. /\ op.at.phase = "start" /\ wire' = [cmd |-> Command, waited |-> TRUE]
          /\ UNCHANGED <<mem, chip, done, past>>
      BY <1>7 DEF Start
    <2>3. SUFFICES ASSUME Live
                   PROVE  (WireState /\ ChipState /\ Read /\ Ended)'
      BY <2>1, <2>2 DEF Faithful, Live
    <2>4. done.sem = 0
      BY <2>2, <2>3 DEF Faithful, WireState
    <2>5. Command' = Command
      BY <2>1, KeptTerms DEF Command
    <2>6. WireState'
      BY <2>1, <2>2, <2>4, <2>5 DEF WireState
    <2>7. ChipState'
      BY <2>1, <2>2, <2>3, <2>4, SameProgress DEF Faithful, ChipState
    <2>8. Read' /\ Ended'
      BY <1>1, <1>2, <2>1, <2>2, <2>3 DEF Faithful, Ended, Transferring
    <2>9. QED
      BY <2>6, <2>7, <2>8
  <1>8. ASSUME NEW s \in Steps, Goto(s), Taken, Consumed, done.result = "success",
               \/ op.at.step \in {"enable", "probe", "disable"}
                  /\ s \in {"enable", "enabled", "disabled"}
               \/ op.at.step = "enabled" /\ rx.wel /\ s \in {"program", "erase", "disable"}
               \/ op.at.step \in {"program", "erase", "poll"} /\ s \in {"poll", "cleared"}
        PROVE  Faithful'
    <2>1. /\ op' \in OpType /\ op'.at.step = s /\ op'.at.phase = "prepare"
          /\ op'.req = op.req /\ op'.done = op.done /\ op'.got = op.got /\ op'.ok = op.ok
      BY <1>0, <1>8, Moved
    <2>2. /\ op.at.phase = "wait" /\ done.sem = 1 /\ UNCHANGED <<mem, chip, wire, past>>
          /\ done.result = "success"
      BY <1>8 DEF Taken, Consumed
    <2>3. SUFFICES ASSUME Live
                   PROVE  (WireState /\ ChipState /\ Read /\ Ended)'
      BY <1>8, <2>1, <2>2 DEF Faithful, Live
    <2>4. wire = NoWire /\ Arrived
      BY <2>2, <2>3 DEF Faithful, WireState
    <2>5. WireState'
      BY <2>1, <2>2, <2>4 DEF WireState
    <2>6. ChipState'
      <3>1. CASE op.at.step \in {"enable", "probe", "disable"}
        BY <1>8, <2>1, <2>2, <2>3, <3>1, SameProgress DEF Faithful, ChipState
      <3>2. CASE op.at.step = "enabled"
        <4>1. Untouched /\ chip.wel
          BY <1>8, <2>3, <2>4, <3>2 DEF Faithful, ChipState, Arrived
        <4>2. Ready' /\ Untouched'
          BY <2>1, <2>2, <4>1, SameProgress DEF Ready
        <4>3. QED
          BY <1>8, <2>1, <3>2, <4>2 DEF ChipState
      <3>3. CASE op.at.step \in {"program", "erase", "poll"}
        <4>1. Ready \/ AtWork \/ Worked
          BY <2>2, <2>3, <3>3 DEF Faithful, ChipState
        <4>2. (Ready \/ AtWork \/ Worked)'
          BY <2>1, <2>2, <4>1, SameProgress
        <4>3. QED
          BY <1>8, <2>1, <3>3, <4>2 DEF ChipState
      <3>4. QED
        BY <1>8, <3>1, <3>2, <3>3
    <2>7. Read' /\ Ended'
      BY <1>2, <1>8, <2>1, <2>2, <2>3 DEF Faithful, Ended
    <2>8. QED
      BY <2>5, <2>6, <2>7
  <1>9. CASE PollAgain \/ Polled
    <2>1. \E s \in {"poll", "cleared"} : Goto(s)
      BY <1>9 DEF PollAgain, Polled
    <2>2. Taken /\ Consumed /\ done.result = "success" /\ op.at.step = "poll"
      BY <1>9 DEF PollAgain, Polled, Succeeded
    <2>3. QED
      BY <1>8, <2>1, <2>2 DEF Steps
  <1>10. CASE Enabled
    <2>1. Taken /\ Consumed /\ done.result = "success"
      BY <1>10 DEF Enabled, Succeeded
    <2>2. CASE Return(FALSE)
      BY <1>0, <1>3, <2>2, Returned
    <2>3. CASE op.at.step = "enable" /\ Goto("enabled")
      BY <1>8, <2>1, <2>3 DEF Steps
    <2>4. CASE op.at.step = "enabled" /\ rx.wel /\ \E s \in {"program", "erase", "disable"} : Goto(s)
      BY <1>8, <2>1, <2>4 DEF Steps
    <2>5. CASE op.at.step \in {"program", "erase"} /\ Goto("poll")
      BY <1>8, <2>1, <2>5 DEF Steps
    <2>6. QED
      BY <1>10, <2>2, <2>3, <2>4, <2>5 DEF Enabled, Succeeded, IsWriteEnabled
  <1>11. CASE SetUp
    <2>1. Taken /\ Consumed /\ done.result = "success"
      BY <1>11 DEF SetUp, Succeeded
    <2>2. CASE Return(FALSE)
      BY <1>0, <1>3, <2>2, Returned
    <2>3. CASE op.at.step \in {"probe", "disable"} /\ \E s \in {"enable", "disabled"} : Goto(s)
      BY <1>8, <2>1, <2>3 DEF Steps
    <2>4. CASE op.at.step = "disabled" /\ Return(TRUE)
      <3>1. /\ op'.at.step = "return" /\ op'.at.phase = "prepare"
            /\ op'.req = op.req /\ op'.done = op.done /\ op'.got = op.got
        BY <1>0, <2>4, Returned
      <3>2. /\ op.at.phase = "wait" /\ done.sem = 1 /\ UNCHANGED <<mem, chip, wire, past>>
            /\ op.req.kind = "setup" /\ op.ok
        BY <1>1, <2>1, <2>4 DEF Taken, Consumed, Script, Stepping
      <3>3. SUFFICES ASSUME Live
                     PROVE  (WireState /\ ChipState /\ Read /\ Ended)'
        BY <2>4, <3>2 DEF Faithful, Live
      <3>4. WireState'
        BY <3>1, <3>2, <3>3 DEF Faithful, WireState
      <3>5. ChipState'
        BY <2>4, <3>1, <3>2, <3>3, SameProgress DEF Faithful, ChipState
      <3>6. Read' /\ Ended'
        BY <1>2, <3>1, <3>2, <3>3 DEF Faithful, Ended
      <3>7. QED
        BY <3>4, <3>5, <3>6
    <2>5. QED
      BY <1>11, <2>2, <2>3, <2>4 DEF SetUp, Succeeded
  <1>12. CASE Cleared
    <2>1. CASE Return(FALSE)
      BY <1>0, <1>3, <2>1, Returned
    <2>2. CASE Succeeded("cleared") /\ ~ rx.wel /\ Advance(<<>>)
      <3>1. /\ InService /\ op.req.kind \in {"write", "erase"} /\ op.at.phase = "wait"
            /\ done.sem = 1 /\ done.result = "success" /\ op.at.step = "cleared" /\ op.ok
            /\ UNCHANGED <<mem, chip, wire, past>>
        BY <1>1, <1>12, <2>2 DEF Cleared, Consumed, Succeeded, Taken, Script, Stepping
      <3>2. /\ op'.at.phase = "prepare"
            /\ op'.at.step = IF op.done + Chunk < op.req.len THEN First(op.req) ELSE "return"
            /\ op'.req = op.req /\ op'.done = op.done + Chunk
        BY <1>0, <2>2, <3>1, Advanced, RestValues
      <3>3. SUFFICES ASSUME Live
                     PROVE  (WireState /\ ChipState /\ Read /\ Ended)'
        BY <3>1 DEF Faithful, Live
      <3>4. wire = NoWire /\ ~ chip.wel /\ ChipState
        BY <2>2, <3>1, <3>3 DEF Faithful, WireState, Arrived
      <3>5. Worked
        BY <3>1, <3>4 DEF ChipState, Ready, AtWork
      <3>6. Untouched'
        BY <3>1, <3>2, <3>5 DEF Worked, Untouched, Progress
      <3>7. op'.at.step \in {"enable", "return"}
        BY <3>1, <3>2, FirstStep DEF InService
      <3>8. WireState' /\ ChipState'
        BY <3>1, <3>2, <3>4, <3>6, <3>7 DEF WireState, ChipState
      <3>9. Read'
        BY <3>1, <3>2 DEF Read
      <3>10. Ended'
        <4>1. op.done + Chunk <= op.req.len /\ op.done + Chunk \in Nat /\ op.req.len \in Nat
          <5>1. op.req.kind \in {"write", "read", "erase"} /\ InService
            BY <3>1
          <5>2. QED
            BY <1>0, <5>1, ChunkFacts, OpFields
        <4>2. First(op.req) = "enable"
          BY <3>1, FirstStep DEF InService
        <4>3. QED
          BY <3>2, <4>1, <4>2 DEF Ended
      <3>11. QED
        BY <3>8, <3>9, <3>10
    <2>3. QED
      BY <1>12, <2>1, <2>2 DEF Cleared
  <1>13. CASE Fetched
    <2>1. /\ InService /\ op.req.kind = "read" /\ op.at.phase = "wait"
          /\ done.sem = 1 /\ done.result = "success" /\ op.at.step = "fetch" /\ op.ok
          /\ Advance(op.got \o rx.data) /\ UNCHANGED <<mem, chip, wire, past>>
      BY <1>1, <1>13 DEF Fetched, Consumed, Succeeded, Taken, Script, Stepping
    <2>2. op.got \in Seq(BOOLEAN) /\ rx.data \in Seq(BOOLEAN)
      BY <1>0, OpFields DEF TypeInv
    <2>3. /\ op'.at.phase = "prepare" /\ op'.req = op.req /\ op'.done = op.done + Chunk
          /\ op'.at.step = IF op.done + Chunk < op.req.len THEN First(op.req) ELSE "return"
          /\ op'.got = op.got \o rx.data
      <3>1. op.got \o rx.data \in Seq(BOOLEAN)
        BY <2>2
      <3>2. QED
        BY <1>0, <2>1, <3>1, Advanced
    <2>4. SUFFICES ASSUME Live
                   PROVE  (WireState /\ ChipState /\ Read /\ Ended)'
      BY <2>1 DEF Faithful, Live
    <2>5. wire = NoWire /\ Untouched /\ Read /\ rx.data = [i \in 1 .. Chunk |-> mem[Here + i - 1]]
      BY <2>1, <2>4 DEF Faithful, WireState, Arrived, ChipState
    <2>6. Untouched'
      BY <2>1, <2>3, <2>5 DEF Untouched, Progress
    <2>7. op'.at.step \in {"fetch", "return"}
      BY <2>1, <2>3, FirstStep DEF InService
    <2>8. WireState' /\ ChipState'
      BY <2>1, <2>3, <2>5, <2>6, <2>7 DEF WireState, ChipState
    <2>9. Read'
      <3>1. /\ Chunk \in Nat /\ op.done \in Nat /\ op.req.addr \in Nat
            /\ Here = op.req.addr + op.done
        BY <1>0, <2>1, ChunkFacts, OpFields
      <3> DEFINE n == op.done
                 k == Chunk
                 a == op.req.addr
      <3>2. /\ op.got = [i \in 1 .. n |-> mem[a + i - 1]]
            /\ rx.data = [i \in 1 .. k |-> mem[a + n + i - 1]]
        BY <2>1, <2>5, <3>1 DEF Read
      <3>3. op'.got = op.got \o rx.data /\ op'.done = n + k /\ op'.req.addr = a
        BY <2>3
      <3>4. n \in Nat /\ k \in Nat /\ a \in Nat
        BY <3>1
      <3> HIDE DEF n, k, a
      <3>5. op'.got = [i \in 1 .. n + k |-> mem[a + i - 1]]
        BY <2>2, <3>2, <3>3, <3>4, Joined
      <3>6. mem' = mem
        BY <2>1
      <3>7. QED
        BY <3>3, <3>5, <3>6 DEF Read
    <2>10. Ended'
      <3>1. op.done + Chunk <= op.req.len /\ op.done + Chunk \in Nat /\ op.req.len \in Nat
        BY <1>0, <2>1, ChunkFacts, OpFields
      <3>2. First(op.req) = "fetch"
        BY <2>1, FirstStep DEF InService
      <3>3. QED
        BY <2>3, <3>1, <3>2 DEF Ended
    <2>11. QED
      BY <2>8, <2>9, <2>10
  <1>14. CASE TransferDone
    <2>1. UNCHANGED <<mem, op, past>> /\ wire' = NoWire /\ wire # NoWire /\ done'.sem = 1
      BY <1>14 DEF TransferDone
    <2>2. SUFFICES ASSUME Live
                   PROVE  (WireState /\ ChipState /\ Read /\ Ended)'
      BY <2>1 DEF Faithful, Live
    <2>3. /\ op.at.phase = "wait" /\ done.sem = 0 /\ wire = [cmd |-> Command, waited |-> TRUE]
          /\ ChipState /\ Read /\ Ended
      BY <1>0, <2>1, <2>2 DEF Faithful, WireState, Phases
    <2>4. Transferring /\ wire.cmd = Command /\ wire.waited
      BY <1>1, <2>3
    <2>5. Read' /\ Ended'
      BY <1>2, <2>1, <2>3 DEF Ended
    <2>6. Command \in Commands /\ Reach(Command) \subseteq Cells
      BY <1>0, <2>4, CommandFacts DEF RangeOf
    <2>7. CASE done'.result = "failed" /\ UNCHANGED <<chip, rx>>
      BY <2>1, <2>3, <2>5, <2>7, SameProgress DEF WireState, ChipState
    <2>8. CASE /\ Execute(Command) \/ UNCHANGED chip
               /\ rx' = Received(Command)
      <3>1. /\ chip'.busy = chip.busy
                 \/ (/\ chip.busy = None /\ chip.wel /\ Command \in Works
                     /\ chip'.busy = Command /\ chip'.wel)
            /\ Command.c \in {"status", "id", "read"} => chip' = chip
            /\ Command.c \in {"program", "erase"} => chip'.wel = chip.wel
            /\ chip' \in [wel : BOOLEAN, busy : Works \cup {None}]
        BY <2>6, <2>8, Executed
      <3>2. chip \in [wel : BOOLEAN, busy : Works \cup {None}]
        BY DEF TypeInv
      <3>3. Progress(op.done)' = Progress(op.done) /\ Work' = Work
        BY <2>1, SameProgress, KeptTerms
      <3>4. Arrived'
        <4>1. Command.c = "status" => rx'.wel = chip.wel /\ chip' = chip
          BY <2>6, <2>8, <3>1, ReceivedFacts
        <4>2. op.at.step \in {"enabled", "cleared"} => Command.c = "status"
          BY <1>0, <2>4, CommandFacts
        <4>3. op.at.step = "fetch" => rx'.data = [i \in 1 .. Chunk |-> mem[Here + i - 1]]
          <5>1. SUFFICES ASSUME op.at.step = "fetch"
                         PROVE  rx'.data = [i \in 1 .. Chunk |-> mem[Here + i - 1]]
            OBVIOUS
          <5>2. /\ Command = [c |-> "read", addr |-> Here, len |-> Chunk]
            BY <1>0, <2>4, <5>1, CommandFacts
          <5>3. chip.busy = None
            BY <2>3, <5>1 DEF ChipState, Untouched
          <5>4. Command.c = "read" /\ Command.addr = Here /\ Command.len = Chunk
            BY <5>2
          <5>5. QED
            BY <2>6, <2>8, <5>3, <5>4, ReceivedFacts
        <4>4. Chunk' = Chunk /\ Here' = Here
          BY <2>1, KeptTerms
        <4>5. QED
          BY <2>1, <4>1, <4>2, <4>3, <4>4 DEF Arrived
      <3>5. ChipState'
        <4>1. CASE op.at.step \in {"program", "erase"}
          <5>1. Ready /\ Command = Work /\ Command.c \in {"program", "erase"}
            <6>1. Ready
              BY <2>3, <4>1 DEF ChipState
            <6>2. Command = Work
              BY <1>0, <2>4, <4>1, CommandFacts
            <6>3. Command.c \in {"program", "erase"}
              BY <4>1 DEF Command
            <6>4. QED
              BY <6>1, <6>2, <6>3
          <5>2. (Ready \/ AtWork)'
            BY <2>1, <3>1, <3>3, <5>1 DEF Ready, Untouched, AtWork
          <5>3. QED
            BY <2>1, <2>3, <4>1, <5>2 DEF ChipState
        <4>2. CASE op.at.step \in {"poll", "cleared"}
          <5>1. chip' = chip
            BY <1>0, <2>4, <3>1, <4>2, CommandFacts
          <5>2. QED
            BY <2>1, <2>3, <4>2, <5>1, SameProgress DEF ChipState
        <4>3. CASE op.at.step \notin {"program", "erase", "poll", "cleared"}
          <5>1. Untouched /\ Command \notin Works
            BY <1>0, <2>3, <2>4, <4>3, CommandFacts DEF ChipState, Works
          <5>2. Untouched'
            BY <2>1, <3>1, <5>1, SameProgress
          <5>3. QED
            BY <2>1, <4>3, <5>2 DEF ChipState
        <4>4. QED
          BY <4>1, <4>2, <4>3
      <3>6. WireState'
        BY <2>1, <2>3, <3>4 DEF WireState
      <3>7. QED
        BY <2>5, <3>5, <3>6
    <2>9. QED
      BY <1>14, <2>4, <2>7, <2>8 DEF TransferDone
  <1>15. CASE ChipDone
    <2>1. /\ UNCHANGED <<wire, done, rx, op, past>> /\ chip.busy # None
          /\ mem' = After(chip.busy) /\ chip'.wel = FALSE /\ chip'.busy = None
      BY <1>15 DEF ChipDone
    <2>2. SUFFICES ASSUME Live
                   PROVE  (WireState /\ ChipState /\ Read /\ Ended)'
      BY <2>1 DEF Faithful, Live
    <2>3. WireState /\ ChipState /\ Read /\ Ended
      BY <2>2 DEF Faithful
    <2>4. /\ AtWork /\ op.at.step \in {"program", "erase", "poll", "cleared"}
          /\ op.at.step \in {"program", "erase"} => op.at.phase = "wait" /\ done.sem = 1
      BY <2>1, <2>3 DEF ChipState, Ready, Worked, Untouched
    <2>5. InService /\ op.req.kind \in {"write", "erase"}
      BY <2>4 DEF Script, Stepping
    <2>6. mem' = Progress(op.done + Chunk)
      BY <2>1, <2>4, <2>5, WorkDone DEF AtWork
    <2>7. Worked'
      <3>1. Progress(op.done + Chunk)' = Progress(op.done + Chunk)
        BY <2>1 DEF Progress, Chunk, PageChunk, AtMost, Left, Here
      <3>2. QED
        BY <2>1, <2>6, <3>1 DEF Worked
    <2>8. ChipState'
      BY <2>1, <2>4, <2>7 DEF ChipState
    <2>9. WireState'
      <3>1. Command' = Command
        BY <2>1 DEF Command, Here, Chunk, PageChunk, AtMost, Left
      <3>2. Arrived'
        BY <2>1, <2>4 DEF Arrived
      <3>3. QED
        BY <1>0, <2>1, <2>3, <3>1, <3>2 DEF WireState, Phases
    <2>10. Read' /\ Ended'
      BY <2>1, <2>3, <2>5 DEF Read, Ended
    <2>11. QED
      BY <2>8, <2>9, <2>10
  <1>16. CASE UNCHANGED flashVars
    <2>1. UNCHANGED <<mem, chip, wire, done, rx, op, past>>
      BY <1>16 DEF flashVars
    <2>2. /\ Live' <=> Live
          /\ Ended' <=> Ended
          /\ Read' <=> Read
      BY <2>1 DEF Live, Ended, Read
    <2>3. Command' = Command /\ (Arrived' <=> Arrived)
      BY <2>1, KeptTerms DEF Command, Arrived
    <2>4. WireState' <=> WireState
      BY <2>1, <2>3 DEF WireState
    <2>5. ChipState' <=> ChipState
      BY <2>1, SameProgress DEF ChipState
    <2>6. QED
      BY <2>2, <2>4, <2>5 DEF Faithful
  <1>17. CASE CallerAborted
    BY <1>0, <1>3, <1>17, Aborted
  <1>18. QED
    BY <1>4, <1>5, <1>6, <1>7, <1>9, <1>10, <1>11, <1>12, <1>13, <1>14, <1>15, <1>16, <1>17
       DEF Next, DriverStep

-----------------------------------------------------------------------------
(* The theorems. *)

\* The invariant holds before the first operation.
LEMMA FlashInit == Init => FlashInv
  <1> SUFFICES ASSUME Init
               PROVE  FlashInv
    OBVIOUS
  <1>1. /\ op.req = NoRequest /\ op.done = 0 /\ op.got = <<>> /\ op.ok = FALSE
        /\ op.at.step = "idle" /\ op.at.phase = "prepare"
        /\ wire = NoWire /\ chip.busy = None /\ chip.wel = FALSE
    BY DEF Init, AtStep
  <1>2. TypeInv
    <2>1. op \in OpType
      BY RestValues DEF Init, AtStep, OpType, Steps, Phases
    <2>2. mem \in [Cells -> BOOLEAN]
      BY DEF Init
    <2>3. past \in [mem : [Cells -> BOOLEAN], quiet : BOOLEAN, touched : SUBSET Cells]
      BY <2>2 DEF Init
    <2>4. chip \in [wel : BOOLEAN, busy : Works \cup {None}]
      BY DEF Init
    <2>5. QED
      BY <2>1, <2>2, <2>3, <2>4, RestValues DEF Init, TypeInv
  <1>3. Script
    BY <1>1 DEF Script, Stepping, Transferring
  <1>4. Contained
    BY <1>1, RestValues DEF Contained, Transferring
  <1>5. Faithful
    BY <1>1 DEF Faithful, Live
  <1>6. Bounded
    BY <1>1 DEF Bounded, NoRequest
  <1>7. QED
    BY <1>2, <1>3, <1>4, <1>5, <1>6 DEF FlashInv

\* The inductive invariant holds in every state, for every size of page, sector, device and read,
\* and all requests.
THEOREM FlashInvariant == Spec => []FlashInv
  <1>1. FlashInv /\ [Next]_flashVars => FlashInv'
    BY TypeStep, BoundedStep, ContainedStep, FaithfulStep DEF FlashInv
  <1>2. QED
    BY FlashInit, <1>1, PTL DEF Spec

\* The variables of the driver stay in their types.
THEOREM FlashTypeCorrect == Spec => []FlashTypeOK
  <1>1. FlashInv => FlashTypeOK
    <2> SUFFICES ASSUME FlashInv
                 PROVE  FlashTypeOK
      OBVIOUS
    <2>1. TypeInv /\ Script /\ Faithful /\ op \in OpType /\ wire \in WireType
      BY DEF FlashInv, TypeInv
    <2>2. op.done \in 0 .. op.req.len
      <3>1. op.req.len \in Nat
        BY <2>1, OpFields, RequestFields DEF NoRequest
      <3>2. QED
        BY <2>1, <3>1, OpFields DEF FlashInv, Bounded
    <2>3. wire.waited \in BOOLEAN
      BY <2>1, WireOps
    <2>4. QED
      BY <2>1, <2>2, <2>3, OpFields DEF TypeInv, FlashTypeOK
  <1>2. QED
    BY FlashInvariant, <1>1, PTL

\* Nothing but the cells that were asked for is ever changed, whatever fails and whatever the chip
\* goes on with after its operation was given up (ExtFlash_ReadWriteControl.c:63-107, 165-195).
THEOREM RangeIsKept == Spec => OnlyRangeTouched
  <1>1. FlashInv /\ [Next]_flashVars => [\A x \in Cells : mem'[x] # mem[x] => x \in past.touched]_mem
    BY TouchStep DEF FlashInv
  <1>2. QED
    BY FlashInvariant, <1>1, PTL DEF Spec, OnlyRangeTouched

\* An operation that reports success, and began in peace, has written, erased or read exactly what
\* it was asked for (ZephyrFlashMiddleWare.c, ExtFlash_ReadWriteControl.c:63-107, 165-195).
THEOREM SuccessIsTruthful == Spec => []SuccessIsTrue
  <1>1. FlashInv => SuccessIsTrue
    <2> SUFFICES ASSUME FlashInv, At("return", "prepare"), op.ok, past.quiet
                 PROVE  /\ \A x \in Cells : mem[x] = Promised(x)
                        /\ op.req.kind = "read" =>
                             op.got = [i \in 1 .. op.req.len |-> mem[op.req.addr + i - 1]]
      BY DEF SuccessIsTrue
    <2>1. TypeInv /\ op \in OpType /\ op.at.step = "return" /\ op.req \in Requests
      BY DEF FlashInv, TypeInv, At, Script, Stepping
    <2>2. Read /\ Ended /\ Untouched
      BY <2>1 DEF FlashInv, Faithful, Live, ChipState
    <2>3. op.req.kind = "setup" \/ op.done = op.req.len
      BY <2>1, <2>2 DEF Ended
    <2>4. ASSUME NEW x \in Cells
          PROVE  mem[x] = Promised(x)
      <3>1. mem[x] = Progress(op.done)[x]
        BY <2>2 DEF Untouched
      <3>2. x \in RangeOf(op.req) <=> op.req.addr <= x /\ x < op.req.addr + op.req.len
        BY DEF RangeOf
      <3>3. CASE op.req.kind = "setup"
        BY <3>1, <3>3 DEF Progress, Promised
      <3>4. CASE op.req.kind # "setup"
        BY <2>3, <3>1, <3>2, <3>4 DEF Progress, Promised
      <3>5. QED
        BY <3>3, <3>4
    <2>5. QED
      BY <2>2, <2>3, <2>4 DEF Read
  <1>2. QED
    BY FlashInvariant, <1>1, PTL
=============================================================================
