------------------------------- MODULE SpiBus -------------------------------
(***************************************************************************)
(* src/src/wf_spi.c: register and block access to the WINC1500 over SPI.   *)
(* A transfer is a command, its response and, for all but register writes, *)
(* data; a phase that fails makes the code reset the protocol and start    *)
(* the transfer again, SPI_RETRY_COUNT times.  nm_read_block and           *)
(* nm_write_block cut a call into transfers, nm_spi_init makes five.       *)
(*                                                                         *)
(* The chip may miss any command and be late with any answer.  It cannot   *)
(* read a command without a CRC while its CRC check is on.  Bytes that     *)
(* arrive are taken to be right: with the CRC off nothing would tell.      *)
(*                                                                         *)
(* A register holds a set of bits.  A byte of a block is known by where it *)
(* comes from: its place in the caller's buffer or its address in memory.  *)
(***************************************************************************)
EXTENDS Integers

CONSTANTS
  SPI_RETRY_COUNT, SPI_RESP_RETRY_COUNT,
  MaxTransfer,     \* NM_BUS_MAX_TRX_SZ - MAX_TRX_CFG_SZ
  DATA_PKT_SZ,
  MemSize,         \* the chip's memory
  Ranges           \* bound: the blocks moved, <<first address, size>>

ASSUME SizesAssumption ==
  /\ SPI_RETRY_COUNT \in Nat \ {0} /\ SPI_RESP_RETRY_COUNT \in Nat \ {0}
  /\ MaxTransfer \in Nat /\ MaxTransfer > 1
  /\ DATA_PKT_SZ \in Nat /\ DATA_PKT_SZ >= 4
  /\ MemSize \in Nat \ {0}
  /\ \A range \in Ranges : /\ range[1] \in Nat /\ range[2] \in Nat \ {0}
                          /\ range[1] + range[2] <= MemSize

VARIABLES
  g_crcOff,
  regs, mem,       \* the chip's registers and memory
  heard,           \* the chip has read the command under way
  task,            \* the call: a function's name, or "none"
  step,            \* the transfer of nm_spi_init under way
  start, size,     \* of the block
  offset,          \* of the transfer in it
  buf,             \* the caller's buffer of a block read
  xfer,            \* the transfer: kind, register, value
  phase, retry,
  sz, ix,          \* bytes of the transfer, bytes moved
  order,           \* of the last data packet sent
  reg,             \* what spi_read_reg returns
  ready,           \* the last nm_spi_init found the chip
  gaveUp           \* history: offsets of the transfers given up

chip == <<regs, mem, heard>>
call == <<task, step, start, size, offset, ready>>
transfer == <<xfer, phase, retry, sz, ix, order, reg, gaveUp>>
vars == <<g_crcOff, chip, call, transfer, buf>>

Registers == {"config", "chip_id", "scratch"}
Bits == {"crc", "pkt_size", "other", "id", "a", "b"}
Zero == {}
Id == {"id"}
ResetConfig == {"crc", "other"}
Blocks == {"nm_read_block", "nm_write_block", "spi_read_block", "spi_write_block"}
Address == 0 .. MemSize - 1
Offset == Address
Old == -1       \* a byte from before the call
Stray == -2     \* a byte of no buffer: beside it, or never written

Min(a, b) == IF a <= b THEN a ELSE b

TypeOK ==
  /\ g_crcOff \in BOOLEAN /\ heard \in BOOLEAN /\ ready \in BOOLEAN
  /\ regs \in [Registers -> SUBSET Bits]
  /\ mem \in [0 .. MemSize -> Offset \cup {Old, Stray}]
  /\ task \in Blocks \cup {"none", "nm_spi_init", "nm_read_reg", "nm_write_reg"}
  /\ step \in 0 .. 5
  /\ start \in Address /\ size \in 0 .. MemSize /\ offset \in 0 .. size
  /\ buf \in [Offset -> 0 .. MemSize \cup {Old, Stray}]
  /\ xfer \in [kind : {"none", "read_reg", "write_reg", "read_block", "write_block"},
               reg : Registers, value : SUBSET Bits]
  /\ phase \in {"none", "command", "response", "data_read", "data_write",
                "data_rsp", "reset", "ended"}
  /\ retry \in 0 .. SPI_RETRY_COUNT
  /\ sz \in 0 .. MemSize + 4 /\ ix \in 0 .. sz
  /\ order \in 0 .. 3
  /\ reg \in SUBSET Bits
  /\ gaveUp \subseteq Address

NoTransfer == [kind |-> "none", reg |-> "config", value |-> Zero]

Init ==
  /\ g_crcOff = FALSE
  /\ regs = [r \in Registers |-> IF r = "config" THEN ResetConfig
                                 ELSE IF r = "chip_id" THEN Id ELSE Zero]
  /\ mem = [a \in 0 .. MemSize |-> Old] /\ heard = FALSE
  /\ task = "none" /\ step = 0 /\ start = 0 /\ size = 0 /\ offset = 0
  /\ buf = [k \in Offset |-> Old]
  /\ xfer = NoTransfer /\ phase = "none" /\ retry = 0 /\ sz = 0 /\ ix = 0
  /\ order = 0 /\ reg = Zero /\ ready = FALSE /\ gaveUp = {}
-----------------------------------------------------------------------------
(* The phases of a transfer.                                               *)

\* spi_read_reg, spi_write_reg, nm_spi_read and nm_spi_write set out.  A
\* block of one byte is moved as two.
Transfer(kind, r, value, n) ==
  /\ xfer' = [kind |-> kind, reg |-> r, value |-> value]
  /\ phase' = "command" /\ retry' = SPI_RETRY_COUNT
  /\ sz' = IF n = 1 THEN 2 ELSE n
  /\ ix' = 0 /\ order' = 0
  /\ reg' = Zero

Understood == "crc" \notin regs["config"] \/ ~g_crcOff

\* A register write is done when the chip has read the command.
spi_cmd ==
  /\ phase = "command"
  /\ heard' \in (IF Understood THEN BOOLEAN ELSE {FALSE})
  /\ regs' = IF heard' /\ xfer.kind = "write_reg"
               THEN [regs EXCEPT ![xfer.reg] = xfer.value] ELSE regs
  /\ phase' = "response" /\ ix' = 0
  /\ UNCHANGED <<g_crcOff, mem, call, xfer, retry, sz, order, reg, gaveUp, buf>>

\* How many polls an answer is late, the last for no answer at all.
Delays == 0 .. SPI_RESP_RETRY_COUNT + 1

\* Both loops of spi_cmd_rsp poll once more than they count.
spi_cmd_rsp ==
  /\ phase = "response"
  /\ \E echo \in Delays, state \in Delays :
       phase' =
         IF ~heard \/ echo > SPI_RESP_RETRY_COUNT \/ state > SPI_RESP_RETRY_COUNT
           THEN "reset"
         ELSE IF xfer.kind = "write_reg" THEN "ended"
         ELSE IF xfer.kind = "write_block" THEN "data_write"
         ELSE "data_read"
  /\ UNCHANGED <<g_crcOff, chip, call, xfer, retry, sz, ix, order, reg, gaveUp, buf>>

Packet == Min(sz - ix, DATA_PKT_SZ)

\* nm_read_block and nm_write_block make one transfer of the last bytes.
TransferSize(rest) == Min(rest, MaxTransfer)

\* The part of the block the transfer under way moves.
Chunk ==
  IF task \in {"nm_read_block", "nm_write_block"}
    THEN TransferSize(size - offset) ELSE size

\* Where the bytes of the packet come to lie.  A single byte is read into tmp.
Read ==
  [k \in Offset |->
     IF k \in offset + ix .. offset + Min(ix + Packet, Chunk) - 1
       THEN start + k ELSE buf[k]]

\* The packet's header is accepted if polls are left when it comes.  A single
\* byte is copied from tmp, which nobody initialised, even if none came.
spi_data_read ==
  /\ phase = "data_read"
  /\ \E delay \in Delays :
       IF delay < SPI_RESP_RETRY_COUNT
         THEN /\ ix' = ix + Packet
              /\ phase' = IF ix' = sz THEN "ended" ELSE phase
              /\ buf' = IF xfer.kind = "read_block" THEN Read ELSE buf
              /\ reg' = IF xfer.kind = "read_reg" THEN regs[xfer.reg] ELSE reg
         ELSE /\ phase' = "reset"
              /\ buf' = IF xfer.kind = "read_block" /\ Chunk = 1
                          THEN [buf EXCEPT ![offset] = Stray] ELSE buf
              /\ UNCHANGED <<ix, reg>>
  /\ UNCHANGED <<g_crcOff, chip, call, xfer, retry, sz, order, gaveUp>>

Order == IF sz - ix <= DATA_PKT_SZ THEN 3 ELSE IF ix = 0 THEN 1 ELSE 2

\* A packet may not reach the chip.
spi_data_write ==
  /\ phase = "data_write"
  /\ order' = Order
  /\ heard' \in (IF heard THEN BOOLEAN ELSE {FALSE})
  /\ mem' = IF heard'
              THEN [a \in DOMAIN mem |->
                      LET k == a - start IN
                      IF k \in offset + ix .. offset + ix + Packet - 1
                        THEN IF k < size THEN k ELSE Stray
                        ELSE mem[a]]
              ELSE mem
  /\ ix' = ix + Packet
  /\ phase' = IF ix' = sz THEN "data_rsp" ELSE phase
  /\ UNCHANGED <<g_crcOff, regs, call, xfer, retry, sz, reg, gaveUp, buf>>

\* Mutant of spi_data_rsp: the answer is not looked at.
spi_data_rsp_Unchecked ==
  /\ phase = "data_rsp"
  /\ phase' = "ended"
  /\ UNCHANGED <<g_crcOff, chip, call, xfer, retry, sz, ix, order, reg, gaveUp, buf>>

\* The chip confirms a write it has got completely, or the answer is lost.
spi_data_rsp ==
  /\ phase = "data_rsp"
  /\ phase' \in (IF heard /\ order = 3 THEN {"ended", "reset"} ELSE {"reset"})
  /\ UNCHANGED <<g_crcOff, chip, call, xfer, retry, sz, ix, order, reg, gaveUp, buf>>

\* Mutant of nm_spi_reset: the transfer starts again without being counted.
nm_spi_reset_Uncounted ==
  /\ phase = "reset"
  /\ phase' = "command" /\ heard' = FALSE /\ ix' = 0
  /\ UNCHANGED <<g_crcOff, regs, mem, call, xfer, retry, sz, order, reg, gaveUp, buf>>

\* Mutant of nm_spi_reset: the tries left are counted after the question.
nm_spi_reset_OneMore ==
  /\ phase = "reset"
  /\ retry' = retry - 1 /\ ix' = 0 /\ heard' = FALSE
  /\ IF retry > 0 THEN phase' = "command" /\ UNCHANGED gaveUp
                  ELSE phase' = "ended" /\ gaveUp' = gaveUp \cup {offset}
  /\ UNCHANGED <<g_crcOff, regs, mem, call, xfer, sz, order, reg, buf>>

\* The reset command and its answer, whatever it is, and the next try.
nm_spi_reset ==
  /\ phase = "reset"
  /\ retry' = retry - 1 /\ ix' = 0 /\ heard' = FALSE
  /\ IF retry' > 0 THEN phase' = "command" /\ UNCHANGED gaveUp
                   ELSE phase' = "ended" /\ gaveUp' = gaveUp \cup {offset}
  /\ UNCHANGED <<g_crcOff, regs, mem, call, xfer, sz, order, reg, buf>>
-----------------------------------------------------------------------------
(* The calls.                                                              *)

Begin(name) ==
  /\ task = "none"
  /\ task' = name
  /\ gaveUp' = {}
  /\ buf' = [k \in Offset |-> Old]
  /\ UNCHANGED heard

\* nm_read_reg and nm_write_reg of wf_spi.c, nm_spi_init apart, are called
\* once it has been called.
nm_read_reg ==
  /\ g_crcOff /\ Begin("nm_read_reg")
  /\ Transfer("read_reg", "scratch", Zero, 4)
  /\ UNCHANGED <<g_crcOff, regs, mem, step, start, size, offset, ready>>

nm_write_reg(value) ==
  /\ g_crcOff /\ Begin("nm_write_reg")
  /\ Transfer("write_reg", "scratch", value, 4)
  /\ UNCHANGED <<g_crcOff, regs, mem, step, start, size, offset, ready>>

\* Where the block lies, nothing of the caller's is yet.
Block(name, a, n) ==
  /\ g_crcOff /\ Begin(name)
  /\ start' = a /\ size' = n /\ offset' = 0
  /\ mem' = [x \in DOMAIN mem |-> Old]
  /\ UNCHANGED <<g_crcOff, regs, step, ready>>

spi_read_block(a, n) ==
  Block("spi_read_block", a, n) /\ Transfer("read_block", "config", Zero, n)
spi_write_block(a, n) ==
  Block("spi_write_block", a, n) /\ Transfer("write_block", "config", Zero, n)
nm_read_block(a, n) ==
  Block("nm_read_block", a, n)
    /\ Transfer("read_block", "config", Zero, TransferSize(n))
nm_write_block(a, n) ==
  Block("nm_write_block", a, n)
    /\ Transfer("write_block", "config", Zero, TransferSize(n))

\* The first read is made with the CRC on.
nm_spi_init ==
  /\ Begin("nm_spi_init")
  /\ g_crcOff' = FALSE /\ ready' = FALSE /\ step' = 1
  /\ Transfer("read_reg", "config", Zero, 4)
  /\ UNCHANGED <<regs, mem, start, size, offset>>

nm_spi_deinit ==
  /\ task = "none"
  /\ g_crcOff' = FALSE /\ ready' = FALSE
  /\ UNCHANGED <<chip, task, step, start, size, offset, transfer, buf>>

Done ==
  /\ task' = "none" /\ step' = 0 /\ start' = 0 /\ size' = 0 /\ offset' = 0
  /\ xfer' = NoTransfer /\ phase' = "none" /\ retry' = 0 /\ sz' = 0 /\ ix' = 0
  /\ order' = 0 /\ reg' = Zero /\ gaveUp' = {}
  /\ buf' = [k \in Offset |-> Old] /\ mem' = [x \in DOMAIN mem |-> Old]
  /\ heard' = FALSE /\ UNCHANGED regs

\* The transfer has ended, well or not: nm_read_block and nm_write_block do
\* not ask.
NextTransfer ==
  /\ phase = "ended" /\ task \in Blocks
  /\ LET o == offset + Chunk IN
     IF o < size
       THEN /\ offset' = o
            /\ Transfer(xfer.kind, "config", Zero, TransferSize(size - o))
            /\ UNCHANGED <<chip, task, step, start, size, gaveUp, buf>>
       ELSE Done
  /\ UNCHANGED <<g_crcOff, ready>>

RegisterDone ==
  /\ phase = "ended" /\ task \in {"nm_read_reg", "nm_write_reg"}
  /\ Done
  /\ UNCHANGED <<g_crcOff, ready>>

\* Mutant of ChipFound: any chip will do.
ChipFound_Any == TRUE

ChipFound == reg = Id

InitTransfer(kind, r, value) ==
  /\ Transfer(kind, r, value, 4)
  /\ step' = step + 1
  /\ UNCHANGED <<chip, task, start, size, offset, gaveUp, buf>>

\* What nm_spi_init does when a transfer has ended: the CRC is taken for
\* switched off; SpiInitPktSize is the last two transfers.
InitStep ==
  /\ phase = "ended" /\ task = "nm_spi_init"
  /\ g_crcOff' = (g_crcOff \/ step = 2)
  /\ CASE step = 1 -> InitTransfer("write_reg", "config",
                                   (reg \ {"crc"}) \cup {"pkt_size"})
       [] step = 2 -> InitTransfer("read_reg", "chip_id", Zero)
       [] step = 3 /\ ChipFound -> InitTransfer("read_reg", "config", Zero)
       [] step = 4 -> InitTransfer("write_reg", "config", reg \cup {"pkt_size"})
       [] OTHER -> Done
  /\ ready' = (step = 5)

\* The chip is reset by its pin or its reset register.
ChipReset ==
  /\ task = "none"
  /\ regs' = [regs EXCEPT !["config"] = ResetConfig, !["scratch"] = Zero]
  /\ ready' = FALSE
  /\ UNCHANGED <<g_crcOff, mem, heard, task, step, start, size, offset, transfer, buf>>

Calls ==
  \/ nm_spi_init \/ nm_spi_deinit \/ nm_read_reg
  \/ \E value \in {Zero, {"a"}} : nm_write_reg(value)
  \/ \E range \in Ranges : LET a == range[1]  n == range[2] IN
       \/ nm_read_block(a, n) \/ nm_write_block(a, n)
       \/ spi_read_block(a, n) \/ spi_write_block(a, n)

spi_write_reg == xfer.kind = "write_reg" /\ (spi_cmd \/ spi_cmd_rsp \/ nm_spi_reset)
spi_read_reg ==
  xfer.kind = "read_reg" /\ (spi_cmd \/ spi_cmd_rsp \/ spi_data_read \/ nm_spi_reset)
nm_spi_read ==
  xfer.kind = "read_block" /\ (spi_cmd \/ spi_cmd_rsp \/ spi_data_read \/ nm_spi_reset)
nm_spi_write ==
  /\ xfer.kind = "write_block"
  /\ spi_cmd \/ spi_cmd_rsp \/ spi_data_write \/ spi_data_rsp \/ nm_spi_reset

Steps ==
  \/ spi_write_reg \/ spi_read_reg \/ nm_spi_read \/ nm_spi_write
  \/ NextTransfer \/ RegisterDone \/ InitStep

Next == Calls \/ Steps \/ ChipReset

Spec == Init /\ [][Next]_vars

\* The superloop is inside the call.
FairSpec == Spec /\ WF_vars(Steps)
-----------------------------------------------------------------------------
(* Properties.                                                             *)

\* The transfer of the call that moves byte k.
TransferOf(k) ==
  IF task \in {"nm_read_block", "nm_write_block"}
    THEN (k \div MaxTransfer) * MaxTransfer ELSE 0

\* When a transfer ends, every byte of the block up to here is in its place
\* whatever was lost and repeated on the way, but for the transfers that were
\* given up; nothing is written beside the block but the second byte of a
\* single one, and a register read that was given up returns zero
\* (wf_spi.c:223-342, 605-858).
TransfersDone ==
  phase = "ended" =>
    /\ \A k \in 0 .. size - 1 : k < offset + Chunk /\ TransferOf(k) \notin gaveUp =>
         /\ xfer.kind = "read_block" => buf[k] = start + k
         /\ xfer.kind = "write_block" => mem[start + k] = k
    /\ \A a \in DOMAIN mem :
         mem[a] \in {Old, a - start} \/ (a = start + size /\ Chunk = 1)
    /\ xfer.kind = "read_reg" =>
         reg = IF retry = 0 THEN Zero ELSE regs[xfer.reg]
    /\ xfer.kind = "write_reg" /\ retry > 0 => regs[xfer.reg] = xfer.value

\* When nm_spi_init has ended without an error event, host and chip agree: no
\* CRC on either side and the packet size set, whichever of its transfers were
\* given up (wf_spi.c:137-168, 344-361).
InitAgrees ==
  ready => g_crcOff /\ "crc" \notin regs["config"] /\ "pkt_size" \in regs["config"]

\* Every call ends, whatever the chip answers (wf_spi.c:204, 274, 337, 788).
CallsReturn == task # "none" ~> task = "none"

=============================================================================
