---------------------------- MODULE SpiBusProofs ----------------------------
(***************************************************************************)
(* Proofs about SpiBus, for every number of tries and polls, every size of *)
(* transfer, packet and memory and every set of blocks: its types, that    *)
(* host and chip agree on the CRC after nm_spi_init, and that the bytes of *)
(* a block come to lie where they belong, and nowhere else, whatever was   *)
(* lost and repeated on the way.                                           *)
(***************************************************************************)
EXTENDS SpiBus, TLAPS

ReadBlocks == {"nm_read_block", "spi_read_block"}
WriteBlocks == {"nm_write_block", "spi_write_block"}
Cut == {"nm_read_block", "nm_write_block"}

(* The call and its transfer: the inductive invariant CallInv.             *)

\* The call decides the kind of its transfer, the kind its phases.
Shape ==
  /\ xfer.kind = "none" <=> task = "none"
  /\ phase = "none" <=> task = "none"
  /\ xfer.kind = "read_block" <=> task \in ReadBlocks
  /\ xfer.kind = "write_block" <=> task \in WriteBlocks
  /\ task = "nm_read_reg" => xfer.kind = "read_reg"
  /\ task = "nm_write_reg" => xfer.kind = "write_reg"
  /\ phase = "data_read" => xfer.kind \in {"read_reg", "read_block"}
  /\ phase \in {"data_write", "data_rsp"} => xfer.kind = "write_block"
  /\ step # 0 <=> task = "nm_spi_init"

\* A cut block is cut at multiples of the largest transfer ...
Aligned == \E q \in Nat : offset = q * MaxTransfer

\* ... and the transfer under way lies in the block, the block in the memory.
Placement ==
  /\ start + size <= MemSize
  /\ task \in Blocks => offset < size /\ sz = (IF Chunk = 1 THEN 2 ELSE Chunk)
  /\ task \notin Blocks => start = 0 /\ size = 0 /\ offset = 0
  /\ task # "none" /\ task \notin Blocks => sz = 4
  /\ task \in Blocks \ Cut => offset = 0
  /\ task \in Cut => Aligned

\* A phase is only entered with a try left, and a transfer that ends with none
\* is among those given up.
Tries ==
  /\ phase \notin {"none", "ended"} => retry > 0
  /\ phase = "ended" /\ retry = 0 => offset \in gaveUp
  /\ phase \in {"command", "response"} => ix = 0
  /\ phase = "data_rsp" => ix = sz

CallInv == TypeOK /\ Shape /\ Placement /\ Tries

-----------------------------------------------------------------------------
(* The parts of TypeOK.                                                    *)

ChipOK ==
  /\ g_crcOff \in BOOLEAN /\ heard \in BOOLEAN /\ ready \in BOOLEAN
  /\ regs \in [Registers -> SUBSET Bits]
  /\ mem \in [0 .. MemSize -> Offset \cup {Old, Stray}]

TaskOK ==
  /\ task \in Blocks \cup {"none", "nm_spi_init", "nm_read_reg", "nm_write_reg"}
  /\ step \in 0 .. 5
  /\ start \in Address /\ size \in 0 .. MemSize /\ offset \in 0 .. size

BufOK == buf \in [Offset -> 0 .. MemSize \cup {Old, Stray}]

Kind == {"none", "read_reg", "write_reg", "read_block", "write_block"}
Phase == {"none", "command", "response", "data_read", "data_write",
                "data_rsp", "reset", "ended"}

TransferOK ==
  /\ xfer \in [kind : Kind, reg : Registers, value : SUBSET Bits]
  /\ phase \in Phase
  /\ retry \in 0 .. SPI_RETRY_COUNT
  /\ sz \in 0 .. MemSize + 4 /\ ix \in 0 .. sz
  /\ order \in 0 .. 3
  /\ reg \in SUBSET Bits
  /\ gaveUp \subseteq Address

\* TypeOK (SpiBus.tla) is the conjunction of its parts.
LEMMA TypeParts == TypeOK <=> ChipOK /\ TaskOK /\ BufOK /\ TransferOK
BY DEF TypeOK, ChipOK, TaskOK, BufOK, TransferOK, Kind, Phase

\* So is CallInv, before a step and after it.
LEMMA CallInvParts ==
  /\ CallInv => ChipOK /\ TaskOK /\ BufOK /\ TransferOK /\ Shape /\ Placement /\ Tries
  /\ ChipOK' /\ TaskOK' /\ BufOK' /\ TransferOK' /\ Shape' /\ Placement' /\ Tries' => CallInv'
BY DEF CallInv, TypeOK, ChipOK, TaskOK, BufOK, TransferOK, Kind, Phase

-----------------------------------------------------------------------------
(* Lemmas about numbers, and about the operators of SpiBus.                *)

\* Quotient and remainder are unique.
LEMMA DivUnique ==
  ASSUME NEW m \in Nat \ {0}, NEW q \in Nat, NEW r \in 0 .. m - 1
  PROVE  ((q * m) + r) \div m = q
BY SMT

\* The next multiple (nm_read_block, nm_write_block: the next transfer).
LEMMA NextMultiple ==
  ASSUME NEW m \in Nat, NEW q \in Nat
  PROVE  (q * m) + m = (q + 1) * m
BY SMT

\* The first one.
LEMMA ZeroMultiple == ASSUME NEW m \in Nat PROVE 0 = 0 * m
BY SMT

\* A transfer moves at least a byte, ends in its block, and is as large as can
\* be if the block goes on; one of a single byte is the block's last
\* (wf_spi.c: the loops of nm_read_block and nm_write_block).
LEMMA ChunkInBlock ==
  ASSUME CallInv, task \in Blocks
  PROVE  /\ Chunk \in Nat \ {0} /\ offset + Chunk <= size
         /\ task \in Cut => Chunk <= MaxTransfer
         /\ task \in Cut /\ offset + Chunk < size => Chunk = MaxTransfer
         /\ Chunk = 1 => offset + 1 = size
         /\ task \notin Cut => Chunk = size
         /\ Chunk <= sz
BY SizesAssumption DEF CallInv, TypeOK, Placement, Chunk, TransferSize, Min, Cut, Blocks

\* What Transfer leaves behind.
LEMMA TransferSets ==
  ASSUME NEW kind \in Kind, NEW r \in Registers, NEW value \in SUBSET Bits,
         NEW n \in 1 .. MemSize + 4, Transfer(kind, r, value, n)
  PROVE  /\ TransferOK' <=> gaveUp' \subseteq Address
         /\ xfer'.kind = kind /\ xfer'.reg = r /\ xfer'.value = value
         /\ phase' = "command" /\ retry' = SPI_RETRY_COUNT /\ retry' > 0 /\ ix' = 0
         /\ reg' = Zero /\ sz' = IF n = 1 THEN 2 ELSE n
<1>1. xfer' = [kind |-> kind, reg |-> r, value |-> value]
      /\ phase' = "command" /\ retry' = SPI_RETRY_COUNT
      /\ sz' = (IF n = 1 THEN 2 ELSE n)
      /\ ix' = 0 /\ order' = 0 /\ reg' = Zero
  BY DEF Transfer
<1>2. xfer' \in [kind : Kind, reg : Registers, value : SUBSET Bits]
      /\ xfer'.kind = kind /\ xfer'.reg = r /\ xfer'.value = value
  BY <1>1
<1>3. sz' \in 0 .. MemSize + 4 /\ ix' \in 0 .. sz' /\ retry' \in 0 .. SPI_RETRY_COUNT /\ retry' > 0
  BY <1>1, SizesAssumption
<1>4. reg' \in SUBSET Bits /\ phase' \in Phase /\ order' \in 0 .. 3
  BY <1>1 DEF Zero, Phase
<1> QED
  BY <1>1, <1>2, <1>3, <1>4 DEF TransferOK

\* No transfer is a transfer.
LEMMA NoTransferTyped == NoTransfer \in [kind : Kind, reg : Registers, value : SUBSET Bits]
                         /\ NoTransfer.kind = "none"
BY DEF NoTransfer, Kind, Registers, Zero

-----------------------------------------------------------------------------
(* CallInv, step by step.                                                  *)

\* Before the first call nothing is under way.
LEMMA CallInvInit == Init => CallInv
<1> SUFFICES ASSUME Init PROVE CallInv
  OBVIOUS
<1>1. ChipOK
  BY DEF Init, ChipOK, Registers, ResetConfig, Id, Zero, Bits
<1>2. TaskOK /\ BufOK
  BY SizesAssumption DEF Init, TaskOK, BufOK, Address
<1>3. TransferOK
  BY NoTransferTyped, SizesAssumption DEF Init, TransferOK, Phase, Zero
<1>4. Shape /\ Tries
  BY NoTransferTyped DEF Init, Shape, Tries, ReadBlocks, WriteBlocks
<1>5. Placement
  BY SizesAssumption DEF Init, Placement, Blocks, Cut
<1> QED
  BY <1>1, <1>2, <1>3, <1>4, <1>5, TypeParts DEF CallInv

\* What a packet leaves in the buffer (spi_data_read) is of its type.
LEMMA ReadTyped ==
  ASSUME CallInv, task \in Blocks
  PROVE  Read \in [Offset -> 0 .. MemSize \cup {Old, Stray}]
<1>1. buf \in [Offset -> 0 .. MemSize \cup {Old, Stray}]
  BY DEF CallInv, TypeOK
<1>2. ASSUME NEW k \in Offset, k \in offset + ix .. offset + Min(ix + Packet, Chunk) - 1
      PROVE  start + k \in 0 .. MemSize
  <2>1. start \in Nat /\ size \in Nat /\ start + size <= MemSize /\ offset \in Nat
        /\ ix \in Nat /\ sz \in Nat
    BY SizesAssumption DEF CallInv, TypeOK, Placement, Address
  <2>2. Chunk \in Nat /\ offset + Chunk <= size
    BY ChunkInBlock
  <2>3. Packet \in Int
    BY <2>1, SizesAssumption DEF Packet, Min
  <2>4. k \in Nat /\ k < offset + Chunk
    BY <1>2, <2>1, <2>2, <2>3, SizesAssumption DEF Offset, Address, Min
  <2> QED
    BY <2>1, <2>2, <2>4, SizesAssumption
<1> QED
  BY <1>1, <1>2 DEF Read

\* The phases of a transfer leave the call as it is.
LEMMA PlacementKept ==
  ASSUME Placement, UNCHANGED <<call, sz>>
  PROVE  Placement'
BY DEF Placement, call, Chunk, TransferSize, Aligned

\* The steps of a transfer.
PhaseStep ==
  \/ spi_cmd \/ spi_cmd_rsp
  \/ spi_data_read \/ spi_data_write \/ spi_data_rsp \/ nm_spi_reset

\* None changes the call, the size or what the host takes the CRC for.
LEMMA PhaseStepKeepsCall == PhaseStep => UNCHANGED <<g_crcOff, call, xfer, sz>>
BY DEF PhaseStep, spi_cmd, spi_cmd_rsp, spi_data_read, spi_data_write, spi_data_rsp, nm_spi_reset

\* A command, heard or not (spi_cmd), keeps the invariant.
LEMMA CommandCallInv == CallInv /\ spi_cmd => CallInv'
<1> SUFFICES ASSUME CallInv, spi_cmd PROVE CallInv'
  OBVIOUS
<1>0. ChipOK /\ TaskOK /\ BufOK /\ TransferOK /\ Shape /\ Placement /\ Tries
  BY CallInvParts
<1>1. ChipOK'
  <2>1. heard' \in BOOLEAN
    BY DEF spi_cmd
  <2>2. regs' \in [Registers -> SUBSET Bits]
    BY <1>0 DEF spi_cmd, ChipOK, TransferOK
  <2> QED
    BY <1>0, <2>1, <2>2 DEF spi_cmd, ChipOK, call
<1>2. TaskOK' /\ BufOK' /\ TransferOK'
  BY <1>0 DEF spi_cmd, call, TaskOK, BufOK, TransferOK, Phase
<1>3. Placement'
  BY <1>0, PlacementKept DEF spi_cmd
<1>4. Shape' /\ Tries'
  BY <1>0 DEF spi_cmd, call, Shape, Tries
<1> QED
  BY <1>1, <1>2, <1>3, <1>4, CallInvParts

\* So does every other step of a transfer: a packet leaves ix in the transfer,
\* a reset counts the try and ends the transfer after the last.
LEMMA PhaseCallInv == CallInv /\ PhaseStep => CallInv'
<1> SUFFICES ASSUME CallInv, PhaseStep PROVE CallInv'
  OBVIOUS
<1>0. ChipOK /\ TaskOK /\ BufOK /\ TransferOK /\ Shape /\ Placement /\ Tries
  BY CallInvParts
<1>a. UNCHANGED <<g_crcOff, call, xfer, sz>>
  BY PhaseStepKeepsCall
<1>b. TaskOK' /\ Placement'
  BY <1>0, <1>a, PlacementKept DEF TaskOK, call
<1>1. CASE spi_cmd
  BY <1>1, CommandCallInv
<1>2. CASE spi_cmd_rsp
  <2>1. ChipOK' /\ BufOK' /\ TransferOK'
    BY <1>0, <1>2 DEF spi_cmd_rsp, chip, call, ChipOK, BufOK, TransferOK, Phase
  <2>2. Shape' /\ Tries'
    BY <1>0, <1>2 DEF spi_cmd_rsp, call, Shape, Tries, TransferOK, Kind
  <2> QED
    BY <1>b, <2>1, <2>2, CallInvParts
<1>3. CASE spi_data_read
  <2>1. ix' \in 0 .. sz
    BY <1>0, <1>3, SizesAssumption DEF spi_data_read, TransferOK, Packet, Min
  <2>2. buf' \in [Offset -> 0 .. MemSize \cup {Old, Stray}]
    <3>1. task \in Blocks \/ xfer.kind # "read_block"
      BY <1>0 DEF Shape, ReadBlocks, Blocks
    <3>2. CASE buf' = [buf EXCEPT ![offset] = Stray]
      BY <1>0, <3>2 DEF BufOK
    <3> QED
      BY <1>0, <1>3, <3>1, <3>2, ReadTyped DEF spi_data_read, BufOK
  <2>3. reg' \in SUBSET Bits
    BY <1>0, <1>3 DEF spi_data_read, TransferOK, ChipOK
  <2>4. ChipOK' /\ BufOK' /\ TransferOK'
    BY <1>0, <1>3, <1>a, <2>1, <2>2, <2>3
       DEF spi_data_read, chip, call, ChipOK, BufOK, TransferOK, Phase
  <2>5. Shape' /\ Tries'
    BY <1>0, <1>3 DEF spi_data_read, call, Shape, Tries
  <2> QED
    BY <1>b, <2>4, <2>5, CallInvParts
<1>4. CASE spi_data_write
  <2>1. ix' \in 0 .. sz
    BY <1>0, <1>4, SizesAssumption DEF spi_data_write, TransferOK, Packet, Min
  <2>2. mem' \in [0 .. MemSize -> Offset \cup {Old, Stray}]
    <3>1. ASSUME NEW k \in offset + ix .. offset + ix + Packet - 1, k < size
          PROVE  k \in Offset
      <4>1. offset \in Nat /\ ix \in Nat /\ size \in 0 .. MemSize /\ Packet \in Int
        BY <1>0, SizesAssumption DEF TaskOK, TransferOK, Packet, Min
      <4> QED
        BY <3>1, <4>1, SizesAssumption DEF Offset, Address
    <3> QED
      BY <1>0, <1>4, <3>1 DEF spi_data_write, ChipOK
  <2>3. heard' \in BOOLEAN
    BY <1>0, <1>4 DEF spi_data_write, ChipOK
  <2>4. ChipOK' /\ BufOK' /\ TransferOK'
    BY <1>0, <1>4, <1>a, <2>1, <2>2, <2>3
       DEF spi_data_write, call, ChipOK, BufOK, TransferOK, Phase, Order
  <2>5. Shape' /\ Tries'
    BY <1>0, <1>4 DEF spi_data_write, call, Shape, Tries
  <2> QED
    BY <1>b, <2>4, <2>5, CallInvParts
<1>5. CASE spi_data_rsp
  <2>1. ChipOK' /\ BufOK' /\ TransferOK'
    BY <1>0, <1>5 DEF spi_data_rsp, chip, call, ChipOK, BufOK, TransferOK, Phase
  <2>2. Shape' /\ Tries'
    BY <1>0, <1>5 DEF spi_data_rsp, call, Shape, Tries
  <2> QED
    BY <1>b, <2>1, <2>2, CallInvParts
<1>6. CASE nm_spi_reset
  <2>0. offset \in Address
    BY <1>0, SizesAssumption DEF TaskOK, Placement, Address
  <2>1. ChipOK' /\ BufOK'
    BY <1>0, <1>6 DEF nm_spi_reset, call, ChipOK, BufOK
  <2>2. /\ retry' \in 0 .. SPI_RETRY_COUNT /\ gaveUp' \subseteq Address
        /\ phase' \in {"command", "ended"}
    BY <1>0, <1>6, <2>0, SizesAssumption DEF nm_spi_reset, TransferOK, Tries
  <2>3. TransferOK'
    BY <1>0, <1>6, <1>a, <2>2 DEF nm_spi_reset, TransferOK, Phase
  <2>4. Shape' /\ Tries'
    BY <1>0, <1>6 DEF nm_spi_reset, call, Shape, Tries
  <2> QED
    BY <1>b, <2>1, <2>3, <2>4, CallInvParts
<1> QED
  BY <1>1, <1>2, <1>3, <1>4, <1>5, <1>6 DEF PhaseStep

\* A call, or what nm_spi_init does next, starts a register transfer.
LEMMA RegisterCallInv ==
  ASSUME CallInv, NEW kind \in {"read_reg", "write_reg"}, NEW r \in Registers,
         NEW value \in SUBSET Bits, Transfer(kind, r, value, 4),
         task \notin Blocks, UNCHANGED <<regs, mem, heard, start, size, offset>>,
         task' \in {"nm_spi_init", "nm_read_reg", "nm_write_reg"},
         task' = "nm_read_reg" => kind = "read_reg",
         task' = "nm_write_reg" => kind = "write_reg",
         step' \in 0 .. 5, step' # 0 <=> task' = "nm_spi_init",
         g_crcOff' \in BOOLEAN, ready' \in BOOLEAN,
         gaveUp' \subseteq Address,
         buf' \in [Offset -> 0 .. MemSize \cup {Old, Stray}]
  PROVE  CallInv'
<1>0. ChipOK /\ TaskOK /\ BufOK /\ TransferOK /\ Shape /\ Placement /\ Tries
  BY CallInvParts
<1>1. /\ TransferOK' <=> gaveUp' \subseteq Address
      /\ xfer'.kind = kind /\ phase' = "command" /\ retry' > 0 /\ ix' = 0 /\ sz' = 4
  BY TransferSets, SizesAssumption DEF Kind
<1>2. ChipOK' /\ BufOK'
  BY <1>0 DEF ChipOK, BufOK
<1>3. TaskOK'
  BY <1>0 DEF TaskOK
<1>4. Placement'
  BY <1>0, <1>1 DEF Placement, Blocks, Cut
<1>5. Shape' /\ Tries'
  BY <1>1 DEF Shape, Tries, ReadBlocks, WriteBlocks
<1> QED
  BY <1>1, <1>2, <1>3, <1>4, <1>5, CallInvParts

\* A call starts a block, or goes on with it.
LEMMA BlockCallInv ==
  ASSUME CallInv, NEW kind \in {"read_block", "write_block"}, NEW n \in Nat \ {0},
         Transfer(kind, "config", Zero, n),
         kind = "read_block" => task' \in ReadBlocks,
         kind = "write_block" => task' \in WriteBlocks,
         NEW a \in Nat, NEW m \in Nat, NEW o \in Nat, a + m <= MemSize, o < m,
         start' = a, size' = m, offset' = o,
         n = IF task' \in Cut THEN TransferSize(m - o) ELSE m,
         task' \notin Cut => offset' = 0, Aligned',
         UNCHANGED <<g_crcOff, regs, heard, ready>>, step' = 0,
         mem' \in [0 .. MemSize -> Offset \cup {Old, Stray}],
         gaveUp' \subseteq Address,
         buf' \in [Offset -> 0 .. MemSize \cup {Old, Stray}]
  PROVE  CallInv'
<1>0. ChipOK /\ TaskOK /\ BufOK /\ TransferOK /\ Shape /\ Placement /\ Tries
  BY CallInvParts
<1>a. n \in 1 .. MemSize + 4
  BY SizesAssumption DEF TransferSize, Min
<1>b. n = Chunk'
  BY DEF Chunk, TransferSize, Cut
<1>1. /\ TransferOK' <=> gaveUp' \subseteq Address
      /\ xfer'.kind = kind /\ phase' = "command" /\ retry' > 0 /\ ix' = 0
      /\ sz' = IF n = 1 THEN 2 ELSE n
  <2>1. kind \in Kind /\ "config" \in Registers /\ Zero \in SUBSET Bits
    BY DEF Kind, Registers, Zero
  <2> QED
    BY <1>a, <2>1, TransferSets
<1>2. ChipOK' /\ BufOK'
  BY <1>0 DEF ChipOK, BufOK
<1>3. TaskOK'
  BY SizesAssumption DEF TaskOK, Address, ReadBlocks, WriteBlocks, Blocks
<1>4. Placement'
  BY <1>0, <1>1, <1>b DEF Placement, ReadBlocks, WriteBlocks, Blocks
<1>5. Shape' /\ Tries'
  BY <1>1 DEF Shape, Tries, ReadBlocks, WriteBlocks
<1> QED
  BY <1>1, <1>2, <1>3, <1>4, <1>5, CallInvParts

\* The call returns.
LEMMA DoneCallInv ==
  ASSUME CallInv, Done, g_crcOff' \in BOOLEAN, ready' \in BOOLEAN
  PROVE  CallInv'
<1>0. ChipOK /\ TaskOK /\ BufOK /\ TransferOK /\ Shape /\ Placement /\ Tries
  BY CallInvParts
<1>1. ChipOK'
  BY <1>0 DEF Done, ChipOK
<1>2. TaskOK' /\ BufOK'
  BY SizesAssumption DEF Done, TaskOK, BufOK, Address
<1>3. TransferOK'
  BY NoTransferTyped, SizesAssumption DEF Done, TransferOK, Phase, Zero
<1>4. Placement'
  BY SizesAssumption DEF Done, Placement, Blocks, Cut
<1>5. Shape' /\ Tries'
  BY NoTransferTyped DEF Done, Shape, Tries, ReadBlocks, WriteBlocks
<1> QED
  BY <1>1, <1>2, <1>3, <1>4, <1>5, CallInvParts

\* What every call begins with.
LEMMA BeginTyped ==
  ASSUME NEW name, Begin(name)
  PROVE  /\ buf' \in [Offset -> 0 .. MemSize \cup {Old, Stray}]
         /\ gaveUp' \subseteq Address
         /\ task = "none" /\ task' = name /\ heard' = heard
BY DEF Begin

\* A call that moves a block begins, at the block's first byte.
LEMMA BlockBegins ==
  ASSUME CallInv, NEW range \in Ranges, NEW name \in Blocks, Block(name, range[1], range[2]),
         NEW kind \in {"read_block", "write_block"},
         kind = "read_block" => name \in ReadBlocks,
         kind = "write_block" => name \in WriteBlocks,
         Transfer(kind, "config", Zero, IF name \in Cut THEN TransferSize(range[2]) ELSE range[2])
  PROVE  CallInv'
<1> DEFINE n == IF name \in Cut THEN TransferSize(range[2]) ELSE range[2]
<1>0. ChipOK /\ TaskOK /\ BufOK /\ TransferOK /\ Shape /\ Placement /\ Tries
  BY CallInvParts
<1>1. range[1] \in Nat /\ range[2] \in Nat \ {0} /\ range[1] + range[2] <= MemSize
  BY SizesAssumption
<1>2. task = "none" /\ task' = name /\ start' = range[1] /\ size' = range[2] /\ offset' = 0
      /\ mem' = [x \in DOMAIN mem |-> Old] /\ UNCHANGED <<g_crcOff, regs, heard, step, ready>>
      /\ gaveUp' \subseteq Address
      /\ buf' \in [Offset -> 0 .. MemSize \cup {Old, Stray}]
  BY BeginTyped DEF Block
<1>3. step' = 0
  BY <1>0, <1>2 DEF Shape, TaskOK
<1>4. mem' \in [0 .. MemSize -> Offset \cup {Old, Stray}]
  BY <1>0, <1>2 DEF ChipOK
<1>5. Aligned'
  BY <1>2, ZeroMultiple, SizesAssumption DEF Aligned
<1>6. n = (IF task' \in Cut THEN TransferSize(range[2] - 0) ELSE range[2]) /\ n \in Nat \ {0}
  BY <1>1, <1>2, SizesAssumption DEF TransferSize, Min
<1>7. 0 < range[2]
  BY <1>1
<1> HIDE DEF n
<1>8. Transfer(kind, "config", Zero, n)
  BY DEF n
<1> QED
  BY <1>1, <1>2, <1>3, <1>4, <1>5, <1>6, <1>7, <1>8, BlockCallInv

\* Every call begins with the invariant.
LEMMA CallsCallInv == CallInv /\ Calls => CallInv'
<1> SUFFICES ASSUME CallInv, Calls PROVE CallInv'
  OBVIOUS
<1>0. ChipOK /\ TaskOK /\ BufOK /\ TransferOK /\ Shape /\ Placement /\ Tries
  BY CallInvParts
<1>a. task = "none" => step = 0 /\ task \notin Blocks
  BY <1>0 DEF Shape, TaskOK, Blocks
<1>b. Zero \in SUBSET Bits /\ {"a"} \in SUBSET Bits /\ Registers = {"config", "chip_id", "scratch"}
  BY DEF Zero, Bits, Registers
<1>1. CASE nm_spi_init
  <2>1. /\ Transfer("read_reg", "config", Zero, 4)
        /\ UNCHANGED <<regs, mem, heard, start, size, offset>>
        /\ task = "none" /\ task' = "nm_spi_init" /\ step' = 1
        /\ g_crcOff' = FALSE /\ ready' = FALSE
        /\ gaveUp' \subseteq Address
        /\ buf' \in [Offset -> 0 .. MemSize \cup {Old, Stray}]
    BY <1>1, BeginTyped DEF nm_spi_init
  <2>2. step' \in 0 .. 5 /\ step' # 0
    BY <2>1
  <2>4. g_crcOff' \in BOOLEAN /\ ready' \in BOOLEAN
    BY <2>1
  <2>3. task' \in {"nm_spi_init", "nm_read_reg", "nm_write_reg"}
        /\ (task' = "nm_read_reg" => "read_reg" = "read_reg")
        /\ (task' = "nm_write_reg" => "read_reg" = "write_reg")
        /\ (step' # 0 <=> task' = "nm_spi_init")
    BY <2>1, <2>2
  <2> QED
    BY <1>a, <1>b, <2>1, <2>2, <2>3, <2>4, RegisterCallInv
<1>2. CASE nm_spi_deinit
  <2>1. ChipOK' /\ TaskOK' /\ BufOK' /\ TransferOK'
    BY <1>0, <1>2 DEF nm_spi_deinit, ChipOK, TaskOK, BufOK, TransferOK, chip, transfer
  <2>2. Placement'
    BY <1>0, <1>2 DEF nm_spi_deinit, Placement, Chunk, TransferSize, Aligned, transfer
  <2>3. Shape' /\ Tries'
    BY <1>0, <1>2 DEF nm_spi_deinit, Shape, Tries, transfer
  <2> QED
    BY <2>1, <2>2, <2>3, CallInvParts
<1>3. CASE nm_read_reg
  <2>1. /\ Transfer("read_reg", "scratch", Zero, 4)
        /\ UNCHANGED <<regs, mem, heard, start, size, offset, step, g_crcOff, ready>>
        /\ task = "none" /\ task' = "nm_read_reg"
        /\ gaveUp' \subseteq Address
        /\ buf' \in [Offset -> 0 .. MemSize \cup {Old, Stray}]
    BY <1>3, BeginTyped DEF nm_read_reg
  <2>2. g_crcOff' \in BOOLEAN /\ ready' \in BOOLEAN
    BY <1>0, <2>1 DEF ChipOK
  <2> QED
    BY <1>a, <1>b, <2>1, <2>2, RegisterCallInv
<1>4. ASSUME NEW value \in {Zero, {"a"}}, nm_write_reg(value) PROVE CallInv'
  <2>1. /\ Transfer("write_reg", "scratch", value, 4)
        /\ UNCHANGED <<regs, mem, heard, start, size, offset, step, g_crcOff, ready>>
        /\ task = "none" /\ task' = "nm_write_reg"
        /\ gaveUp' \subseteq Address
        /\ buf' \in [Offset -> 0 .. MemSize \cup {Old, Stray}]
    BY <1>4, BeginTyped DEF nm_write_reg
  <2>2. g_crcOff' \in BOOLEAN /\ ready' \in BOOLEAN
    BY <1>0, <2>1 DEF ChipOK
  <2> QED
    BY <1>a, <1>b, <2>1, <2>2, RegisterCallInv
<1>5. ASSUME NEW range \in Ranges,
             \/ nm_read_block(range[1], range[2]) \/ nm_write_block(range[1], range[2])
             \/ spi_read_block(range[1], range[2]) \/ spi_write_block(range[1], range[2])
      PROVE  CallInv'
  BY <1>5, BlockBegins DEF nm_read_block, nm_write_block, spi_read_block, spi_write_block,
     Blocks, ReadBlocks, WriteBlocks, Cut
<1> QED
  BY <1>1, <1>2, <1>3, <1>4, <1>5 DEF Calls

\* The next transfer of a block begins where this one ended; there is one only
\* if this one was as large as can be, so the cuts stay aligned.
LEMMA NextTransferCallInv == CallInv /\ NextTransfer => CallInv'
<1> SUFFICES ASSUME CallInv, NextTransfer PROVE CallInv'
  OBVIOUS
<1>0. ChipOK /\ TaskOK /\ BufOK /\ TransferOK /\ Shape /\ Placement /\ Tries
  BY CallInvParts
<1> DEFINE o == offset + Chunk
<1>1. CASE o < size
  <2>0. task \in Blocks /\ UNCHANGED <<g_crcOff, ready>>
    BY DEF NextTransfer
  <2>1. /\ Transfer(xfer.kind, "config", Zero, TransferSize(size - o))
        /\ UNCHANGED <<chip, task, step, start, size, gaveUp, buf>>
        /\ offset' = o
    BY <1>1 DEF NextTransfer
  <2>2. Chunk \in Nat \ {0} /\ task \in Cut /\ Chunk = MaxTransfer
    BY <1>0, <1>1, <2>0, ChunkInBlock DEF TaskOK, Placement
  <2>3. size \in Nat /\ offset \in Nat /\ start \in Nat /\ start + size <= MemSize
        /\ TransferSize(size - o) \in Nat \ {0} /\ o \in Nat /\ o < size
    BY <1>0, <1>1, <2>0, <2>1, <2>2, SizesAssumption
       DEF TaskOK, Address, Placement, TransferSize, Min
  <2>5. Aligned'
    <3>1. PICK q \in Nat : offset = q * MaxTransfer
      BY <1>0, <2>2 DEF Placement, Aligned
    <3>2. offset' = (q + 1) * MaxTransfer
      BY <2>1, <2>2, <3>1, NextMultiple, SizesAssumption
    <3> QED
      BY <3>2 DEF Aligned
  <2>6. /\ xfer.kind \in {"read_block", "write_block"}
        /\ xfer.kind = "read_block" => task \in ReadBlocks
        /\ xfer.kind = "write_block" => task \in WriteBlocks
    BY <1>0, <2>0 DEF Shape, Blocks, ReadBlocks, WriteBlocks
  <2>7. step' = 0 /\ UNCHANGED <<g_crcOff, regs, heard, ready>>
    BY <1>0, <2>0, <2>1 DEF Shape, chip, TaskOK, Blocks
  <2>8. mem' \in [0 .. MemSize -> Offset \cup {Old, Stray}] /\ gaveUp' \subseteq Address
        /\ buf' \in [Offset -> 0 .. MemSize \cup {Old, Stray}]
    BY <1>0, <2>1 DEF chip, ChipOK, TransferOK, BufOK
  <2> HIDE DEF o
  <2>9. /\ task' = task /\ start' = start /\ size' = size /\ offset' = o
        /\ xfer.kind = "read_block" => task' \in ReadBlocks
        /\ xfer.kind = "write_block" => task' \in WriteBlocks
        /\ task' \notin Cut => offset' = 0
        /\ TransferSize(size - o) = IF task' \in Cut THEN TransferSize(size - o) ELSE size
    BY <2>1, <2>2, <2>6
  <2> QED
    BY <2>1, <2>3, <2>5, <2>6, <2>7, <2>8, <2>9, BlockCallInv
<1>2. CASE ~(o < size)
  BY <1>0, <1>2, DoneCallInv DEF NextTransfer, ChipOK
<1> QED
  BY <1>1, <1>2

\* nm_spi_init goes on, or returns when it has found no chip.
LEMMA InitStepCallInv == CallInv /\ InitStep => CallInv'
<1> SUFFICES ASSUME CallInv, InitStep PROVE CallInv'
  OBVIOUS
<1>0. ChipOK /\ TaskOK /\ BufOK /\ TransferOK /\ Shape /\ Placement /\ Tries
  BY CallInvParts
<1>1. task = "nm_spi_init" /\ step \in 1 .. 5 /\ task \notin Blocks
  BY <1>0 DEF InitStep, Shape, TaskOK, Blocks
<1>2. g_crcOff' \in BOOLEAN
  BY Zenon DEF InitStep
<1>3. ready' \in BOOLEAN
  BY DEF InitStep
<1>4. ASSUME NEW kind \in {"read_reg", "write_reg"}, NEW r \in Registers,
             NEW value \in SUBSET Bits, step # 5, InitTransfer(kind, r, value)
      PROVE  CallInv'
  <2>1. /\ Transfer(kind, r, value, 4) /\ step' = step + 1
        /\ UNCHANGED <<regs, mem, heard, task, start, size, offset, gaveUp, buf>>
    BY <1>4 DEF InitTransfer, chip
  <2>2. gaveUp' \subseteq Address /\ buf' \in [Offset -> 0 .. MemSize \cup {Old, Stray}]
    BY <1>0, <2>1 DEF BufOK, TransferOK
  <2>3. step' \in 1 .. 5
    BY <1>1, <1>4, <2>1
  <2> QED
    BY <1>1, <1>2, <1>3, <2>1, <2>2, <2>3, RegisterCallInv
<1>5. CASE Done
  BY <1>2, <1>3, <1>5, DoneCallInv
<1>6. Zero \in SUBSET Bits /\ (reg \ {"crc"}) \cup {"pkt_size"} \in SUBSET Bits
      /\ reg \cup {"pkt_size"} \in SUBSET Bits /\ {"config", "chip_id"} \subseteq Registers
  BY <1>0 DEF Zero, Bits, TransferOK, Registers
<1> QED
  BY <1>1, <1>4, <1>5, <1>6 DEF InitStep

\* The steps of the four kinds of transfer are steps of a transfer.
LEMMA StepActions ==
  Steps => PhaseStep \/ NextTransfer \/ RegisterDone \/ InitStep
BY DEF Steps, PhaseStep, spi_write_reg, spi_read_reg, nm_spi_read, nm_spi_write

\* CallInv is inductive.
LEMMA CallInvStep == CallInv /\ [Next]_vars => CallInv'
<1> SUFFICES ASSUME CallInv, [Next]_vars PROVE CallInv'
  OBVIOUS
<1>0. ChipOK /\ TaskOK /\ BufOK /\ TransferOK /\ Shape /\ Placement /\ Tries
  BY CallInvParts
<1>1. CASE RegisterDone
  BY <1>0, <1>1, DoneCallInv DEF RegisterDone, ChipOK
<1>2. CASE ChipReset
  <2>1. ChipOK'
    BY <1>0, <1>2 DEF ChipReset, ChipOK, ResetConfig, Zero, Registers, Bits
  <2>2. TaskOK' /\ BufOK' /\ TransferOK'
    BY <1>0, <1>2 DEF ChipReset, TaskOK, BufOK, TransferOK, transfer
  <2>3. Placement'
    BY <1>0, <1>2 DEF ChipReset, Placement, Chunk, TransferSize, Aligned, transfer
  <2>4. Shape' /\ Tries'
    BY <1>0, <1>2 DEF ChipReset, Shape, Tries, transfer
  <2> QED
    BY <2>1, <2>2, <2>3, <2>4, CallInvParts
<1>3. CASE UNCHANGED vars
  <2>1. ChipOK' /\ TaskOK' /\ BufOK' /\ TransferOK'
    BY <1>0, <1>3 DEF vars, ChipOK, TaskOK, BufOK, TransferOK, chip, call, transfer
  <2>2. Placement'
    BY <1>0, <1>3 DEF vars, Placement, Chunk, TransferSize, Aligned, call, transfer
  <2>3. Shape' /\ Tries'
    BY <1>0, <1>3 DEF vars, Shape, Tries, call, transfer
  <2> QED
    BY <2>1, <2>2, <2>3, CallInvParts
<1> QED
  BY <1>1, <1>2, <1>3, StepActions, PhaseCallInv, CallsCallInv, NextTransferCallInv,
     InitStepCallInv DEF Next

\* The transfer under way always belongs to the call: it lies in the call's
\* block, is of the call's kind, and has a try left until it ends
\* (wf_spi.c:223-342, 605-858).
THEOREM CallsTyped == Spec => []CallInv
BY CallInvInit, CallInvStep, PTL DEF Spec

\* The variables keep their types: no transfer leaves its block, no packet its
\* transfer, and the tries left never go below zero (wf_spi.c:223-342, 605-858).
THEOREM TypeCorrect == Spec => []TypeOK
<1>1. CallInv => TypeOK
  BY DEF CallInv
<1> QED
  BY <1>1, CallsTyped, PTL

-----------------------------------------------------------------------------

(* Registers: the invariant RegInv.                                        *)

\* Data is read, and a transfer ends well, only after a command that was heard.
Answered == phase = "data_read" \/ (phase = "ended" /\ retry > 0) => heard

\* A register is read or written when its transfer ends, unless it was given
\* up; a read given up returns zero.
RegisterMoves ==
  /\ xfer.kind = "read_reg" /\ phase # "ended" => reg = Zero
  /\ xfer.kind = "read_reg" /\ phase = "data_read" => ix = 0
  /\ xfer.kind = "read_reg" /\ phase = "ended" =>
       reg = IF retry = 0 THEN Zero ELSE regs[xfer.reg]
  /\ xfer.kind = "write_reg" /\ phase = "response" /\ heard => regs[xfer.reg] = xfer.value
  /\ xfer.kind = "write_reg" /\ phase = "ended" /\ retry > 0 => regs[xfer.reg] = xfer.value

\* The chip checks no CRC.
NoCrc == "crc" \notin regs["config"]

\* The five transfers of nm_spi_init, and who writes the protocol's register.
InitSteps ==
  /\ step \in {1, 3, 4} => xfer.kind = "read_reg"
  /\ step \in {2, 5} => xfer.kind = "write_reg"
  /\ step \in {1, 4} => xfer.reg = "config"
  /\ step \in {3, 4, 5} => g_crcOff
  /\ xfer.kind = "write_reg" /\ xfer.reg = "config" =>
       task = "nm_spi_init" /\ "crc" \notin xfer.value /\ "pkt_size" \in xfer.value

\* A read the chip has heard found both sides agreed on the CRC.
Understands ==
  xfer.kind = "read_reg" /\ phase \in {"response", "data_read", "ended"} /\ heard => Understood

\* The chip's CRC is only ever switched off together with setting the packet
\* size, and the chip was found only with its CRC off.
Link ==
  /\ NoCrc => "pkt_size" \in regs["config"]
  /\ ready => g_crcOff /\ NoCrc /\ task # "nm_spi_init"
  /\ step \in {4, 5} => NoCrc

RegInv == Answered /\ RegisterMoves /\ Understands /\ InitSteps /\ Link

\* Host and chip start with the CRC on.
LEMMA RegInvInit == Init => RegInv
BY NoTransferTyped
   DEF Init, RegInv, Answered, RegisterMoves, Understands, InitSteps, Link, NoCrc,
       ResetConfig, Registers

\* A step that leaves the protocol's register and the host alone keeps Link.
LEMMA LinkKept ==
  ASSUME Link, UNCHANGED <<g_crcOff, task, step>>, ready' = ready, regs'["config"] = regs["config"]
  PROVE  Link'
BY Zenon DEF Link, NoCrc

\* Every step of a transfer keeps RegInv: the only write of the protocol's
\* register is nm_spi_init's, and not before the last one is over.
LEMMA PhaseRegInv == CallInv /\ RegInv /\ PhaseStep => RegInv'
<1> SUFFICES ASSUME CallInv, RegInv, PhaseStep PROVE RegInv'
  OBVIOUS
<1>0. ChipOK /\ TaskOK /\ BufOK /\ TransferOK /\ Shape /\ Placement /\ Tries
  BY CallInvParts
<1>a. Answered /\ RegisterMoves /\ Understands /\ InitSteps /\ Link
  BY DEF RegInv
<1>b. UNCHANGED <<g_crcOff, task, step, ready, xfer, sz>>
  BY PhaseStepKeepsCall DEF call
<1>c. InitSteps'
  BY <1>a, <1>b DEF InitSteps
<1>d. g_crcOff' = g_crcOff /\ ready' = ready /\ task' = task /\ step' = step
  BY <1>b
<1>1. CASE spi_cmd
  <2>1. Answered'
    BY <1>0, <1>1 DEF spi_cmd, Answered
  <2>2. regs \in [Registers -> SUBSET Bits] /\ xfer.reg \in Registers /\ "config" \in Registers
    BY <1>0 DEF ChipOK, TransferOK, Registers
  <2>3. RegisterMoves'
    BY <1>0, <1>1, <1>a, <2>2 DEF spi_cmd, RegisterMoves
  <2>4. heard' => Understood
    BY <1>1 DEF spi_cmd
  <2>5. xfer.kind = "read_reg" => regs' = regs
    BY <1>1 DEF spi_cmd
  <2>6. Understands'
    <3> SUFFICES ASSUME xfer'.kind = "read_reg", heard' PROVE Understood'
      BY DEF Understands
    <3>1. Understood /\ regs' = regs
      BY <1>b, <2>4, <2>5
    <3> QED
      BY <1>d, <3>1, Zenon DEF Understood
  <2>7. ASSUME regs'["config"] = regs["config"] PROVE Link'
    BY <1>a, <1>b, <2>7, LinkKept
  <2>8. ASSUME regs'["config"] # regs["config"] PROVE Link'
    <3>1. xfer.kind = "write_reg" /\ xfer.reg = "config" /\ regs'["config"] = xfer.value
      BY <1>1, <2>2, <2>8 DEF spi_cmd
    <3>2. task = "nm_spi_init" /\ "crc" \notin xfer.value /\ "pkt_size" \in xfer.value
      BY <1>a, <3>1 DEF InitSteps
    <3>3. ~ready'
      BY <1>a, <1>d, <3>2 DEF Link
    <3>4. NoCrc' /\ "pkt_size" \in regs'["config"]
      BY <3>1, <3>2 DEF NoCrc
    <3> QED
      BY <3>3, <3>4, Zenon DEF Link
  <2>9. Link'
    BY <2>7, <2>8
  <2> QED
    BY <1>c, <2>1, <2>3, <2>6, <2>9 DEF RegInv
<1>2. CASE spi_cmd_rsp
  <2>1. Answered' /\ RegisterMoves'
    BY <1>0, <1>2, <1>a DEF spi_cmd_rsp, Answered, RegisterMoves, chip, Tries
  <2>2. phase = "response" /\ UNCHANGED <<regs, heard>>
    BY <1>2 DEF spi_cmd_rsp, chip
  <2>3. Understands'
    BY <1>a, <1>b, <2>2, Zenon DEF Understands, Understood
  <2>4. Link'
    BY <1>a, <1>b, <2>2, LinkKept
  <2> QED
    BY <1>c, <2>1, <2>3, <2>4 DEF RegInv
<1>3. CASE spi_data_read
  <2>1. Answered'
    BY <1>0, <1>3, <1>a DEF spi_data_read, Answered, chip, Tries
  <2>2. xfer.kind = "read_reg" => sz = 4 /\ ix = 0
    BY <1>0, <1>3, <1>a DEF spi_data_read, RegisterMoves, Placement, Shape, Blocks, ReadBlocks,
       WriteBlocks
  <2>3. xfer.kind = "read_reg" => Packet = 4
    BY <2>2, SizesAssumption DEF Packet, Min
  <2>4. RegisterMoves'
    BY <1>0, <1>3, <1>a, <2>2, <2>3 DEF spi_data_read, RegisterMoves, chip, Tries, Shape
  <2>5. phase = "data_read" /\ UNCHANGED <<regs, heard>>
    BY <1>3 DEF spi_data_read, chip
  <2>6. Understands'
    BY <1>a, <1>b, <2>5, Zenon DEF Understands, Understood
  <2>7. Link'
    BY <1>a, <1>b, <2>5, LinkKept
  <2> QED
    BY <1>c, <2>1, <2>4, <2>6, <2>7 DEF RegInv
<1>4. CASE spi_data_write \/ spi_data_rsp
  <2>1. xfer.kind = "write_block"
    BY <1>0, <1>4 DEF spi_data_write, spi_data_rsp, Shape
  <2>2. ASSUME spi_data_write PROVE Answered'
    BY <2>2 DEF spi_data_write, Answered
  <2>3. ASSUME spi_data_rsp PROVE Answered'
    <3>1. heard' = heard
      BY <2>3 DEF spi_data_rsp, chip
    <3>2. phase' # "data_read" /\ (phase' = "ended" => heard)
      BY <2>3 DEF spi_data_rsp
    <3> QED
      BY <3>1, <3>2, Zenon DEF Answered
  <2>4. RegisterMoves' /\ Understands'
    <3>1. xfer'.kind # "read_reg" /\ xfer'.kind # "write_reg"
      BY <1>b, <2>1
    <3> QED
      BY <3>1, Zenon DEF RegisterMoves, Understands
  <2>5. regs' = regs
    BY <1>4 DEF spi_data_write, spi_data_rsp, chip
  <2>6. Link'
    BY <1>a, <1>b, <2>5, LinkKept
  <2> QED
    BY <1>4, <1>c, <2>2, <2>3, <2>4, <2>6 DEF RegInv
<1>5. CASE nm_spi_reset
  <2>1. Answered' /\ RegisterMoves' /\ Understands'
    BY <1>0, <1>5, <1>a, <1>b, SizesAssumption
       DEF nm_spi_reset, Answered, RegisterMoves, Understands, TransferOK, Tries
  <2>2. regs' = regs
    BY <1>5 DEF nm_spi_reset
  <2>3. Link'
    BY <1>a, <1>b, <2>2, LinkKept
  <2> QED
    BY <1>c, <2>1, <2>3 DEF RegInv
<1> QED
  BY <1>1, <1>2, <1>3, <1>4, <1>5 DEF PhaseStep

\* No register transfer has begun to move anything.
LEMMA FreshTransfer ==
  ASSUME NEW kind \in Kind, NEW r \in Registers, NEW value \in SUBSET Bits,
         NEW n \in 1 .. MemSize + 4, Transfer(kind, r, value, n)
  PROVE  Answered' /\ RegisterMoves' /\ Understands'
BY TransferSets DEF Answered, RegisterMoves, Understands

\* A call begins with RegInv; nm_spi_init and nm_spi_deinit unset ready.
LEMMA CallsRegInv == CallInv /\ RegInv /\ Calls => RegInv'
<1> SUFFICES ASSUME CallInv, RegInv, Calls PROVE RegInv'
  OBVIOUS
<1>0. ChipOK /\ TaskOK /\ BufOK /\ TransferOK /\ Shape /\ Placement /\ Tries
  BY CallInvParts
<1>a. Answered /\ RegisterMoves /\ Understands /\ InitSteps /\ Link
  BY DEF RegInv
<1>b. task = "none" => step = 0
  BY <1>0 DEF Shape, TaskOK
<1>c. Zero \in SUBSET Bits /\ {"a"} \in SUBSET Bits /\ Registers = {"config", "chip_id", "scratch"}
      /\ 4 \in 1 .. MemSize + 4
  BY SizesAssumption DEF Zero, Bits, Registers
<1>d. {"read_reg", "write_reg", "read_block", "write_block"} \subseteq Kind
  BY DEF Kind
<1>1. ASSUME NEW kind \in Kind, NEW r \in Registers, NEW value \in SUBSET Bits,
             NEW n \in 1 .. MemSize + 4, Transfer(kind, r, value, n),
             task = "none", regs' = regs, kind = "write_reg" => r # "config",
             \/ /\ task' # "nm_spi_init" /\ UNCHANGED <<step, ready, g_crcOff>>
             \/ ~ready' /\ step' = 1 /\ kind = "read_reg" /\ r = "config"
      PROVE  RegInv'
  <2>1. xfer'.kind = kind /\ xfer'.reg = r /\ Answered' /\ RegisterMoves' /\ Understands'
    BY <1>1, TransferSets, FreshTransfer
  <2>2. InitSteps'
    BY <1>1, <1>b, <2>1 DEF InitSteps
  <2>3. step' \notin {4, 5}
    BY <1>1, <1>b
  <2>4. ready' => ready /\ UNCHANGED g_crcOff /\ task' # "nm_spi_init"
    BY <1>1, Zenon
  <2>5. Link'
    BY <1>1, <1>a, <2>3, <2>4, Zenon DEF Link, NoCrc
  <2> QED
    BY <2>1, <2>2, <2>5 DEF RegInv
<1>2. CASE nm_spi_init
  <2>1. Transfer("read_reg", "config", Zero, 4) /\ task = "none" /\ regs' = regs
        /\ ~ready' /\ step' = 1
    BY <1>2 DEF nm_spi_init, Begin
  <2> QED
    BY <1>1, <1>c, <1>d, <2>1
<1>3. CASE nm_read_reg \/ \E value \in {Zero, {"a"}} : nm_write_reg(value)
  <2>1. PICK kind \in {"read_reg", "write_reg"}, value \in {Zero, {"a"}} :
          Transfer(kind, "scratch", value, 4)
    BY <1>3 DEF nm_read_reg, nm_write_reg
  <2>3. kind \in Kind /\ value \in SUBSET Bits /\ "scratch" \in Registers /\ "scratch" # "config"
    BY <1>c, <1>d
  <2>2. task = "none" /\ UNCHANGED <<regs, ready, g_crcOff, step>> /\ task' # "nm_spi_init"
    BY <1>3 DEF nm_read_reg, nm_write_reg, Begin
  <2> QED
    BY <1>1, <1>c, <2>1, <2>2, <2>3
<1>4. ASSUME NEW range \in Ranges,
             \/ nm_read_block(range[1], range[2]) \/ nm_write_block(range[1], range[2])
             \/ spi_read_block(range[1], range[2]) \/ spi_write_block(range[1], range[2])
      PROVE  RegInv'
  <2>1. PICK kind \in {"read_block", "write_block"}, n \in {range[2], TransferSize(range[2])} :
          Transfer(kind, "config", Zero, n)
    BY <1>4 DEF nm_read_block, nm_write_block, spi_read_block, spi_write_block
  <2>2. task = "none" /\ UNCHANGED <<regs, ready, g_crcOff, step>> /\ task' # "nm_spi_init"
    BY <1>4 DEF nm_read_block, nm_write_block, spi_read_block, spi_write_block, Block, Begin
  <2>3. n \in 1 .. MemSize + 4
    BY SizesAssumption DEF TransferSize, Min
  <2>4. kind \in Kind /\ kind # "write_reg" /\ "config" \in Registers
    BY <1>c, <1>d
  <2> QED
    BY <1>1, <1>c, <2>1, <2>2, <2>3, <2>4
<1>5. CASE nm_spi_deinit
  <2>1. task = "none" /\ step = 0 /\ phase = "none" /\ xfer.kind = "none"
    BY <1>0, <1>5, <1>b DEF nm_spi_deinit, Shape
  <2>2. regs' = regs /\ ~ready' /\ step' = step /\ phase' = phase /\ xfer' = xfer
    BY <1>5 DEF nm_spi_deinit, chip, transfer
  <2>3. Answered' /\ RegisterMoves' /\ Understands' /\ InitSteps'
    BY <2>1, <2>2 DEF Answered, RegisterMoves, Understands, InitSteps
  <2>4. Link'
    BY <1>a, <2>1, <2>2 DEF Link, NoCrc
  <2> QED
    BY <2>3, <2>4 DEF RegInv
<1> QED
  BY <1>2, <1>3, <1>4, <1>5 DEF Calls

\* A call that returns keeps it, if it sets ready only with both sides agreed.
LEMMA DoneRegInv ==
  ASSUME CallInv, RegInv, Done, ready' => g_crcOff' /\ NoCrc
  PROVE  RegInv'
<1>1. Link
  BY DEF RegInv
<1>2. Link'
  BY <1>1, NoTransferTyped DEF Done, Link, NoCrc
<1>3. Answered' /\ RegisterMoves' /\ Understands' /\ InitSteps'
  BY NoTransferTyped DEF Done, Answered, RegisterMoves, Understands, InitSteps
<1> QED
  BY <1>2, <1>3 DEF RegInv

\* nm_spi_init keeps it, transfer by transfer: the identity read in the third
\* is not zero, so the third was heard, so the chip's CRC was off by then.
LEMMA InitStepRegInv == CallInv /\ RegInv /\ InitStep => RegInv'
<1> SUFFICES ASSUME CallInv, RegInv, InitStep PROVE RegInv'
  OBVIOUS
<1>0. ChipOK /\ TaskOK /\ BufOK /\ TransferOK /\ Shape /\ Placement /\ Tries
  BY CallInvParts
<1>a. Answered /\ RegisterMoves /\ Understands /\ InitSteps /\ Link
  BY DEF RegInv
<1>b. phase = "ended" /\ task = "nm_spi_init" /\ step \in 1 .. 5
  BY <1>0 DEF InitStep, Shape, TaskOK
<1>d. (ready' <=> step = 5) /\ (g_crcOff \/ step = 2 => g_crcOff')
  BY Zenon DEF InitStep
<1>c. Zero \in SUBSET Bits /\ (reg \ {"crc"}) \cup {"pkt_size"} \in SUBSET Bits
      /\ reg \cup {"pkt_size"} \in SUBSET Bits /\ {"config", "chip_id"} \subseteq Registers
      /\ 4 \in 1 .. MemSize + 4 /\ {"read_reg", "write_reg"} \subseteq Kind
  BY <1>0, SizesAssumption DEF Zero, Bits, TransferOK, Registers, Kind
<1>1. ASSUME NEW kind \in {"read_reg", "write_reg"}, NEW r \in Registers,
             NEW value \in SUBSET Bits, InitTransfer(kind, r, value)
      PROVE  /\ xfer'.kind = kind /\ xfer'.reg = r /\ xfer'.value = value /\ phase' = "command"
             /\ Answered' /\ RegisterMoves' /\ Understands'
             /\ step' = step + 1 /\ UNCHANGED <<regs, task>>
  <2>1. Transfer(kind, r, value, 4) /\ step' = step + 1 /\ UNCHANGED <<regs, task>>
    BY <1>1 DEF InitTransfer, chip
  <2> QED
    BY <1>c, <2>1, TransferSets, FreshTransfer
<1>2. CASE step = 1
  <2>1. InitTransfer("write_reg", "config", (reg \ {"crc"}) \cup {"pkt_size"})
    BY <1>2 DEF InitStep
  <2>2. /\ xfer'.kind = "write_reg" /\ xfer'.reg = "config" /\ phase' = "command"
        /\ xfer'.value = (reg \ {"crc"}) \cup {"pkt_size"}
        /\ Answered' /\ RegisterMoves' /\ Understands' /\ step' = 2 /\ UNCHANGED <<regs, task>>
    BY <1>1, <1>2, <1>c, <2>1
  <2>3. ~ready'
    BY <1>2, <1>d
  <2>4. InitSteps'
    BY <1>b, <2>2 DEF InitSteps
  <2>5. Link'
    BY <1>a, <2>2, <2>3 DEF Link, NoCrc
  <2> QED
    BY <2>2, <2>4, <2>5 DEF RegInv
<1>3. CASE step = 2
  <2>1. InitTransfer("read_reg", "chip_id", Zero)
    BY <1>3 DEF InitStep
  <2>2. /\ xfer'.kind = "read_reg" /\ xfer'.reg = "chip_id" /\ phase' = "command"
        /\ Answered' /\ RegisterMoves' /\ Understands' /\ step' = 3 /\ UNCHANGED <<regs, task>>
    BY <1>1, <1>3, <1>c, <2>1
  <2>3. g_crcOff' /\ ~ready'
    BY <1>3, <1>d
  <2>4. InitSteps' /\ Link'
    BY <1>3, <1>a, <1>b, <2>2, <2>3 DEF InitSteps, Link, NoCrc
  <2> QED
    BY <2>2, <2>4 DEF RegInv
<1>4. CASE step = 3 /\ ChipFound
  <2>1. InitTransfer("read_reg", "config", Zero)
    BY <1>4 DEF InitStep
  <2>2. /\ xfer'.kind = "read_reg" /\ xfer'.reg = "config" /\ phase' = "command"
        /\ Answered' /\ RegisterMoves' /\ Understands' /\ step' = 4 /\ UNCHANGED <<regs, task>>
    BY <1>1, <1>4, <1>c, <2>1
  <2>3. g_crcOff /\ g_crcOff' /\ ~ready' /\ xfer.kind = "read_reg"
    BY <1>4, <1>a, <1>b, <1>d DEF InitSteps
  <2>4. retry > 0
    BY <1>0, <1>4, <1>a, <1>b, <2>3 DEF RegisterMoves, ChipFound, Zero, Id, TransferOK
  <2>5. Understood
    BY <1>a, <1>b, <2>3, <2>4 DEF Answered, Understands
  <2>6. NoCrc
    BY <2>3, <2>5 DEF Understood, NoCrc
  <2>7. InitSteps' /\ Link'
    BY <1>4, <1>a, <1>b, <2>2, <2>3, <2>6 DEF InitSteps, Link, NoCrc
  <2> QED
    BY <2>2, <2>7 DEF RegInv
<1>5. CASE step = 4
  <2>1. InitTransfer("write_reg", "config", reg \cup {"pkt_size"})
    BY <1>5 DEF InitStep
  <2>2. /\ xfer'.kind = "write_reg" /\ xfer'.reg = "config" /\ phase' = "command"
        /\ xfer'.value = reg \cup {"pkt_size"}
        /\ Answered' /\ RegisterMoves' /\ Understands' /\ step' = 5 /\ UNCHANGED <<regs, task>>
    BY <1>1, <1>5, <1>c, <2>1
  <2>3. g_crcOff /\ g_crcOff' /\ ~ready' /\ xfer.kind = "read_reg" /\ xfer.reg = "config" /\ NoCrc
    BY <1>5, <1>a, <1>b, <1>d DEF InitSteps, Link
  <2>4. "crc" \notin reg
    BY <1>a, <1>b, <2>3 DEF RegisterMoves, Zero, NoCrc
  <2>5. InitSteps' /\ Link'
    BY <1>5, <1>a, <1>b, <2>2, <2>3, <2>4 DEF InitSteps, Link, NoCrc
  <2> QED
    BY <2>2, <2>5 DEF RegInv
<1>6. CASE step = 5 \/ (step = 3 /\ ~ChipFound)
  <2>1. Done
    BY <1>6 DEF InitStep
  <2>2. ready' => g_crcOff' /\ NoCrc
    BY <1>a, <1>b, <1>d DEF InitSteps, Link
  <2> QED
    BY <2>1, <2>2, DoneRegInv
<1> QED
  BY <1>b, <1>2, <1>3, <1>4, <1>5, <1>6

\* RegInv is inductive, given CallInv.
LEMMA RegInvStep == CallInv /\ RegInv /\ [Next]_vars => RegInv'
<1> SUFFICES ASSUME CallInv, RegInv, [Next]_vars PROVE RegInv'
  OBVIOUS
<1>0. ChipOK /\ TaskOK /\ BufOK /\ TransferOK /\ Shape /\ Placement /\ Tries
  BY CallInvParts
<1>a. Answered /\ RegisterMoves /\ Understands /\ InitSteps /\ Link
  BY DEF RegInv
<1>1. CASE RegisterDone
  BY <1>1, <1>a, DoneRegInv DEF RegisterDone, Link
<1>2. CASE NextTransfer
  <2>1. CASE Done
    BY <1>2, <1>a, <2>1, DoneRegInv DEF NextTransfer, Link
  <2>2. CASE ~Done
    <3>1. /\ Transfer(xfer.kind, "config", Zero, TransferSize(size - (offset + Chunk)))
          /\ UNCHANGED <<chip, task, step>> /\ offset + Chunk < size /\ task \in Blocks
          /\ UNCHANGED <<g_crcOff, ready>>
      BY <1>2, <2>2 DEF NextTransfer
    <3>2. xfer.kind \in {"read_block", "write_block"} /\ xfer.kind \in Kind
          /\ "config" \in Registers /\ Zero \in SUBSET Bits
      BY <1>0, <3>1 DEF Shape, Blocks, ReadBlocks, WriteBlocks, Kind, Registers, Zero
    <3>3. TransferSize(size - (offset + Chunk)) \in 1 .. MemSize + 4
      <4>1. Chunk \in Nat \ {0} /\ size \in Nat /\ size <= MemSize /\ offset \in Nat
        BY <1>0, <3>1, ChunkInBlock, SizesAssumption DEF TaskOK
      <4> QED
        BY <3>1, <4>1, SizesAssumption DEF TransferSize, Min
    <3>4. /\ xfer'.kind = xfer.kind /\ phase' = "command"
          /\ Answered' /\ RegisterMoves' /\ Understands'
      BY <3>1, <3>2, <3>3, TransferSets, FreshTransfer
    <3>5. step = 0 /\ step' = 0
      BY <1>0, <3>1 DEF Shape, TaskOK, Blocks
    <3>6. InitSteps' /\ Link'
      BY <1>a, <3>1, <3>2, <3>4, <3>5 DEF InitSteps, Link, NoCrc, chip
    <3> QED
      BY <3>4, <3>6 DEF RegInv
  <2> QED
    BY <2>1, <2>2
<1>3. CASE ChipReset
  <2>1. xfer.kind = "none" /\ step = 0 /\ task = "none" /\ phase = "none"
    BY <1>0, <1>3 DEF ChipReset, Shape, TaskOK
  <2>2. UNCHANGED <<xfer, step, task, phase, retry, heard, g_crcOff>> /\ ready' = FALSE
    BY <1>3 DEF ChipReset, transfer
  <2>3. regs'["config"] = ResetConfig
    BY <1>0, <1>3 DEF ChipReset, ChipOK, Registers
  <2>4. Answered' /\ RegisterMoves' /\ Understands' /\ InitSteps'
    BY <1>a, <2>1, <2>2 DEF Answered, RegisterMoves, Understands, InitSteps
  <2>5. Link'
    BY <2>1, <2>2, <2>3 DEF Link, NoCrc, ResetConfig
  <2> QED
    BY <2>4, <2>5 DEF RegInv
<1>4. CASE UNCHANGED vars
  BY <1>4, <1>a DEF vars, chip, call, transfer, RegInv, Answered, RegisterMoves, Understands,
     InitSteps, Link, NoCrc, Understood
<1> QED
  BY <1>1, <1>2, <1>3, <1>4, StepActions, PhaseRegInv, CallsRegInv, InitStepRegInv DEF Next

\* A register access that ended before its tries ran out did what it says, and
\* one given up reads as zero (wf_spi.c:170-209, 223-277).
THEOREM RegistersAgree == Spec => []RegInv
BY RegInvInit, RegInvStep, CallsTyped, PTL DEF Spec

\* Once nm_spi_init has found the chip, neither side uses the CRC and the packet
\* size is set, whichever of its five transfers were given up: the chip's
\* identity cannot be read otherwise (wf_spi.c:137-168, 344-361).
THEOREM HostAndChipAgree == Spec => []InitAgrees
<1>1. RegInv => InitAgrees
  BY DEF RegInv, Link, InitAgrees, NoCrc
<1> QED
  BY <1>1, RegistersAgree, PTL

-----------------------------------------------------------------------------

(* Blocks: the invariant BlockInv.                                         *)

\* Byte k of the block is where the call is to move it.
InPlace(k) ==
  /\ xfer.kind = "read_block" => buf[k] = start + k
  /\ xfer.kind = "write_block" => mem[start + k] = k

\* The transfers before this one are in place, but for those given up ...
Before ==
  \A k \in Offset : k < offset /\ TransferOf(k) \notin gaveUp => InPlace(k)

\* ... the first n bytes of this one are ...
Moved(n) ==
  \A k \in Offset : offset <= k /\ k < offset + n /\ k < offset + Chunk => InPlace(k)

\* ... n being what was moved in this try, if the chip still listens ...
Moving ==
  /\ phase = "data_read" => Moved(ix)
  /\ phase \in {"data_write", "data_rsp"} /\ heard => Moved(ix)
  /\ phase = "ended" /\ retry > 0 => Moved(Chunk)

\* ... and only the block is written.
Beside ==
  \A a \in DOMAIN mem : mem[a] \in {Old, a - start} \/ (a = start + size /\ Chunk = 1)

BlockInv == Before /\ Moving /\ Beside

\* Nothing has been moved.
LEMMA BlockInvInit == Init => BlockInv
<1> SUFFICES ASSUME Init PROVE BlockInv
  OBVIOUS
<1>1. Before
  BY DEF Init, Before, Offset, Address
<1>2. Moving /\ Beside
  BY DEF Init, Moving, Beside
<1> QED
  BY <1>1, <1>2 DEF BlockInv

\* What the proofs below use of CallInv.
LEMMA Typed ==
  ASSUME CallInv
  PROVE  /\ MemSize \in Nat \ {0} /\ MaxTransfer \in Nat \ {0}
         /\ DATA_PKT_SZ \in Nat /\ DATA_PKT_SZ >= 4
         /\ start \in Nat /\ size \in Nat /\ offset \in Nat /\ offset <= size
         /\ start + size <= MemSize /\ Chunk \in Nat /\ offset + Chunk <= size
         /\ sz \in Nat /\ ix \in Nat /\ ix <= sz /\ Packet \in Nat /\ Packet <= sz - ix
         /\ task \in Blocks => Chunk <= sz
         /\ mem \in [0 .. MemSize -> Offset \cup {Old, Stray}]
         /\ buf \in [Offset -> 0 .. MemSize \cup {Old, Stray}]
         /\ xfer.kind \in {"read_block", "write_block"} <=> task \in Blocks
<1>0. ChipOK /\ TaskOK /\ BufOK /\ TransferOK /\ Shape /\ Placement /\ Tries
  BY CallInvParts
<1>1. /\ MemSize \in Nat \ {0} /\ MaxTransfer \in Nat \ {0}
      /\ DATA_PKT_SZ \in Nat /\ DATA_PKT_SZ >= 4
      /\ start \in Nat /\ size \in Nat /\ offset \in Nat /\ offset <= size
      /\ start + size <= MemSize /\ sz \in Nat /\ ix \in Nat /\ ix <= sz
  BY <1>0, SizesAssumption DEF TaskOK, TransferOK, Placement, Address
<1>2. Packet \in Nat /\ Packet <= sz - ix
  BY <1>1 DEF Packet, Min
<1>3. CASE task \in Blocks
  BY <1>0, <1>1, <1>2, <1>3, ChunkInBlock DEF ChipOK, BufOK, Shape, ReadBlocks, WriteBlocks, Blocks
<1>4. CASE task \notin Blocks
  <2>1. Chunk = 0
    BY <1>0, <1>4 DEF Chunk, Placement, Blocks
  <2> QED
    BY <1>0, <1>1, <1>2, <1>4, <2>1 DEF ChipOK, BufOK, Shape, ReadBlocks, WriteBlocks, Blocks
<1> QED
  BY <1>3, <1>4

\* The bytes of the transfer under way are its own.
LEMMA OwnTransfer ==
  ASSUME CallInv, task \in Blocks, NEW k \in Nat, offset <= k, k < offset + Chunk
  PROVE  TransferOf(k) = offset
<1>0. Placement
  BY DEF CallInv
<1>t. offset \in Nat /\ Chunk \in Nat /\ MaxTransfer \in Nat \ {0}
  BY Typed
<1>1. CASE task \in Cut
  <2>1. PICK q \in Nat : offset = q * MaxTransfer
    BY <1>0, <1>1 DEF Placement, Aligned
  <2>2. Chunk <= MaxTransfer
    BY <1>1, ChunkInBlock
  <2> DEFINE r == k - offset
  <2>3. r \in 0 .. MaxTransfer - 1 /\ k = offset + r
    BY <1>t, <2>2
  <2>4. k = (q * MaxTransfer) + r
    BY <2>1, <2>3
  <2> HIDE DEF r
  <2>5. k \div MaxTransfer = q
    BY <1>t, <2>3, <2>4, DivUnique
  <2> QED
    BY <1>1, <2>1, <2>5 DEF TransferOf, Cut
<1>2. CASE task \notin Cut
  BY <1>0, <1>2 DEF Placement, TransferOf, Cut
<1> QED
  BY <1>1, <1>2

\* A step that keeps the call keeps what depends on it alone.
LEMMA CallKept ==
  ASSUME UNCHANGED call
  PROVE  /\ UNCHANGED <<task, start, size, offset>>
         /\ Chunk' = Chunk
         /\ \A k : TransferOf(k)' = TransferOf(k)
BY DEF call, Chunk, TransferSize, TransferOf

\* The steps of a transfer keep BlockInv: a packet extends what this try has
\* moved and touches nothing else, a reset begins again from nothing.
LEMMA PhaseBlockInv == CallInv /\ BlockInv /\ PhaseStep => BlockInv'
<1> SUFFICES ASSUME CallInv, BlockInv, PhaseStep PROVE BlockInv'
  OBVIOUS
<1>0. ChipOK /\ TaskOK /\ BufOK /\ TransferOK /\ Shape /\ Placement /\ Tries
  BY CallInvParts
<1>a. Before /\ Moving /\ Beside
  BY DEF BlockInv
<1>b. UNCHANGED call /\ xfer' = xfer /\ sz' = sz
  BY PhaseStepKeepsCall
<1>c. /\ start' = start /\ size' = size /\ offset' = offset /\ Chunk' = Chunk
      /\ \A k : TransferOf(k)' = TransferOf(k)
  BY <1>b, CallKept
<1>t. /\ start \in Nat /\ size \in Nat /\ offset \in Nat /\ offset <= size
      /\ start + size <= MemSize /\ Chunk \in Nat /\ offset + Chunk <= size
      /\ sz \in Nat /\ ix \in Nat /\ ix <= sz /\ Packet \in Nat /\ Packet <= sz - ix
      /\ MemSize \in Nat /\ DATA_PKT_SZ \in Nat /\ DATA_PKT_SZ >= 4
      /\ task \in Blocks => Chunk <= sz
      /\ mem \in [0 .. MemSize -> Offset \cup {Old, Stray}]
      /\ buf \in [Offset -> 0 .. MemSize \cup {Old, Stray}]
      /\ xfer.kind \in {"read_block", "write_block"} <=> task \in Blocks
  BY Typed
<1>1. ASSUME mem' = mem, buf' = buf, gaveUp \subseteq gaveUp'
      PROVE  Before' /\ Beside'
  BY <1>1, <1>a, <1>b, <1>c DEF Before, Beside, InPlace
<1>2. CASE spi_cmd \/ spi_cmd_rsp
  <2>1. mem' = mem /\ buf' = buf /\ gaveUp' = gaveUp
    BY <1>2 DEF spi_cmd, spi_cmd_rsp, chip
  <2>2. phase' \in {"data_read", "data_write", "data_rsp"} => ix' = 0
    BY <1>0, <1>2 DEF spi_cmd, spi_cmd_rsp, Tries
  <2>3. phase' = "ended" => xfer.kind = "write_reg"
    BY <1>2 DEF spi_cmd, spi_cmd_rsp
  <2>4. Moving'
    BY <1>b, <1>c, <1>t, <2>2, <2>3 DEF Moving, Moved, InPlace, Offset, Address
  <2> QED
    BY <1>1, <2>1, <2>4 DEF BlockInv
<1>3. CASE spi_data_read
  <2>0. phase = "data_read" /\ mem' = mem /\ gaveUp' = gaveUp /\ Moved(ix)
    BY <1>3, <1>a DEF spi_data_read, chip, Moving
  <2>1. xfer.kind \in {"read_reg", "read_block"}
    BY <1>0, <2>0 DEF Shape
  <2>2. Beside'
    BY <1>a, <1>c, <2>0 DEF Beside
  <2>3. CASE xfer.kind = "read_reg"
    <3>1. buf' = buf
      BY <1>3, <2>3 DEF spi_data_read
    <3>2. Moving'
      BY <1>b, <2>3 DEF Moving, Moved, InPlace
    <3> QED
      BY <1>1, <2>0, <3>1, <3>2 DEF BlockInv
  <2>4. CASE xfer.kind = "read_block" /\ phase' = "reset"
    <3>1. buf' = buf \/ buf' = [buf EXCEPT ![offset] = Stray]
      BY <1>3, <2>4, <2>0 DEF spi_data_read
    <3>2. Before'
      BY <1>a, <1>b, <1>c, <1>t, <2>0, <2>4, <3>1 DEF Before, InPlace, Offset, Address
    <3>3. Moving'
      BY <2>4 DEF Moving
    <3> QED
      BY <2>2, <3>2, <3>3 DEF BlockInv
  <2>5. CASE xfer.kind = "read_block" /\ phase' # "reset"
    <3>1. /\ ix' = ix + Packet /\ buf' = Read
          /\ phase' = IF ix' = sz THEN "ended" ELSE "data_read"
      BY <1>3, <2>5, <2>0 DEF spi_data_read
    <3>2. ASSUME NEW k \in Offset
          PROVE  buf'[k] = IF offset + ix <= k /\ k < offset + ix + Packet /\ k < offset + Chunk
                             THEN start + k ELSE buf[k]
      <4>1. Min(ix + Packet, Chunk) \in Nat
            /\ (\A j \in Nat : j < Min(ix + Packet, Chunk) <=> j < ix + Packet /\ j < Chunk)
        BY <1>t DEF Min
      <4>2. k \in offset + ix .. offset + Min(ix + Packet, Chunk) - 1
            <=> offset + ix <= k /\ k < offset + ix + Packet /\ k < offset + Chunk
        BY <1>t, <4>1 DEF Offset, Address, Min
      <4> QED
        BY <3>1, <4>2 DEF Read
    <3>3. Before'
      BY <1>a, <1>b, <1>c, <1>t, <2>0, <2>5, <3>2 DEF Before, InPlace, Offset, Address
    <3>4. ASSUME NEW k \in Offset, offset <= k, k < offset + ix', k < offset + Chunk
          PROVE  buf'[k] = start + k
      BY <1>t, <2>0, <2>5, <3>1, <3>2, <3>4 DEF Moved, InPlace, Offset, Address
    <3>5. Chunk <= sz
      BY <1>t, <2>5
    <3>6. Moving'
      BY <1>b, <1>c, <1>t, <2>5, <3>1, <3>4, <3>5 DEF Moving, Moved, InPlace, Offset, Address
    <3> QED
      BY <2>2, <3>3, <3>6 DEF BlockInv
  <2> QED
    BY <2>1, <2>3, <2>4, <2>5
<1>4. CASE spi_data_write
  <2>0. /\ phase = "data_write" /\ buf' = buf /\ gaveUp' = gaveUp /\ ix' = ix + Packet
        /\ phase' \in {"data_write", "data_rsp"}
    BY <1>4 DEF spi_data_write
  <2>1. xfer.kind = "write_block" /\ task \in Blocks
    BY <1>0, <1>t, <2>0 DEF Shape
  <2>2. CASE ~heard'
    <3>1. mem' = mem
      BY <1>4, <2>2 DEF spi_data_write
    <3>2. Moving'
      BY <2>0, <2>2 DEF Moving
    <3> QED
      BY <1>1, <2>0, <3>1, <3>2 DEF BlockInv
  <2>3. CASE heard'
    <3>1. heard /\ Moved(ix)
      BY <1>4, <1>a, <2>0, <2>3 DEF spi_data_write, Moving
    <3>2. DOMAIN mem = 0 .. MemSize /\ DOMAIN mem' = 0 .. MemSize
      BY <1>4, <1>t, <2>3 DEF spi_data_write
    <3>3. ASSUME NEW a \in 0 .. MemSize
          PROVE  mem'[a] = IF /\ start + offset + ix <= a
                              /\ a < start + offset + ix + Packet
                             THEN IF a - start < size THEN a - start ELSE Stray
                             ELSE mem[a]
      <4>1. a - start \in offset + ix .. offset + ix + Packet - 1
            <=> start + offset + ix <= a /\ a < start + offset + ix + Packet
        BY <1>t
      <4> QED
        BY <1>4, <2>3, <3>2, <4>1 DEF spi_data_write
    <3>4. ASSUME NEW k \in Offset, k < offset + Chunk
          PROVE  /\ start + k \in 0 .. MemSize
                 /\ k < offset + ix => mem'[start + k] = mem[start + k]
                 /\ offset + ix <= k /\ k < offset + ix + Packet => mem'[start + k] = k
      BY <1>t, <3>3, <3>4 DEF Offset, Address
    <3>5. Before'
      BY <1>a, <1>b, <1>c, <1>t, <2>0, <2>1, <3>4 DEF Before, InPlace, Offset, Address
    <3>6. ASSUME NEW k \in Offset, offset <= k, k < offset + ix', k < offset + Chunk
          PROVE  mem'[start + k] = k
      BY <1>t, <2>0, <2>1, <3>1, <3>4, <3>6 DEF Moved, InPlace, Offset, Address
    <3>7. Moving'
      BY <1>b, <1>c, <2>0, <2>1, <3>6 DEF Moving, Moved, InPlace
    <3>8. ASSUME NEW a \in 0 .. MemSize
          PROVE  mem'[a] \in {Old, a - start} \/ (a = start + size /\ Chunk = 1)
      <4>1. sz = (IF Chunk = 1 THEN 2 ELSE Chunk) /\ (Chunk = 1 => offset + 1 = size)
        BY <1>0, <2>1, ChunkInBlock DEF Placement
      <4>2. CASE start + offset + ix <= a /\ a < start + offset + ix + Packet /\ a - start >= size
        BY <1>t, <4>1, <4>2
      <4> QED
        BY <1>a, <1>t, <3>2, <3>3, <4>2 DEF Beside
    <3>9. Beside'
      BY <1>c, <3>2, <3>8 DEF Beside
    <3> QED
      BY <3>5, <3>7, <3>9 DEF BlockInv
  <2> QED
    BY <2>2, <2>3
<1>5. CASE spi_data_rsp
  <2>1. mem' = mem /\ buf' = buf /\ gaveUp' = gaveUp /\ phase = "data_rsp"
        /\ phase' \in {"ended", "reset"} /\ (phase' = "ended" => heard)
    BY <1>5 DEF spi_data_rsp, chip
  <2>2. task \in Blocks /\ ix = sz
    BY <1>0, <1>t, <2>1 DEF Shape, Tries
  <2>3. phase' = "ended" => Moved(ix)
    BY <1>a, <2>1 DEF Moving
  <2>4. Moving'
    BY <1>b, <1>c, <1>t, <2>1, <2>2, <2>3 DEF Moving, Moved, InPlace, Offset, Address
  <2> QED
    BY <1>1, <2>1, <2>4 DEF BlockInv
<1>6. CASE nm_spi_reset
  <2>1. mem' = mem /\ buf' = buf /\ gaveUp \subseteq gaveUp'
        /\ phase' \in {"command", "ended"} /\ (phase' = "ended" => ~(retry' > 0))
    BY <1>6 DEF nm_spi_reset
  <2>2. Moving'
    BY <2>1 DEF Moving
  <2> QED
    BY <1>1, <2>1, <2>2 DEF BlockInv
<1> QED
  BY <1>2, <1>3, <1>4, <1>5, <1>6 DEF PhaseStep

\* A transfer that has just begun has moved nothing.
LEMMA FreshBlock ==
  ASSUME phase' = "command", offset' = 0, \A a \in DOMAIN mem' : mem'[a] \in {Old, a - start'}
  PROVE  BlockInv'
BY DEF BlockInv, Before, Moving, Beside, Offset, Address

\* Between block transfers the memory is as it was.
LEMMA NothingWritten ==
  ASSUME CallInv, BlockInv, task \notin Blocks
  PROVE  start = 0 /\ offset = 0 /\ \A a \in DOMAIN mem : mem[a] \in {Old, a - start}
<1>1. start = 0 /\ offset = 0 /\ Chunk = 0
  BY DEF CallInv, Placement, Chunk, Blocks
<1> QED
  BY <1>1 DEF BlockInv, Beside

\* A call begins with BlockInv.
LEMMA CallsBlockInv == CallInv /\ BlockInv /\ Calls => BlockInv'
<1> SUFFICES ASSUME CallInv, BlockInv, Calls PROVE BlockInv'
  OBVIOUS
<1>1. task = "none" /\ task \notin Blocks
  BY DEF Calls, nm_spi_init, nm_spi_deinit, nm_read_reg, nm_write_reg, nm_read_block,
     nm_write_block, spi_read_block, spi_write_block, Block, Begin, Blocks
<1>2. start = 0 /\ offset = 0 /\ \A a \in DOMAIN mem : mem[a] \in {Old, a - start}
  BY <1>1, NothingWritten
<1>3. CASE nm_spi_init \/ nm_read_reg \/ \E value \in {Zero, {"a"}} : nm_write_reg(value)
  <2>1. phase' = "command" /\ mem' = mem /\ start' = start /\ offset' = offset
    BY <1>3 DEF nm_spi_init, nm_read_reg, nm_write_reg, Transfer
  <2> QED
    BY <1>2, <2>1, FreshBlock
<1>4. ASSUME NEW range \in Ranges,
             \/ nm_read_block(range[1], range[2]) \/ nm_write_block(range[1], range[2])
             \/ spi_read_block(range[1], range[2]) \/ spi_write_block(range[1], range[2])
      PROVE  BlockInv'
  <2>1. phase' = "command" /\ offset' = 0 /\ mem' = [x \in DOMAIN mem |-> Old]
    BY <1>4 DEF nm_read_block, nm_write_block, spi_read_block, spi_write_block, Block, Transfer
  <2> QED
    BY <2>1, FreshBlock
<1>5. CASE nm_spi_deinit
  <2>1. UNCHANGED <<chip, task, start, size, offset, transfer, buf>>
    BY <1>5 DEF nm_spi_deinit
  <2> QED
    BY <2>1 DEF chip, transfer, BlockInv, Before, Moving, Moved, Beside, InPlace, TransferOf,
       Chunk, TransferSize
<1> QED
  BY <1>3, <1>4, <1>5 DEF Calls

\* A call that returned has nothing under way.
LEMMA DoneBlockInv == Done => BlockInv'
BY DEF Done, BlockInv, Before, Moving, Beside, Offset, Address

\* Every byte up to the end of the transfer is in its place.
LEMMA EndedInPlace ==
  ASSUME CallInv, BlockInv, phase = "ended",
         NEW k \in Offset, k < offset + Chunk, TransferOf(k) \notin gaveUp
  PROVE  InPlace(k)
<1>t. /\ offset \in Nat /\ Chunk \in Nat /\ k \in Nat
      /\ xfer.kind \in {"read_block", "write_block"} <=> task \in Blocks
  BY Typed DEF Offset, Address
<1>1. CASE k < offset
  BY <1>1 DEF BlockInv, Before
<1>2. CASE offset <= k /\ task \in Blocks
  <2>1. TransferOf(k) = offset
    BY <1>t, <1>2, OwnTransfer
  <2>2. retry > 0
    BY <2>1, SizesAssumption DEF CallInv, Tries, TypeOK
  <2> QED
    BY <1>2, <1>t, <2>2 DEF BlockInv, Moving, Moved
<1>3. CASE task \notin Blocks
  BY <1>t, <1>3 DEF InPlace
<1> QED
  BY <1>t, <1>1, <1>2, <1>3

\* The next transfer finds this one in place or given up; this one was not of a
\* single byte, so nothing beside the block was written.
LEMMA NextTransferBlockInv == CallInv /\ BlockInv /\ NextTransfer => BlockInv'
<1> SUFFICES ASSUME CallInv, BlockInv, NextTransfer PROVE BlockInv'
  OBVIOUS
<1>1. CASE Done
  BY <1>1, DoneBlockInv
<1>2. CASE ~Done
  <2>1. /\ phase = "ended" /\ task \in Blocks
        /\ offset + Chunk < size /\ offset' = offset + Chunk
        /\ xfer'.kind = xfer.kind /\ phase' = "command"
        /\ mem' = mem /\ UNCHANGED <<task, start, size, gaveUp, buf>>
    BY <1>2 DEF NextTransfer, Transfer, chip
  <2>2. Chunk # 1
    BY <2>1, ChunkInBlock, Typed
  <2>3. Before'
    BY <2>1, EndedInPlace DEF Before, InPlace, TransferOf
  <2>4. Moving'
    BY <2>1 DEF Moving
  <2>5. Beside'
    BY <2>1, <2>2 DEF BlockInv, Beside
  <2> QED
    BY <2>3, <2>4, <2>5 DEF BlockInv
<1> QED
  BY <1>1, <1>2

\* BlockInv is inductive, given CallInv.
LEMMA BlockInvStep == CallInv /\ BlockInv /\ [Next]_vars => BlockInv'
<1> SUFFICES ASSUME CallInv, BlockInv, [Next]_vars PROVE BlockInv'
  OBVIOUS
<1>1. CASE RegisterDone
  BY <1>1, DoneBlockInv DEF RegisterDone
<1>2. CASE InitStep
  <2>1. task \notin Blocks
    BY <1>2 DEF InitStep, Blocks
  <2>2. Done \/ (phase' = "command" /\ mem' = mem /\ start' = start /\ offset' = offset)
    BY <1>2 DEF InitStep, InitTransfer, Transfer, chip
  <2> QED
    BY <2>1, <2>2, NothingWritten, FreshBlock, DoneBlockInv
<1>3. CASE ChipReset \/ UNCHANGED vars
  <2>1. mem' = mem /\ heard' = heard /\ UNCHANGED <<task, start, size, offset, transfer, buf>>
    BY <1>3 DEF ChipReset, vars, chip, call
  <2> QED
    BY <2>1 DEF transfer, BlockInv, Before, Moving, Moved, Beside, InPlace, TransferOf,
       Chunk, TransferSize
<1> QED
  BY <1>1, <1>2, <1>3, StepActions, PhaseBlockInv, CallsBlockInv, NextTransferBlockInv DEF Next

\* At every moment of a block call, every byte moved so far is in its place but
\* for the transfers given up, and nothing beside the block is written except
\* after a last transfer of a single byte (wf_spi.c:279-342, 605-858).
THEOREM BlocksArrive == Spec => []BlockInv
BY BlockInvInit, BlockInvStep, CallsTyped, PTL DEF Spec

\* The three invariants at the end of a transfer.
LEMMA EndedTransfer == CallInv /\ RegInv /\ BlockInv => TransfersDone
<1> SUFFICES ASSUME CallInv, RegInv, BlockInv, phase = "ended" PROVE TransfersDone
  BY DEF TransfersDone
<1>1. ASSUME NEW k \in 0 .. size - 1, k < offset + Chunk, TransferOf(k) \notin gaveUp
      PROVE  InPlace(k)
  <2>1. k \in Offset
    BY Typed DEF Offset, Address
  <2> QED
    BY <1>1, <2>1, EndedInPlace
<1>2. Beside
  BY DEF BlockInv
<1>3. /\ xfer.kind = "read_reg" => reg = IF retry = 0 THEN Zero ELSE regs[xfer.reg]
      /\ xfer.kind = "write_reg" /\ retry > 0 => regs[xfer.reg] = xfer.value
  BY DEF RegInv, RegisterMoves
<1> QED
  BY <1>1, <1>2, <1>3 DEF TransfersDone, InPlace, Beside

\* When a transfer ends, the block up to its end is in place, whatever was lost
\* and repeated on the way, but for the transfers given up; nothing is written
\* beside the block but the second byte of a single one; a register read that
\* was given up returns zero, a write that was not is done
\* (wf_spi.c:223-342, 605-858).
THEOREM TransfersAreDone == Spec => []TransfersDone
BY EndedTransfer, CallsTyped, RegistersAgree, BlocksArrive, PTL
=============================================================================
