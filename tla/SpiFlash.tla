------------------------------ MODULE SpiFlash ------------------------------
(***************************************************************************)
(* src/src/wf_spi_flash.c: reading, programming and erasing the WINC1500's *)
(* flash through its DMA registers and the memory it shares with the host. *)
(*                                                                         *)
(* An action is one flash command: the register writes that prepare it and *)
(* the poll of SPI_FLASH_TR_DONE that ends it.  The flash goes on after a  *)
(* program or an erase command, which FlashFinishes ends, and the code     *)
(* polls the status register for it.  The register and block functions     *)
(* beneath return no error, so that ret is M2M_SUCCESS throughout and the  *)
(* error exits of spi_flash_pp and of the loops are never taken.           *)
(*                                                                         *)
(* An address is a page and a byte in it, the parts u32Offset % u32Blksz   *)
(* takes apart.  A byte is known by where it comes from: its place in the  *)
(* caller's buffer when written, its address in the flash when read.       *)
(***************************************************************************)
EXTENDS Integers

CONSTANTS
  PageSize,        \* FLASH_PAGE_SZ
  PagesPerSector,  \* the 16 of spi_flash_erase
  Pages,           \* the flash
  BlockSize,       \* FLASH_BLOCK_SIZE
  IntoSector,      \* the 10 of spi_flash_erase
  MaxSize,         \* bound: the longest call
  ErasePages,      \* where erases start: pages ...
  EraseBytes       \* ... and bytes in them

ASSUME SizesAssumption ==
  /\ PageSize \in Nat \ {0} /\ PagesPerSector \in Nat \ {0}
  /\ Pages \in Nat \ {0} /\ MaxSize \in Nat
  /\ BlockSize \in Nat /\ BlockSize >= PageSize
  /\ IntoSector \in 0 .. PageSize - 1
  /\ ErasePages \subseteq 0 .. Pages - 1 /\ EraseBytes \subseteq 0 .. PageSize - 1

VARIABLES
  flash,       \* [page -> [byte -> content]]
  wel, busy,   \* the flash's status: write enable latch, operation going on
  asleep,      \* the flash is in its low-power mode
  shared,      \* HOST_SHARE_MEM
  buffer,      \* the caller's buffer of a read
  dummy,       \* what DUMMY_REGISTER holds
  flashSize,   \* gu32InernalFlashSize
  pc,          \* the next command of the call
  op, from, size,  \* the call: function, u32Offset, u32Sz as given
  at, left     \* u32Offset and u32Sz as they advance

device == <<flash, wel, busy, asleep>>
call == <<op, from, size>>
vars == <<device, shared, buffer, dummy, flashSize, pc, call, at, left>>

Page == 0 .. Pages - 1
Byte == 0 .. PageSize - 1
Address == [page : Page, byte : Byte]
Start == [page |-> 0, byte |-> 0]

Erased == -1
Other == -2       \* neither erased nor of this call
Content == {Erased, Other} \cup 0 .. MaxSize - 1

Min(a, b) == IF a <= b THEN a ELSE b

Plus(a, n) ==
  [page |-> a.page + (a.byte + n) \div PageSize, byte |-> (a.byte + n) % PageSize]
Linear(a) == a.page * PageSize + a.byte
FlashEnd == Pages * PageSize
SectorSize == PagesPerSector * PageSize

TypeOK ==
  /\ flash \in [Page -> [Byte -> Content]]
  /\ wel \in BOOLEAN /\ busy \in BOOLEAN /\ asleep \in BOOLEAN
  /\ shared \in [0 .. BlockSize - 1 -> Content \cup 0 .. FlashEnd - 1]
  /\ buffer \in [0 .. MaxSize - 1 -> Content \cup 0 .. FlashEnd - 1]
  /\ dummy \in {"none", "status", "id"}
  /\ flashSize \in {"unknown", "detected", "garbage"}
  /\ pc \in {"idle", "write_enable", "write_block", "page_program", "pp_poll",
             "write_disable", "load", "read_block", "erase_enable",
             "sector_erase", "erase_poll", "return"}
  /\ op \in {"none", "write", "read", "erase"}
  /\ from \in Address /\ size \in 0 .. MaxSize /\ left \in 0 .. size
  /\ at \in [page : Nat, byte : Byte]

Init ==
  /\ flash = [p \in Page |-> [b \in Byte |-> Erased]]
  /\ wel = FALSE /\ busy = FALSE /\ asleep = FALSE
  /\ shared = [k \in 0 .. BlockSize - 1 |-> Other]
  /\ buffer = [k \in 0 .. MaxSize - 1 |-> Other]
  /\ dummy = "none" /\ flashSize = "unknown"
  /\ pc = "idle" /\ op = "none" /\ from = Start /\ size = 0
  /\ at = Start /\ left = 0
-----------------------------------------------------------------------------
(* The flash device.                                                       *)

FlashFinishes ==
  /\ busy
  /\ busy' = FALSE /\ wel' = FALSE
  /\ UNCHANGED <<flash, asleep, shared, buffer, dummy, flashSize, pc, call, at, left>>

\* A program runs on inside its page, from the end to the beginning.
Programmed(a, n) ==
  [flash EXCEPT ![a.page] = [b \in Byte |->
     LET k == (b + PageSize - a.byte) % PageSize IN
     IF k < n THEN IF @[b] = Erased THEN shared[k] ELSE Other ELSE @[b]]]

SectorErased(a) ==
  [p \in Page |-> IF p \div PagesPerSector = a.page \div PagesPerSector
                    THEN [b \in Byte |-> Erased] ELSE flash[p]]

Obeys == wel /\ ~busy
-----------------------------------------------------------------------------
(* The calls.  A call's range lies inside the flash.                       *)

Begin(name, a, n) ==
  /\ pc = "idle" /\ ~asleep
  /\ Linear(a) + n <= FlashEnd
  /\ op' = name /\ from' = a /\ size' = n
  /\ at' = a /\ left' = n
  /\ flash' = [p \in Page |-> [b \in Byte |->
                 IF flash[p][b] = Erased THEN Erased ELSE Other]]
  /\ shared' = [k \in DOMAIN shared |-> Other]
  /\ buffer' = [k \in DOMAIN buffer |-> Other]
  /\ UNCHANGED <<wel, busy, asleep, dummy, flashSize>>

Return ==
  /\ pc = "return"
  /\ pc' = "idle" /\ op' = "none" /\ from' = Start /\ size' = 0
  /\ at' = Start /\ left' = 0
  /\ UNCHANGED <<device, shared, buffer, dummy, flashSize>>

\* A size of zero is refused.
spi_flash_write(a, n) ==
  /\ n > 0
  /\ Begin("write", a, n)
  /\ pc' = "write_enable"

spi_flash_read(a, n) ==
  /\ Begin("read", a, n)
  /\ pc' = "load"

spi_flash_erase(a, n) ==
  /\ n > 0
  /\ Begin("erase", a, n)
  /\ pc' = "erase_enable"

\* Mutant of Advance: goes on until exactly nothing is left.
Advance_UntilEqual(a, n, again) ==
  /\ at' = a /\ left' = left - n
  /\ pc' = IF left # n THEN again ELSE "return"
  /\ UNCHANGED call

\* Mutant of Advance: goes on when nothing is left.
Advance_AtLeast(a, n, again) ==
  /\ at' = a /\ left' = IF left > n THEN left - n ELSE 0
  /\ pc' = IF left >= n THEN again ELSE "return"
  /\ UNCHANGED call

\* n bytes further, at address a: on to the next chunk, or done.
Advance(a, n, again) ==
  /\ at' = a /\ left' = IF left > n THEN left - n ELSE 0
  /\ pc' = IF left > n THEN again ELSE "return"
  /\ UNCHANGED call
-----------------------------------------------------------------------------
(* The commands of a write: spi_flash_pp for every chunk.                  *)

\* Mutant of Chunk: the first part is a page long as well.
Chunk_WholePage == Min(left, PageSize)

\* What spi_flash_write gives spi_flash_pp: up to the page's end when it
\* starts inside a page, then whole pages, then the rest.
Chunk ==
  IF left = size /\ at.byte # 0
    THEN Min(left, PageSize - at.byte)
    ELSE Min(left, PageSize)

spi_flash_write_enable ==
  /\ pc \in {"write_enable", "erase_enable"}
  /\ wel' = (wel \/ ~busy)
  /\ pc' = IF pc = "write_enable" THEN "write_block" ELSE "sector_erase"
  /\ UNCHANGED <<flash, busy, asleep, shared, buffer, dummy, flashSize, call, at, left>>

\* nm_write_block, of the chunk at p_buf.
WriteBlock ==
  /\ pc = "write_block"
  /\ shared' = [k \in DOMAIN shared |->
       IF k < Chunk THEN size - left + k ELSE shared[k]]
  /\ pc' = "page_program"
  /\ UNCHANGED <<device, buffer, dummy, flashSize, call, at, left>>

spi_flash_page_program ==
  /\ pc = "page_program"
  /\ IF Obeys THEN flash' = Programmed(at, Chunk) /\ busy' = TRUE
              ELSE UNCHANGED <<flash, busy>>
  /\ pc' = "pp_poll"
  /\ UNCHANGED <<wel, asleep, shared, buffer, dummy, flashSize, call, at, left>>

NextSector == [at EXCEPT !.page = @ + PagesPerSector]

\* Mutant of StatusPoll: the status is read but not waited for.
StatusPoll_Once ==
  /\ pc \in {"pp_poll", "erase_poll"}
  /\ dummy' = "status"
  /\ IF pc = "pp_poll" THEN pc' = "write_disable" /\ UNCHANGED <<call, at, left>>
     ELSE Advance(NextSector, SectorSize, "erase_enable")
  /\ UNCHANGED <<device, shared, buffer, flashSize>>

\* spi_flash_read_status_reg until the flash is no longer busy.
StatusPoll ==
  /\ pc \in {"pp_poll", "erase_poll"}
  /\ dummy' = "status"
  /\ IF busy THEN UNCHANGED <<pc, call, at, left>>
     ELSE IF pc = "pp_poll" THEN pc' = "write_disable" /\ UNCHANGED <<call, at, left>>
     ELSE Advance(NextSector, SectorSize, "erase_enable")
  /\ UNCHANGED <<device, shared, buffer, flashSize>>

spi_flash_write_disable ==
  /\ pc = "write_disable"
  /\ wel' = FALSE
  /\ Advance(Plus(at, Chunk), Chunk, "write_enable")
  /\ UNCHANGED <<flash, busy, asleep, shared, buffer, dummy, flashSize>>
-----------------------------------------------------------------------------
(* The commands of an erase and of a read.                                 *)

spi_flash_sector_erase ==
  /\ pc = "sector_erase"
  /\ IF Obeys
       THEN flash' = SectorErased(Plus(at, IntoSector)) /\ busy' = TRUE
       ELSE UNCHANGED <<flash, busy>>
  /\ pc' = "erase_poll"
  /\ UNCHANGED <<wel, asleep, shared, buffer, dummy, flashSize, call, at, left>>

spi_flash_load_to_cortus_mem ==
  /\ pc = "load"
  /\ shared' = [k \in DOMAIN shared |->
       IF k < Min(left, BlockSize) THEN Linear(at) + k ELSE shared[k]]
  /\ pc' = "read_block"
  /\ UNCHANGED <<device, buffer, dummy, flashSize, call, at, left>>

\* nm_read_block, to where p_buf has come.
ReadBlock ==
  /\ pc = "read_block"
  /\ buffer' = [k \in DOMAIN buffer |->
       IF k \in size - left .. size - left + Min(left, BlockSize) - 1
         THEN shared[k - (size - left)] ELSE buffer[k]]
  /\ Advance(Plus(at, Min(left, BlockSize)), Min(left, BlockSize), "load")
  /\ UNCHANGED <<device, shared, dummy, flashSize>>
-----------------------------------------------------------------------------
(* Size and power.                                                         *)

\* After 500 polls without an answer DUMMY_REGISTER is read all the same.
spi_flash_rdid == dummy' = "id" \/ UNCHANGED dummy

\* The size is asked for once: whatever was read is kept, but for 0xffffffff.
spi_flash_get_size ==
  /\ pc = "idle" /\ ~asleep
  /\ flashSize = "unknown"
  /\ spi_flash_rdid
  /\ flashSize' \in (IF dummy' = "id" THEN {"detected"} ELSE {"garbage", "unknown"})
  /\ UNCHANGED <<device, shared, buffer, pc, call, at, left>>

spi_flash_enter_low_power_mode == asleep' = TRUE

spi_flash_leave_low_power_mode == asleep' = FALSE

spi_flash_enable(enable) ==
  /\ pc = "idle"
  /\ IF enable THEN spi_flash_leave_low_power_mode
               ELSE spi_flash_enter_low_power_mode
  /\ UNCHANGED <<flash, wel, busy, shared, buffer, dummy, flashSize, pc, call, at, left>>

Calls ==
  \/ \E a \in Address, n \in 0 .. MaxSize :
       spi_flash_write(a, n) \/ spi_flash_read(a, n)
  \/ \E p \in ErasePages, b \in EraseBytes, n \in 0 .. MaxSize :
       spi_flash_erase([page |-> p, byte |-> b], n)
  \/ spi_flash_get_size
  \/ \E enable \in BOOLEAN : spi_flash_enable(enable)

spi_flash_pp ==
  \/ spi_flash_write_enable \/ WriteBlock \/ spi_flash_page_program
  \/ StatusPoll \/ spi_flash_write_disable

Commands ==
  \/ spi_flash_pp \/ spi_flash_sector_erase
  \/ spi_flash_load_to_cortus_mem \/ ReadBlock \/ Return

Next == Calls \/ Commands \/ FlashFinishes

Spec == Init /\ [][Next]_vars

\* The superloop is inside the call, and the flash finishes what it began.
FairSpec == Spec /\ WF_vars(Commands) /\ WF_vars(FlashFinishes)
-----------------------------------------------------------------------------
(* Properties.                                                             *)

\* No program command runs over the end of its page, where the device would
\* go on at the page's beginning, wherever a write starts and however long it
\* is (wf_spi_flash.c:246-272, 612).
ProgramInPage ==
  pc = "page_program" => at.byte + Chunk <= PageSize

\* The bytes done: a write's count when the flash is programming them.
Done ==
  IF pc \in {"pp_poll", "write_disable"} THEN size - left + Chunk
  ELSE IF pc = "erase_poll" THEN size - left + Min(left, SectorSize)
  ELSE size - left

Flat == INSTANCE FlatFlash WITH
  Size <- FlashEnd, atRest <- ~busy /\ ~wel,
  cells <- [a \in 0 .. FlashEnd - 1 |-> flash[a \div PageSize][a % PageSize]],
  got <- buffer, start <- Linear(from), length <- size, done <- Done

\* Page split, shared memory, write enable and status polls amount to writes
\* and erases of a flat memory: exactly the call's range is written with the
\* caller's bytes, exactly its sectors are erased, exactly its bytes are read,
\* nothing else changes, the device is at rest between calls, and a call
\* returns only when that is done (wf_spi_flash.c:189-327).
FlatSpec == Flat!Spec

\* Every call returns (wf_spi_flash.c:313-317, 621-625).
CallsReturn == pc # "idle" ~> pc = "idle"

=============================================================================
