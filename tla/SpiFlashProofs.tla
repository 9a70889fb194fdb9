--------------------------- MODULE SpiFlashProofs ---------------------------
(***************************************************************************)
(* Theorems about SpiFlash for every geometry of the flash and every call. *)
(* The inductive invariant IInv adds to the types that a write stands at   *)
(* the start of a page once its first part is done, that a read stays      *)
(* inside the flash, and that the shared memory holds the chunk when it is *)
(* programmed.  FInv adds where driver and device are to each other, and   *)
(* Sectors what an erase leaves behind; with them every step of SpiFlash   *)
(* is a step of FlatFlash.                                                 *)
(***************************************************************************)
EXTENDS SpiFlash, TLAPS

WritePCs == {"write_enable", "write_block", "page_program", "pp_poll", "write_disable"}

AtPageStart == pc \in WritePCs => left > 0 /\ (left = size \/ at.byte = 0)

ReadInFlash == pc \in {"load", "read_block"} => Linear(at) + left <= FlashEnd

ChunkLoaded == pc = "page_program" => \A k \in 0 .. Chunk - 1 : shared[k] \in Content

IInv == TypeOK /\ AtPageStart /\ ReadInFlash /\ ChunkLoaded

USE SizesAssumption

\* A quotient is a natural number, a remainder is below the divisor.
LEMMA ModRange ==
  ASSUME NEW s \in Nat \ {0}, NEW a \in Nat
  PROVE  a % s \in 0 .. s - 1 /\ a \div s \in Nat
BY SMT

\* A divisor leaves nothing of itself.
LEMMA ModSelf == ASSUME NEW s \in Nat \ {0} PROVE s % s = 0
BY SMT

\* Quotient and remainder give the number back.
LEMMA DivMod ==
  ASSUME NEW s \in Nat \ {0}, NEW a \in Nat
  PROVE  ((a \div s) * s) + (a % s) = a
BY SMT

\* A product of a sum, spelled out: the solver does not see it by itself.
LEMMA Distribute ==
  ASSUME NEW p \in Nat, NEW q \in Nat, NEW s \in Nat
  PROVE  (p + q) * s = (p * s) + (q * s)
BY SMT

\* Plus goes n bytes on in the linear address.
LEMMA PlusIsLinear ==
  ASSUME NEW a \in [page : Nat, byte : Byte], NEW n \in Nat
  PROVE  /\ Plus(a, n) \in [page : Nat, byte : Byte]
         /\ Linear(Plus(a, n)) = Linear(a) + n
<1> DEFINE q == (a.byte + n) \div PageSize
           r == (a.byte + n) % PageSize
<1>1. a.page \in Nat /\ a.byte \in Nat /\ a.byte + n \in Nat
  BY DEF Byte
<1>2. q \in Nat /\ r \in Byte
  BY <1>1, ModRange DEF Byte
<1>3. Plus(a, n) = [page |-> a.page + q, byte |-> r]
  BY DEF Plus
<1>4. (q * PageSize) + r = a.byte + n
  BY <1>1, DivMod
<1>5. (a.page + q) * PageSize = (a.page * PageSize) + (q * PageSize)
  BY <1>1, <1>2, Distribute
<1>6. a.page * PageSize \in Nat /\ q * PageSize \in Nat /\ r \in Nat
  BY <1>1, <1>2, SMT DEF Byte
<1> HIDE DEF q, r
<1>7. Plus(a, n).page = a.page + q /\ Plus(a, n).byte = r
  BY <1>3
<1>8. Linear(Plus(a, n)) = Linear(a) + n
  BY <1>1, <1>4, <1>5, <1>6, <1>7 DEF Linear
<1> QED
  BY <1>1, <1>2, <1>3, <1>8

\* A chunk is part of what is left and lies in its page.
LEMMA ChunkInPage ==
  ASSUME TypeOK, AtPageStart, pc \in WritePCs
  PROVE  /\ Chunk \in 1 .. left
         /\ Chunk <= PageSize
         /\ at.byte + Chunk <= PageSize
         /\ left > Chunk => at.byte + Chunk = PageSize
<1>1. at.byte \in 0 .. PageSize - 1 /\ left \in Nat /\ left > 0
  BY DEF TypeOK, AtPageStart, Byte
<1> QED
  BY <1>1 DEF AtPageStart, Chunk, Min

\* Advance keeps the types of the call, and goes on only when something is left.
LEMMA AdvanceTyped ==
  ASSUME TypeOK, NEW a \in [page : Nat, byte : Byte], NEW n \in Nat, NEW again, Advance(a, n, again)
  PROVE  /\ op' = op /\ from' = from /\ size' = size
         /\ at' = a /\ left' \in 0 .. left
         /\ pc' = "return" \/ (pc' = again /\ left > n /\ left' = left - n)
BY DEF TypeOK, Advance, call

\* The invariant holds before the first call.
LEMMA InitIInv == Init => IInv
<1> SUFFICES ASSUME Init PROVE IInv
  OBVIOUS
<1>1. Start \in Address
  BY DEF Start, Address, Page, Byte
<1>2. Erased \in Content /\ Other \in Content /\ Start \in [page : Nat, byte : Byte]
  BY DEF Content, Start, Byte
<1>3. /\ flash \in [Page -> [Byte -> Content]]
      /\ shared \in [0 .. BlockSize - 1 -> Content \cup 0 .. FlashEnd - 1]
      /\ buffer \in [0 .. MaxSize - 1 -> Content \cup 0 .. FlashEnd - 1]
  BY <1>2 DEF Init
<1>4. /\ wel \in BOOLEAN /\ busy \in BOOLEAN /\ asleep \in BOOLEAN
      /\ from \in Address /\ size \in 0 .. MaxSize /\ left \in 0 .. size
      /\ at \in [page : Nat, byte : Byte]
  BY <1>1, <1>2, 0 \in 0 .. MaxSize, 0 \in 0 .. 0 DEF Init
<1>5. TypeOK
  BY <1>3, <1>4 DEF Init, TypeOK
<1> QED
  BY <1>5 DEF Init, IInv, AtPageStart, ReadInFlash, ChunkLoaded, WritePCs

\* A call begins with all of it left.
LEMMA BeginStep ==
  ASSUME IInv, NEW name \in {"write", "read", "erase"}, NEW a \in Address, NEW n \in 0 .. MaxSize,
         Begin(name, a, n), pc' \in {"write_enable", "load", "erase_enable"},
         pc' = "write_enable" => n > 0
  PROVE  IInv'
<1>1. a \in [page : Nat, byte : Byte]
  BY DEF Address, Page
<1>2. /\ op' = name /\ from' = a /\ size' = n /\ at' = a /\ left' = n
      /\ UNCHANGED <<wel, busy, asleep, dummy, flashSize>>
      /\ Linear(a) + n <= FlashEnd
  BY DEF Begin
<1>3. /\ flash' \in [Page -> [Byte -> Content]]
      /\ shared' \in [0 .. BlockSize - 1 -> Content \cup 0 .. FlashEnd - 1]
      /\ buffer' \in [0 .. MaxSize - 1 -> Content \cup 0 .. FlashEnd - 1]
  BY DEF Begin, IInv, TypeOK, Content
<1>4. TypeOK'
  BY <1>1, <1>2, <1>3 DEF IInv, TypeOK
<1>5. AtPageStart' /\ ReadInFlash' /\ ChunkLoaded'
  BY <1>2 DEF AtPageStart, ReadInFlash, ChunkLoaded, WritePCs, Linear
<1> QED
  BY <1>4, <1>5 DEF IInv

\* A new call keeps the invariant (wf_spi_flash.c:189-327).
LEMMA CallsStep == IInv /\ Calls => IInv'
<1> SUFFICES ASSUME IInv, Calls PROVE IInv'
  OBVIOUS
<1>1. ASSUME NEW a \in Address, NEW n \in 0 .. MaxSize, spi_flash_write(a, n) PROVE IInv'
  BY <1>1, BeginStep DEF spi_flash_write
<1>2. ASSUME NEW a \in Address, NEW n \in 0 .. MaxSize, spi_flash_read(a, n) PROVE IInv'
  BY <1>2, BeginStep DEF spi_flash_read
<1>3. ASSUME NEW p \in ErasePages, NEW b \in EraseBytes, NEW n \in 0 .. MaxSize,
             spi_flash_erase([page |-> p, byte |-> b], n)
      PROVE  IInv'
  <2>1. [page |-> p, byte |-> b] \in Address
    BY DEF Address, Page, Byte
  <2> QED
    BY <1>3, <2>1, BeginStep DEF spi_flash_erase
<1>4. CASE spi_flash_get_size
  BY <1>4 DEF spi_flash_get_size, spi_flash_rdid, IInv, TypeOK, AtPageStart, ReadInFlash,
              ChunkLoaded, Chunk, Linear, device, call
<1>5. CASE \E enable \in BOOLEAN : spi_flash_enable(enable)
  BY <1>5 DEF spi_flash_enable, spi_flash_enter_low_power_mode, spi_flash_leave_low_power_mode,
              IInv, TypeOK, AtPageStart, ReadInFlash, ChunkLoaded, Chunk, Linear, call
<1> QED
  BY <1>1, <1>2, <1>3, <1>4, <1>5 DEF Calls

\* The polls, of a write and of an erase.
LEMMA StatusPollStep == IInv /\ StatusPoll => IInv'
<1> SUFFICES ASSUME IInv, StatusPoll PROVE IInv'
  OBVIOUS
<1>a. TypeOK /\ AtPageStart /\ ReadInFlash /\ ChunkLoaded
  BY DEF IInv
<1>1. /\ pc \in {"pp_poll", "erase_poll"} /\ dummy' = "status"
      /\ UNCHANGED <<flash, wel, busy, asleep, shared, buffer, flashSize>>
  BY DEF StatusPoll, device
<1>2. CASE UNCHANGED <<pc, op, from, size, at, left>>
  BY <1>a, <1>1, <1>2 DEF IInv, TypeOK, AtPageStart, ReadInFlash, ChunkLoaded, WritePCs
<1>3. CASE pc = "pp_poll" /\ pc' = "write_disable" /\ UNCHANGED <<op, from, size, at, left>>
  BY <1>a, <1>1, <1>3 DEF IInv, TypeOK, AtPageStart, ReadInFlash, ChunkLoaded, WritePCs
<1>4. CASE Advance(NextSector, SectorSize, "erase_enable")
  <2>1. at \in [page : Nat, byte : Byte] /\ NextSector \in [page : Nat, byte : Byte]
    BY <1>a DEF TypeOK, NextSector
  <2>2. SectorSize \in Nat
    BY SMT DEF SectorSize
  <2>3. /\ op' = op /\ from' = from /\ size' = size /\ at' = NextSector /\ left' \in 0 .. left
        /\ pc' \in {"return", "erase_enable"}
    BY <1>a, <1>4, <2>1, <2>2, AdvanceTyped
  <2>4. left' \in 0 .. size
    BY <1>a, <2>3 DEF TypeOK
  <2>5. TypeOK'
    BY <1>a, <1>1, <2>1, <2>3, <2>4 DEF TypeOK
  <2> QED
    BY <2>3, <2>5 DEF IInv, AtPageStart, ReadInFlash, ChunkLoaded, WritePCs
<1> QED
  BY <1>2, <1>3, <1>4 DEF StatusPoll, call

\* The commands of a write.
LEMMA ProgramStep == IInv /\ spi_flash_pp => IInv'
<1> SUFFICES ASSUME IInv, spi_flash_pp PROVE IInv'
  OBVIOUS
<1>a. TypeOK /\ AtPageStart /\ ReadInFlash /\ ChunkLoaded
  BY DEF IInv
<1>1. CASE spi_flash_write_enable
  BY <1>1 DEF spi_flash_write_enable, IInv, TypeOK, AtPageStart, ReadInFlash, ChunkLoaded,
              WritePCs, Linear, call
<1>2. CASE WriteBlock
  <2>1. /\ pc = "write_block" /\ pc' = "page_program"
        /\ UNCHANGED <<flash, wel, busy, asleep, buffer, dummy, flashSize, op, from, size, at, left>>
        /\ shared' = [k \in DOMAIN shared |-> IF k < Chunk THEN size - left + k ELSE shared[k]]
    BY <1>2 DEF WriteBlock, device, call
  <2>2. Chunk \in 1 .. left /\ Chunk <= PageSize /\ Chunk' = Chunk
    BY <1>a, <2>1, ChunkInPage DEF WritePCs, Chunk
  <2>3. size \in 0 .. MaxSize /\ left \in 0 .. size
        /\ shared \in [0 .. BlockSize - 1 -> Content \cup 0 .. FlashEnd - 1]
    BY <1>a DEF TypeOK
  <2>4. \A k \in 0 .. Chunk - 1 : size - left + k \in Content
    BY <2>2, <2>3 DEF Content
  <2>5. shared' \in [0 .. BlockSize - 1 -> Content \cup 0 .. FlashEnd - 1]
    <3>1. \A k \in 0 .. BlockSize - 1 : k < Chunk => k \in 0 .. Chunk - 1
      BY <2>2
    <3> HIDE DEF Chunk, Content, FlashEnd
    <3> QED
      BY <2>1, <2>3, <2>4, <3>1, Zenon
  <2>6. \A k \in 0 .. Chunk - 1 : shared'[k] \in Content
    <3> SUFFICES ASSUME NEW k \in 0 .. Chunk - 1 PROVE shared'[k] \in Content
      OBVIOUS
    <3>1. k \in 0 .. BlockSize - 1 /\ k < Chunk
      BY <2>2
    <3>2. k \in DOMAIN shared
      BY <2>3, <3>1
    <3> QED
      BY <2>1, <2>4, <3>1, <3>2
  <2>7. TypeOK'
    BY <1>a, <2>1, <2>5 DEF TypeOK
  <2> QED
    BY <1>a, <2>1, <2>2, <2>6, <2>7 DEF IInv, AtPageStart, ReadInFlash, ChunkLoaded, WritePCs
<1>3. CASE spi_flash_page_program
  <2>1. /\ pc = "page_program" /\ pc' = "pp_poll"
        /\ UNCHANGED <<wel, asleep, shared, buffer, dummy, flashSize, op, from, size, at, left>>
        /\ flash' = Programmed(at, Chunk) \/ flash' = flash
        /\ busy' \in BOOLEAN
    BY <1>a, <1>3 DEF spi_flash_page_program, call, TypeOK
  <2>2. \A k \in 0 .. PageSize - 1 : k < Chunk => shared[k] \in Content
    BY <1>a, <2>1, ChunkInPage DEF ChunkLoaded, WritePCs
  <2>3. at.byte \in 0 .. PageSize - 1 /\ flash \in [Page -> [Byte -> Content]]
    BY <1>a DEF TypeOK, Byte
  <2>4. \A b \in Byte : (b + PageSize - at.byte) % PageSize \in 0 .. PageSize - 1
    <3> TAKE b \in Byte
    <3>1. b + PageSize - at.byte \in Nat
      BY <2>3 DEF Byte
    <3> QED
      BY <3>1, ModRange
  <2>5. Programmed(at, Chunk) \in [Page -> [Byte -> Content]]
    <3> DEFINE K(b) == (b + PageSize - at.byte) % PageSize
               new == [b \in Byte |-> IF K(b) < Chunk
                         THEN IF flash[at.page][b] = Erased THEN shared[K(b)] ELSE Other
                         ELSE flash[at.page][b]]
    <3>1. Programmed(at, Chunk) = [flash EXCEPT ![at.page] = new]
      BY DEF Programmed
    <3>2. \A b \in Byte : K(b) \in 0 .. PageSize - 1
      BY <2>4
    <3>3. Other \in Content
      BY DEF Content
    <3> HIDE DEF K
    <3>4. at.page \in Page => new \in [Byte -> Content]
      BY <2>2, <2>3, <3>2, <3>3
    <3> HIDE DEF new
    <3> QED
      BY <2>3, <3>1, <3>4
  <2>6. flash' \in [Page -> [Byte -> Content]]
    BY <2>1, <2>3, <2>5
  <2>7. TypeOK'
    BY <1>a, <2>1, <2>6 DEF TypeOK
  <2> QED
    BY <1>a, <2>1, <2>7 DEF IInv, AtPageStart, ReadInFlash, ChunkLoaded, WritePCs
<1>4. CASE StatusPoll
  BY <1>4, StatusPollStep
<1>5. CASE spi_flash_write_disable
  <2>1. /\ pc = "write_disable" /\ Advance(Plus(at, Chunk), Chunk, "write_enable")
        /\ wel' = FALSE /\ UNCHANGED <<flash, busy, asleep, shared, buffer, dummy, flashSize>>
    BY <1>5 DEF spi_flash_write_disable
  <2>2. Chunk \in Nat /\ at \in [page : Nat, byte : Byte]
        /\ (left > Chunk => at.byte + Chunk = PageSize)
    BY <1>a, <2>1, ChunkInPage DEF WritePCs, TypeOK
  <2>3. Plus(at, Chunk) \in [page : Nat, byte : Byte]
    BY <2>2, PlusIsLinear
  <2>4. left > Chunk => Plus(at, Chunk).byte = 0
    BY <2>2, ModSelf DEF Plus
  <2>5. /\ op' = op /\ from' = from /\ size' = size /\ at' = Plus(at, Chunk) /\ left' \in 0 .. left
        /\ pc' = "return" \/ (pc' = "write_enable" /\ left > Chunk /\ left' = left - Chunk)
    BY <1>a, <2>1, <2>2, <2>3, AdvanceTyped
  <2>6. left \in Nat /\ size \in Nat
    BY <1>a DEF TypeOK
  <2>7. AtPageStart' /\ ReadInFlash' /\ ChunkLoaded'
    BY <2>2, <2>4, <2>5, <2>6 DEF AtPageStart, ReadInFlash, ChunkLoaded, WritePCs
  <2>8. left' \in 0 .. size
    BY <1>a, <2>5 DEF TypeOK
  <2>9. TypeOK'
    BY <1>a, <2>1, <2>3, <2>5, <2>8 DEF TypeOK
  <2> QED
    BY <2>7, <2>9 DEF IInv
<1> QED
  BY <1>1, <1>2, <1>3, <1>4, <1>5 DEF spi_flash_pp

\* The commands of an erase and of a read.
LEMMA CommandsStep == IInv /\ Commands => IInv'
<1> SUFFICES ASSUME IInv, Commands PROVE IInv'
  OBVIOUS
<1>a. TypeOK /\ AtPageStart /\ ReadInFlash /\ ChunkLoaded
  BY DEF IInv
<1>1. CASE spi_flash_pp
  BY <1>1, ProgramStep
<1>2. CASE spi_flash_sector_erase
  <2>1. SectorErased(Plus(at, IntoSector)) \in [Page -> [Byte -> Content]]
    BY <1>a DEF SectorErased, TypeOK, Content
  <2>2. TypeOK'
    BY <1>a, <1>2, <2>1 DEF spi_flash_sector_erase, TypeOK, call
  <2> QED
    BY <1>2, <2>2 DEF spi_flash_sector_erase, IInv, AtPageStart, ReadInFlash, ChunkLoaded, WritePCs
<1>3. CASE spi_flash_load_to_cortus_mem
  <2>1. /\ pc = "load" /\ pc' = "read_block"
        /\ UNCHANGED <<device, buffer, dummy, flashSize, call, at, left>>
        /\ shared' = [k \in DOMAIN shared |->
             IF k < Min(left, BlockSize) THEN Linear(at) + k ELSE shared[k]]
    BY <1>3 DEF spi_flash_load_to_cortus_mem
  <2>2. Linear(at) \in Nat /\ left \in Nat /\ Linear(at) + left <= FlashEnd
    <3>1. at.page \in Nat /\ at.byte \in Nat /\ left \in Nat
      BY <1>a DEF TypeOK, Byte
    <3>2. at.page * PageSize \in Nat
      BY <3>1, SMT
    <3> QED
      BY <1>a, <2>1, <3>1, <3>2 DEF Linear, ReadInFlash
  <2>3. FlashEnd \in Nat
    BY SMT DEF FlashEnd
  <2>4. \A k \in 0 .. BlockSize - 1 : k < Min(left, BlockSize) => Linear(at) + k \in 0 .. FlashEnd - 1
    BY <2>2, <2>3 DEF Min
  <2>5. shared' \in [0 .. BlockSize - 1 -> Content \cup 0 .. FlashEnd - 1]
    <3>1. shared \in [0 .. BlockSize - 1 -> Content \cup 0 .. FlashEnd - 1]
      BY <1>a DEF TypeOK
    <3> HIDE DEF Content, FlashEnd
    <3> QED
      BY <2>1, <2>4, <3>1, Zenon
  <2>6. TypeOK'
    BY <1>a, <2>1, <2>5 DEF TypeOK, device, call
  <2> QED
    BY <1>a, <2>1, <2>6 DEF IInv, AtPageStart, ReadInFlash, ChunkLoaded, WritePCs, Linear, device, call
<1>4. CASE ReadBlock
  <2> DEFINE n == Min(left, BlockSize)
             done == size - left
  <2>1. /\ pc = "read_block" /\ Advance(Plus(at, n), n, "load")
        /\ UNCHANGED <<device, shared, dummy, flashSize>>
        /\ buffer' = [k \in DOMAIN buffer |->
             IF k \in done .. done + n - 1 THEN shared[k - done] ELSE buffer[k]]
    BY <1>4 DEF ReadBlock
  <2>2. left \in Nat /\ size \in Nat /\ left <= size /\ n \in Nat /\ n <= left /\ n <= BlockSize /\ done \in Nat
        /\ at \in [page : Nat, byte : Byte]
    BY <1>a DEF TypeOK, Min
  <2>3. \A k \in done .. done + n - 1 : k - done \in 0 .. BlockSize - 1
    BY <2>2
  <2> HIDE DEF n, done
  <2>4. buffer' \in [0 .. MaxSize - 1 -> Content \cup 0 .. FlashEnd - 1]
    <3>1. /\ shared \in [0 .. BlockSize - 1 -> Content \cup 0 .. FlashEnd - 1]
          /\ buffer \in [0 .. MaxSize - 1 -> Content \cup 0 .. FlashEnd - 1]
      BY <1>a DEF TypeOK
    <3> HIDE DEF Content, FlashEnd
    <3> QED
      BY <2>1, <2>3, <3>1, Zenon
  <2>5. Plus(at, n) \in [page : Nat, byte : Byte] /\ Linear(Plus(at, n)) = Linear(at) + n
    BY <2>2, PlusIsLinear
  <2>6. /\ op' = op /\ from' = from /\ size' = size /\ at' = Plus(at, n) /\ left' \in 0 .. left
        /\ pc' = "return" \/ (pc' = "load" /\ left > n /\ left' = left - n)
    BY <1>a, <2>1, <2>2, <2>5, AdvanceTyped
  <2>7. ReadInFlash'
    <3>1. Linear(at) \in Int /\ FlashEnd \in Int
      <4>1. at.page \in Nat /\ at.byte \in Nat
        BY <2>2 DEF Byte
      <4>2. at.page * PageSize \in Nat /\ Pages * PageSize \in Nat
        BY <4>1, SMT
      <4> QED
        BY <4>1, <4>2 DEF Linear, FlashEnd
    <3>2. Linear(at) + left <= FlashEnd
      BY <1>a, <2>1 DEF ReadInFlash
    <3>3. Linear(at)' = Linear(Plus(at, n))
      BY <2>6 DEF Linear
    <3> HIDE DEF FlashEnd
    <3>4. pc' = "load" => Linear(at)' + left' <= FlashEnd
      BY <2>2, <2>5, <2>6, <3>1, <3>2, <3>3
    <3> QED
      BY <2>6, <3>4 DEF ReadInFlash
  <2>8. AtPageStart' /\ ChunkLoaded'
    BY <2>6 DEF AtPageStart, ChunkLoaded, WritePCs
  <2>9. left' \in 0 .. size
    BY <2>2, <2>6
  <2>10. TypeOK'
    BY <1>a, <2>1, <2>4, <2>5, <2>6, <2>9 DEF TypeOK, device
  <2> QED
    BY <2>7, <2>8, <2>10 DEF IInv
<1>5. CASE Return
  <2>1. Start \in Address /\ Start \in [page : Nat, byte : Byte] /\ 0 \in 0 .. MaxSize /\ 0 \in 0 .. 0
    BY DEF Start, Address, Page, Byte
  <2>2. TypeOK'
    BY <1>a, <1>5, <2>1 DEF Return, TypeOK, device
  <2> QED
    BY <1>5, <2>2 DEF Return, IInv, AtPageStart, ReadInFlash, ChunkLoaded, WritePCs
<1> QED
  BY <1>1, <1>2, <1>3, <1>4, <1>5 DEF Commands

\* Every step keeps the invariant.
LEMMA NextStep == IInv /\ [Next]_vars => IInv'
<1> SUFFICES ASSUME IInv, [Next]_vars PROVE IInv'
  OBVIOUS
<1>1. CASE FlashFinishes
  <2>1. /\ UNCHANGED <<flash, asleep, shared, buffer, dummy, flashSize, pc, op, from, size, at, left>>
        /\ busy' = FALSE /\ wel' = FALSE
    BY <1>1 DEF FlashFinishes, call
  <2>2. TypeOK'
    BY <2>1 DEF IInv, TypeOK
  <2>3. Chunk' = Chunk /\ Linear(at)' = Linear(at)
    BY <2>1 DEF Chunk, Linear
  <2> QED
    BY <2>1, <2>2, <2>3 DEF IInv, AtPageStart, ReadInFlash, ChunkLoaded
<1>2. CASE UNCHANGED vars
  BY <1>2 DEF vars, IInv, TypeOK, AtPageStart, ReadInFlash, ChunkLoaded, Chunk, Linear, device, call
<1> QED
  BY <1>1, <1>2, CallsStep, CommandsStep DEF Next

\* The inductive invariant holds throughout.
THEOREM Invariant == Spec => []IInv
<1> QED
  BY InitIInv, NextStep, PTL DEF Spec

\* Whatever is written, read or erased, every variable keeps its type: no
\* byte is programmed or returned from outside the buffers, and addresses and
\* counts stay in range (wf_spi_flash.c:189-327).
THEOREM TypeCorrect == Spec => []TypeOK
<1>1. IInv => TypeOK
  BY DEF IInv
<1> QED
  BY <1>1, Invariant, PTL

\* For every page size, start and length, a program command stays inside its
\* page (wf_spi_flash.c:246-272, 612).
THEOREM SplitAtPages == Spec => []ProgramInPage
<1>1. IInv => ProgramInPage
  BY ChunkInPage DEF IInv, ProgramInPage, WritePCs
<1> QED
  BY <1>1, Invariant, PTL
-----------------------------------------------------------------------------
(* SpiFlash implements FlatFlash: the invariant the refinement needs.       *)

ReadPCs == {"load", "read_block"}
ErasePCs == {"erase_enable", "sector_erase", "erase_poll"}

\* The device is open for writing from write enable to the end of the command
\* that follows, and works only while its status is polled.
DeviceState ==
  /\ busy => wel /\ pc \in {"pp_poll", "erase_poll"}
  /\ wel => busy \/ pc \in {"write_block", "page_program", "sector_erase"}
  /\ pc \in {"write_block", "page_program", "sector_erase"} => wel

\* The command belongs to the call, and the address is as far in the call's
\* range as the bytes done.
CallState ==
  /\ op = "none" <=> pc = "idle"
  /\ pc \in WritePCs => op = "write"
  /\ pc \in ReadPCs => op = "read"
  /\ pc \in ErasePCs => op = "erase" /\ left > 0
  /\ pc = "return" => left = 0
  /\ pc = "idle" => left = 0 /\ size = 0 /\ from = Start
  /\ Linear(from) + size <= FlashEnd
  /\ pc \in WritePCs \cup ReadPCs \cup ErasePCs =>
       Linear(at) = Linear(from) + (size - left)

\* The shared memory holds the bytes of the chunk, in their order.
Loaded ==
  /\ pc = "page_program" => \A k \in 0 .. Chunk - 1 : shared[k] = size - left + k
  /\ pc = "read_block" =>
       \A k \in 0 .. Min(left, BlockSize) - 1 : shared[k] = Linear(at) + k

FInv == DeviceState /\ CallState /\ Loaded

\* A linear address is a natural number.
LEMMA LinearTyped ==
  ASSUME NEW a \in [page : Nat, byte : Byte]
  PROVE  Linear(a) \in Nat
<1>1. a.page \in Nat /\ a.byte \in Nat
  BY DEF Byte
<1>2. a.page * PageSize \in Nat
  BY <1>1, SMT
<1> QED
  BY <1>1, <1>2 DEF Linear

\* So are the sizes of the flash and of a sector, which is not empty.
LEMMA SizesTyped == FlashEnd \in Nat /\ SectorSize \in Nat \ {0}
BY SMT DEF FlashEnd, SectorSize

\* The first address is at 0, and every address has a page and a byte.
LEMMA StartTyped ==
  /\ Start \in Address /\ Start \in [page : Nat, byte : Byte] /\ Linear(Start) = 0
  /\ \A a \in Address : a \in [page : Nat, byte : Byte]
<1>1. 0 * PageSize = 0
  BY SMT
<1> QED
  BY <1>1 DEF Start, Address, Page, Byte, Linear

\* What Advance decides.
LEMMA AdvanceExact ==
  ASSUME TypeOK, NEW a, NEW n \in Nat, NEW again, Advance(a, n, again)
  PROVE  /\ op' = op /\ from' = from /\ size' = size /\ at' = a
         /\ \/ left > n /\ left' = left - n /\ pc' = again
            \/ left <= n /\ left' = 0 /\ pc' = "return"
BY DEF TypeOK, Advance, call

\* One step of the erase loop goes one sector on, whatever the byte it is at.
LEMMA NextSectorIsLinear ==
  ASSUME TypeOK
  PROVE  /\ NextSector \in [page : Nat, byte : Byte]
         /\ Linear(NextSector) = Linear(at) + SectorSize
<1>1. at.page \in Nat /\ at.byte \in Byte /\ at \in [page : Nat, byte : Byte]
  BY DEF TypeOK
<1>2. NextSector \in [page : Nat, byte : Byte]
      /\ NextSector.page = at.page + PagesPerSector /\ NextSector.byte = at.byte
  BY <1>1 DEF NextSector
<1>3. (at.page + PagesPerSector) * PageSize = (at.page * PageSize) + (PagesPerSector * PageSize)
  BY <1>1, Distribute
<1>4. at.page * PageSize \in Nat /\ PagesPerSector * PageSize \in Nat /\ at.byte \in Nat
  BY <1>1, SMT DEF Byte
<1> QED
  BY <1>2, <1>3, <1>4 DEF Linear, SectorSize

\* The device is at rest before the first call.
LEMMA InitFInv == Init => FInv
<1> SUFFICES ASSUME Init PROVE FInv
  OBVIOUS
<1>1. Linear(from) + size <= FlashEnd
  BY StartTyped, SizesTyped DEF Init
<1> QED
  BY <1>1 DEF Init, FInv, DeviceState, CallState, Loaded, WritePCs, ReadPCs, ErasePCs

\* A call begins at its first byte, with the device at rest.
LEMMA BeginFInv ==
  ASSUME IInv, FInv, NEW name \in {"write", "read", "erase"}, NEW a \in Address,
         NEW n \in 0 .. MaxSize, Begin(name, a, n),
         pc' = IF name = "write" THEN "write_enable"
               ELSE IF name = "read" THEN "load" ELSE "erase_enable",
         name # "read" => n > 0
  PROVE  FInv'
<1>1. /\ op' = name /\ from' = a /\ size' = n /\ at' = a /\ left' = n
      /\ busy' = busy /\ wel' = wel /\ pc = "idle" /\ Linear(a) + n <= FlashEnd
  BY DEF Begin
<1>2. ~busy /\ ~wel
  BY <1>1 DEF FInv, DeviceState
<1>3. Linear(a) \in Nat /\ Linear(from)' = Linear(a) /\ Linear(at)' = Linear(a)
  BY <1>1, StartTyped, LinearTyped DEF Linear
<1>4. DeviceState'
  BY <1>1, <1>2 DEF DeviceState
<1>5. CallState'
  BY <1>1, <1>3 DEF CallState, WritePCs, ReadPCs, ErasePCs
<1>6. Loaded'
  BY DEF Loaded
<1> QED
  BY <1>4, <1>5, <1>6 DEF FInv

\* Every call begins with the device at rest and its address at the start.
LEMMA CallsFInv == IInv /\ FInv /\ Calls => FInv'
<1> SUFFICES ASSUME IInv, FInv, Calls PROVE FInv'
  OBVIOUS
<1>1. ASSUME NEW a \in Address, NEW n \in 0 .. MaxSize,
             spi_flash_write(a, n) \/ spi_flash_read(a, n)
      PROVE  FInv'
  BY <1>1, BeginFInv DEF spi_flash_write, spi_flash_read
<1>2. ASSUME NEW p \in ErasePages, NEW b \in EraseBytes, NEW n \in 0 .. MaxSize,
             spi_flash_erase([page |-> p, byte |-> b], n)
      PROVE  FInv'
  <2>1. [page |-> p, byte |-> b] \in Address
    BY DEF Address, Page, Byte
  <2> QED
    BY <1>2, <2>1, BeginFInv DEF spi_flash_erase
<1>3. CASE spi_flash_get_size \/ \E enable \in BOOLEAN : spi_flash_enable(enable)
  <2>1. UNCHANGED <<wel, busy, shared, pc, op, from, size, at, left>>
    BY <1>3 DEF spi_flash_get_size, spi_flash_enable, device, call
  <2> QED
    BY <2>1 DEF FInv, DeviceState, CallState, Loaded, Linear, Chunk
<1> QED
  BY <1>1, <1>2, <1>3 DEF Calls

\* A command that leaves the call where it is.
LEMMA SameCall ==
  ASSUME CallState, UNCHANGED <<op, from, size, at, left>>,
         \/ pc \in WritePCs /\ pc' \in WritePCs
         \/ pc \in ReadPCs /\ pc' \in ReadPCs
         \/ pc \in ErasePCs /\ pc' \in ErasePCs
  PROVE  CallState'
<1>1. Linear(from)' = Linear(from) /\ Linear(at)' = Linear(at)
  BY DEF Linear
<1> QED
  BY <1>1 DEF CallState, WritePCs, ReadPCs, ErasePCs

\* A command that ends a chunk of n bytes.
LEMMA NextChunk ==
  ASSUME TypeOK, CallState, NEW a \in [page : Nat, byte : Byte], NEW n \in Nat,
         Linear(a) = Linear(at) + n, NEW again, Advance(a, n, again),
         \/ pc \in WritePCs /\ again \in WritePCs
         \/ pc \in ReadPCs /\ again \in ReadPCs
         \/ pc \in ErasePCs /\ again \in ErasePCs
  PROVE  CallState'
<1>1. Linear(from)' = Linear(from) /\ Linear(at)' = Linear(a)
  BY AdvanceExact DEF Linear
<1>2. at \in [page : Nat, byte : Byte] /\ from \in [page : Nat, byte : Byte]
      /\ size \in Nat /\ left \in Nat
  BY StartTyped DEF TypeOK
<1>3. Linear(at) \in Nat /\ Linear(from) \in Nat
  BY <1>2, LinearTyped
<1>4. op # "none" /\ pc # "idle"
  BY DEF CallState, WritePCs, ReadPCs, ErasePCs
<1> QED
  BY <1>1, <1>2, <1>3, <1>4, AdvanceExact DEF CallState, WritePCs, ReadPCs, ErasePCs

\* Every command leaves the device as the next one needs it, and the address
\* as far in the range as the bytes done.
LEMMA CommandsFInv == IInv /\ FInv /\ Commands => FInv'
<1> SUFFICES ASSUME IInv, FInv, Commands PROVE FInv'
  OBVIOUS
<1>a. TypeOK /\ AtPageStart /\ DeviceState /\ CallState /\ Loaded
  BY DEF IInv, FInv
<1>b. at \in [page : Nat, byte : Byte] /\ left \in Nat /\ size \in Nat /\ left <= size
  BY <1>a DEF TypeOK
<1>1. CASE spi_flash_write_enable
  <2>1. CallState'
    BY <1>1, <1>a, SameCall DEF spi_flash_write_enable, call, WritePCs, ErasePCs
  <2>2. DeviceState' /\ Loaded'
    BY <1>1, <1>a DEF spi_flash_write_enable, DeviceState, Loaded
  <2> QED
    BY <2>1, <2>2 DEF FInv
<1>2. CASE WriteBlock
  <2>1. /\ pc = "write_block" /\ pc' = "page_program"
        /\ UNCHANGED <<wel, busy, op, from, size, at, left>>
        /\ shared' = [k \in DOMAIN shared |-> IF k < Chunk THEN size - left + k ELSE shared[k]]
    BY <1>2 DEF WriteBlock, device, call
  <2>2. Chunk \in 1 .. left /\ Chunk <= PageSize /\ Chunk' = Chunk
    BY <1>a, <2>1, ChunkInPage DEF WritePCs, Chunk
  <2>3. DOMAIN shared = 0 .. BlockSize - 1
    BY <1>a DEF TypeOK
  <2>4. \A k \in 0 .. Chunk - 1 : k \in DOMAIN shared /\ k < Chunk
    BY <2>2, <2>3
  <2>5. Loaded'
    BY <2>1, <2>2, <2>4 DEF Loaded
  <2>6. CallState'
    BY <1>a, <2>1, SameCall DEF WritePCs
  <2>7. DeviceState'
    BY <1>a, <2>1 DEF DeviceState
  <2> QED
    BY <2>5, <2>6, <2>7 DEF FInv
<1>3. CASE spi_flash_page_program \/ spi_flash_sector_erase
  <2>1. CallState'
    BY <1>3, <1>a, SameCall
       DEF spi_flash_page_program, spi_flash_sector_erase, call, WritePCs, ErasePCs
  <2>2. DeviceState' /\ Loaded'
    BY <1>3, <1>a DEF spi_flash_page_program, spi_flash_sector_erase, Obeys, DeviceState, Loaded
  <2> QED
    BY <2>1, <2>2 DEF FInv
<1>4. CASE StatusPoll
  <2>1. UNCHANGED <<wel, busy>> /\ pc \in {"pp_poll", "erase_poll"}
    BY <1>4 DEF StatusPoll, device
  <2>2. CASE busy
    <3>1. UNCHANGED <<pc, op, from, size, at, left>>
      BY <1>4, <2>2 DEF StatusPoll, call
    <3>2. CallState' /\ DeviceState'
      BY <1>a, <2>1, <3>1, SameCall DEF WritePCs, ErasePCs, DeviceState
    <3> QED
      BY <2>1, <3>1, <3>2 DEF FInv, Loaded
  <2>3. CASE ~busy /\ pc = "pp_poll"
    <3>1. pc' = "write_disable" /\ UNCHANGED <<op, from, size, at, left>>
      BY <1>4, <2>3 DEF StatusPoll, call
    <3>2. CallState' /\ DeviceState'
      BY <1>a, <2>1, <2>3, <3>1, SameCall DEF WritePCs, DeviceState
    <3> QED
      BY <3>1, <3>2 DEF FInv, Loaded
  <2>4. CASE ~busy /\ pc = "erase_poll"
    <3>1. Advance(NextSector, SectorSize, "erase_enable")
      BY <1>4, <2>4 DEF StatusPoll
    <3>2. CallState'
      BY <1>a, <2>4, <3>1, NextChunk, NextSectorIsLinear, SizesTyped DEF ErasePCs
    <3>3. pc' \in {"erase_enable", "return"}
      BY <1>a, <3>1, SizesTyped, AdvanceExact
    <3>4. DeviceState' /\ Loaded'
      BY <1>a, <2>1, <2>4, <3>3 DEF DeviceState, Loaded
    <3> QED
      BY <3>2, <3>4 DEF FInv
  <2> QED
    BY <2>1, <2>2, <2>3, <2>4
<1>5. CASE spi_flash_write_disable
  <2>1. /\ pc = "write_disable" /\ Advance(Plus(at, Chunk), Chunk, "write_enable")
        /\ wel' = FALSE /\ busy' = busy
    BY <1>5 DEF spi_flash_write_disable
  <2>2. Chunk \in Nat
    BY <1>a, <1>b, <2>1, ChunkInPage DEF WritePCs
  <2>3. CallState'
    BY <1>a, <1>b, <2>1, <2>2, NextChunk, PlusIsLinear DEF WritePCs
  <2>4. pc' \in {"write_enable", "return"}
    BY <1>a, <2>1, <2>2, AdvanceExact
  <2>5. DeviceState' /\ Loaded'
    BY <1>a, <2>1, <2>4 DEF DeviceState, Loaded
  <2> QED
    BY <2>3, <2>5 DEF FInv
<1>6. CASE spi_flash_load_to_cortus_mem
  <2>1. /\ pc = "load" /\ pc' = "read_block"
        /\ UNCHANGED <<wel, busy, op, from, size, at, left>>
        /\ shared' = [k \in DOMAIN shared |->
             IF k < Min(left, BlockSize) THEN Linear(at) + k ELSE shared[k]]
    BY <1>6 DEF spi_flash_load_to_cortus_mem, device, call
  <2>2. DOMAIN shared = 0 .. BlockSize - 1
    BY <1>a DEF TypeOK
  <2>3. \A k \in 0 .. Min(left, BlockSize) - 1 : k \in DOMAIN shared /\ k < Min(left, BlockSize)
    BY <1>b, <2>2 DEF Min
  <2>4. Linear(at)' = Linear(at) /\ Min(left, BlockSize)' = Min(left, BlockSize)
    BY <2>1 DEF Linear, Min
  <2>5. Loaded'
    BY <2>1, <2>3, <2>4 DEF Loaded
  <2>6. CallState'
    BY <1>a, <2>1, SameCall DEF ReadPCs
  <2>7. DeviceState'
    BY <1>a, <2>1 DEF DeviceState
  <2> QED
    BY <2>5, <2>6, <2>7 DEF FInv
<1>7. CASE ReadBlock
  <2> DEFINE n == Min(left, BlockSize)
  <2>1. pc = "read_block" /\ Advance(Plus(at, n), n, "load") /\ UNCHANGED <<wel, busy>>
    BY <1>7 DEF ReadBlock, device
  <2>2. n \in Nat
    BY <1>b DEF Min
  <2> HIDE DEF n
  <2>3. CallState'
    BY <1>a, <1>b, <2>1, <2>2, NextChunk, PlusIsLinear DEF ReadPCs
  <2>4. pc' \in {"load", "return"}
    BY <1>a, <2>1, <2>2, AdvanceExact
  <2>5. DeviceState' /\ Loaded'
    BY <1>a, <2>1, <2>4 DEF DeviceState, Loaded
  <2> QED
    BY <2>3, <2>5 DEF FInv
<1>8. CASE Return
  <2>1. /\ pc' = "idle" /\ op' = "none" /\ from' = Start /\ size' = 0 /\ left' = 0
        /\ UNCHANGED <<wel, busy>> /\ pc = "return"
    BY <1>8 DEF Return, device
  <2>2. Linear(from)' = 0
    BY <2>1, StartTyped DEF Linear
  <2>3. CallState'
    BY <2>1, <2>2, SizesTyped DEF CallState, WritePCs, ReadPCs, ErasePCs
  <2>4. DeviceState' /\ Loaded'
    BY <1>a, <2>1 DEF DeviceState, Loaded
  <2> QED
    BY <2>3, <2>4 DEF FInv
<1> QED
  BY <1>1, <1>2, <1>3, <1>4, <1>5, <1>6, <1>7, <1>8 DEF Commands, spi_flash_pp

\* Every step keeps the driver and the device together.
LEMMA NextFInv == IInv /\ FInv /\ [Next]_vars => FInv'
<1> SUFFICES ASSUME IInv, FInv, [Next]_vars PROVE FInv'
  OBVIOUS
<1>1. CASE FlashFinishes
  BY <1>1 DEF FlashFinishes, call, FInv, DeviceState, CallState, Loaded, Linear, Chunk
<1>2. CASE UNCHANGED vars
  BY <1>2 DEF vars, device, call, FInv, DeviceState, CallState, Loaded, Linear, Chunk
<1> QED
  BY <1>1, <1>2, CallsFInv, CommandsFInv DEF Next

\* The driver and the device stay together: a command is sent to a device
\* that is not working, a program or an erase only to one opened for writing,
\* the address is as far in the call's range as the bytes done, and the shared
\* memory holds the bytes of the chunk in their order (wf_spi_flash.c:96-327).
THEOREM DeviceFollowed == Spec => []FInv
BY InitFInv, NextFInv, Invariant, PTL DEF Spec
-----------------------------------------------------------------------------
(* Pages and sectors of a linear address.                                  *)

\* Products by the same factor are ordered as the other factors.
LEMMA MulMono ==
  ASSUME NEW s \in Nat, NEW p \in Nat, NEW q \in Nat
  PROVE  /\ p <= q => p * s <= q * s
         /\ p < q => (p * s) + s <= q * s
<1>1. ASSUME NEW d \in Nat PROVE (p + d) * s = (p * s) + (d * s) /\ d * s \in Nat
  BY SMT
<1>2. p * s \in Nat /\ 1 * s = s
  BY SMT
<1>3. p <= q => p * s <= q * s
  <2>1. p <= q => q - p \in Nat /\ q = p + (q - p)
    OBVIOUS
  <2> QED
    BY <1>1, <1>2, <2>1
<1>4. p < q => (p * s) + s <= q * s
  <2>1. p < q => q - (p + 1) \in Nat /\ q = (p + 1) + (q - (p + 1))
    OBVIOUS
  <2>2. ASSUME NEW d \in Nat PROVE ((p + 1) + d) * s = (p * s) + s + (d * s) /\ d * s \in Nat
    BY SMT
  <2> QED
    BY <1>2, <2>1, <2>2
<1> QED
  BY <1>3, <1>4

\* A number below q * s has a quotient by s below q.
LEMMA MulLess ==
  ASSUME NEW s \in Nat, NEW p \in Nat, NEW q \in Nat, NEW r \in Nat, (p * s) + r < q * s
  PROVE  p < q
<1>1. p * s \in Nat /\ q * s \in Nat
  BY SMT
<1>2. q <= p => q * s <= p * s
  BY MulMono
<1> QED
  BY <1>1, <1>2

\* Quotient and remainder are the only ones.
LEMMA DivUnique ==
  ASSUME NEW s \in Nat \ {0}, NEW q \in Nat, NEW r \in 0 .. s - 1
  PROVE  ((q * s) + r) \div s = q /\ ((q * s) + r) % s = r
BY SMT

\* The sector of an address is the sector of its page.
LEMMA NestedDiv ==
  ASSUME NEW s \in Nat \ {0}, NEW t \in Nat \ {0}, NEW a \in Nat
  PROVE  a \div (t * s) = (a \div s) \div t
<1> DEFINE q == a \div s
           r == a % s
           u == q \div t
           v == q % t
<1>1. q \in Nat /\ r \in 0 .. s - 1 /\ a = (q * s) + r
  BY ModRange, DivMod
<1>2. u \in Nat /\ v \in 0 .. t - 1 /\ q = (u * t) + v
  BY <1>1, ModRange, DivMod
<1> HIDE DEF q, r, u, v
<1>3. q * s = (u * (t * s)) + (v * s)
  <2>1. u * t \in Nat /\ ((u * t) + v) * s = ((u * t) * s) + (v * s)
    BY <1>2, Distribute, SMT
  <2>2. (u * t) * s = u * (t * s)
    BY <1>2, SMT
  <2> QED
    BY <1>2, <2>1, <2>2
<1>4. (v * s) + s <= t * s
  BY <1>2, MulMono
<1>5. t * s \in Nat \ {0} /\ v * s \in Nat /\ u * (t * s) \in Nat
  BY <1>2, SMT
<1>6. (v * s) + r \in 0 .. (t * s) - 1 /\ a = (u * (t * s)) + ((v * s) + r)
  BY <1>1, <1>3, <1>4, <1>5
<1>7. a \div (t * s) = u
  <2> DEFINE m == t * s
             w == (v * s) + r
  <2>1. m \in Nat \ {0} /\ w \in 0 .. m - 1 /\ a = (u * m) + w
    BY <1>5, <1>6
  <2> HIDE DEF m, w
  <2>2. ((u * m) + w) \div m = u
    BY <1>2, <2>1, DivUnique
  <2>3. a \div m = u
    BY <2>1, <2>2
  <2> QED
    BY <2>3 DEF m
<1> QED
  BY <1>7 DEF u, q

\* A cell is a byte of a page.
LEMMA CellPlace ==
  ASSUME NEW a \in 0 .. FlashEnd - 1
  PROVE  /\ a \div PageSize \in Page /\ a % PageSize \in Byte
         /\ a = ((a \div PageSize) * PageSize) + (a % PageSize)
         /\ a \div SectorSize = (a \div PageSize) \div PagesPerSector
<1>1. a \in Nat /\ a < FlashEnd
  BY SizesTyped
<1>2. a \div PageSize \in Nat /\ a % PageSize \in 0 .. PageSize - 1
      /\ a = ((a \div PageSize) * PageSize) + (a % PageSize)
  BY <1>1, ModRange, DivMod
<1>3. a \div PageSize < Pages
  BY <1>1, <1>2, MulLess DEF FlashEnd
<1>4. a \div SectorSize = (a \div PageSize) \div PagesPerSector
  BY <1>1, NestedDiv DEF SectorSize
<1> QED
  BY <1>2, <1>3, <1>4 DEF Page, Byte

\* The cells of a chunk that lies in one page.
LEMMA ChunkCells ==
  ASSUME NEW b \in [page : Nat, byte : Byte], NEW n \in Nat, b.byte + n <= PageSize,
         NEW a \in 0 .. FlashEnd - 1
  PROVE  /\ Linear(b) <= a /\ a < Linear(b) + n
              <=> /\ a \div PageSize = b.page
                  /\ b.byte <= a % PageSize /\ a % PageSize < b.byte + n
         /\ a \div PageSize = b.page => a - Linear(b) = (a % PageSize) - b.byte
<1> DEFINE p == a \div PageSize
           r == a % PageSize
<1>1. p \in Nat /\ r \in 0 .. PageSize - 1 /\ a = (p * PageSize) + r
  BY CellPlace DEF Page, Byte
<1>2. b.page \in Nat /\ b.byte \in 0 .. PageSize - 1 /\ Linear(b) = (b.page * PageSize) + b.byte
  BY DEF Linear, Byte
<1> HIDE DEF p, r
<1>3. p * PageSize \in Nat /\ b.page * PageSize \in Nat
  BY <1>1, <1>2, SMT
<1>4. p < b.page => (p * PageSize) + PageSize <= b.page * PageSize
  BY <1>1, <1>2, MulMono
<1>5. b.page < p => (b.page * PageSize) + PageSize <= p * PageSize
  BY <1>1, <1>2, MulMono
<1>6. p = b.page => p * PageSize = b.page * PageSize
  OBVIOUS
<1>7. Linear(b) <= a /\ a < Linear(b) + n
        <=> p = b.page /\ b.byte <= r /\ r < b.byte + n
  BY <1>1, <1>2, <1>3, <1>4, <1>5, <1>6
<1>8. p = b.page => a - Linear(b) = r - b.byte
  BY <1>1, <1>2, <1>3, <1>6
<1> QED
  BY <1>7, <1>8 DEF p, r
-----------------------------------------------------------------------------
(* Erases of whole sectors.                                                *)

\* Erases start where a sector starts, as in the example of wf_spi_flash.h:33-90.
AlignedErases ==
  /\ \A p \in ErasePages : p % PagesPerSector = 0
  /\ EraseBytes \subseteq {0}

Blank(p) == \A b \in Byte : flash[p][b] = Erased

\* An erase goes from sector to sector and leaves blank pages behind it.
Sectors == op = "erase" =>
  /\ from.byte = 0 /\ at.byte = 0
  /\ \E f \in Nat : from.page = f * PagesPerSector
  /\ \E g \in Nat : at.page = g * PagesPerSector
  /\ pc = "return" => Linear(from) + size <= Linear(at)
  /\ \A p \in Page : from.page <= p /\ p < at.page => Blank(p)
  /\ pc = "erase_poll" =>
       \A p \in Page : at.page <= p /\ p < at.page + PagesPerSector => Blank(p)

\* An erase begins at the start of a sector.
LEMMA BeginSectors ==
  ASSUME AlignedErases, TypeOK, NEW p \in ErasePages, NEW b \in EraseBytes, NEW n,
         spi_flash_erase([page |-> p, byte |-> b], n)
  PROVE  Sectors'
<1>1. /\ from' = [page |-> p, byte |-> b] /\ at' = [page |-> p, byte |-> b]
      /\ pc' = "erase_enable" /\ b = 0 /\ p % PagesPerSector = 0 /\ p \in Nat
  BY DEF spi_flash_erase, Begin, AlignedErases
<1>2. p \div PagesPerSector \in Nat /\ p = (p \div PagesPerSector) * PagesPerSector
  <2>1. ((p \div PagesPerSector) * PagesPerSector) + (p % PagesPerSector) = p
    BY <1>1, DivMod
  <2>2. p \div PagesPerSector \in Nat
    BY <1>1, ModRange
  <2>3. (p \div PagesPerSector) * PagesPerSector \in Nat
    BY <2>2, SMT
  <2> QED
    BY <1>1, <2>1, <2>2, <2>3
<1> QED
  BY <1>1, <1>2 DEF Sectors, Page

\* What the sector erase command does when the device obeys.
LEMMA SectorBlank ==
  ASSUME IInv, FInv, Sectors, spi_flash_sector_erase, NEW p \in Page
  PROVE  /\ flash'[p] = IF at.page <= p /\ p < at.page + PagesPerSector
                          THEN [b \in Byte |-> Erased] ELSE flash[p]
         /\ at.page <= p /\ p < at.page + PagesPerSector
              <=> p \div PagesPerSector = at.page \div PagesPerSector
<1>1. pc = "sector_erase" /\ op = "erase" /\ wel /\ ~busy
  BY DEF spi_flash_sector_erase, FInv, DeviceState, CallState, ErasePCs
<1>2. at.page \in Nat /\ at.byte = 0
  BY <1>1 DEF IInv, TypeOK, Sectors
<1>3. PICK g \in Nat : at.page = g * PagesPerSector
  BY <1>1 DEF Sectors
<1>4. Plus(at, IntoSector).page = at.page
  <2>1. (0 + IntoSector) \div PageSize = 0
    <3>1. ((0 * PageSize) + IntoSector) \div PageSize = 0
      BY DivUnique
    <3>2. 0 * PageSize = 0
      BY SMT
    <3> QED
      BY <3>1, <3>2
  <2> QED
    BY <1>2, <2>1 DEF Plus
<1>5. flash' = SectorErased(Plus(at, IntoSector))
  BY <1>1 DEF spi_flash_sector_erase, Obeys
<1>6. at.page \div PagesPerSector = g
  <2>1. ((g * PagesPerSector) + 0) \div PagesPerSector = g
    BY <1>3, DivUnique
  <2>2. g * PagesPerSector \in Nat
    BY <1>3, SMT
  <2> QED
    BY <1>3, <2>1, <2>2
<1> DEFINE q == p \div PagesPerSector
           r == p % PagesPerSector
<1>7. p \in Nat /\ q \in Nat /\ r \in 0 .. PagesPerSector - 1 /\ p = (q * PagesPerSector) + r
  BY ModRange, DivMod DEF Page
<1> HIDE DEF q, r
<1>8. q * PagesPerSector \in Nat /\ g * PagesPerSector \in Nat
  BY <1>3, <1>7, SMT
<1>9. /\ q < g => (q * PagesPerSector) + PagesPerSector <= g * PagesPerSector
      /\ g < q => (g * PagesPerSector) + PagesPerSector <= q * PagesPerSector
  BY <1>3, <1>7, MulMono
<1>10. q = g => q * PagesPerSector = g * PagesPerSector
  OBVIOUS
<1>11. at.page <= p /\ p < at.page + PagesPerSector <=> q = g
  BY <1>3, <1>7, <1>8, <1>9, <1>10
<1>12. flash'[p] = IF q = g THEN [b \in Byte |-> Erased] ELSE flash[p]
  BY <1>4, <1>5, <1>6 DEF SectorErased, q
<1> QED
  BY <1>6, <1>11, <1>12 DEF q

\* Every step of an erase keeps the sectors behind it blank, and the address at
\* the start of a sector.
LEMMA NextSectors ==
  ASSUME AlignedErases, IInv, FInv, Sectors, [Next]_vars
  PROVE  Sectors'
<1>a. TypeOK /\ DeviceState /\ CallState
  BY DEF IInv, FInv
<1>1. CASE op' # "erase"
  BY <1>1 DEF Sectors
<1>2. CASE UNCHANGED <<flash, op, from, at>> /\ pc' \notin {"return", "erase_poll"}
  BY <1>2 DEF Sectors, Blank
<1>3. CASE UNCHANGED <<flash, pc, op, from, size, at>>
  BY <1>3 DEF Sectors, Blank, Linear
<1>4. CASE Calls
  <2>1. pc = "idle" /\ op = "none"
    BY <1>4, <1>a DEF Calls, spi_flash_write, spi_flash_read, spi_flash_erase, Begin,
       spi_flash_get_size, spi_flash_enable, CallState
  <2>2. ASSUME NEW a \in Address, NEW n \in 0 .. MaxSize,
               spi_flash_write(a, n) \/ spi_flash_read(a, n)
        PROVE  op' # "erase"
    BY <2>2 DEF spi_flash_write, spi_flash_read, Begin
  <2>3. CASE spi_flash_get_size \/ \E enable \in BOOLEAN : spi_flash_enable(enable)
    <3>1. op' = op
      BY <2>3 DEF spi_flash_get_size, spi_flash_enable, call
    <3> QED
      BY <1>1, <2>1, <3>1
  <2> QED
    BY <1>4, <1>1, <1>a, <2>2, <2>3, BeginSectors DEF Calls
<1>5. CASE Commands /\ op # "erase"
  <2>1. op' = op \/ op' = "none"
    BY <1>5 DEF Commands, spi_flash_pp, spi_flash_write_enable, WriteBlock,
       spi_flash_page_program, StatusPoll, spi_flash_write_disable, spi_flash_sector_erase,
       spi_flash_load_to_cortus_mem, ReadBlock, Return, Advance, call
  <2> QED
    BY <1>1, <1>5, <2>1
<1>6. CASE Commands /\ op = "erase"
  <2>1. \/ pc = "erase_enable" /\ spi_flash_write_enable
        \/ pc = "sector_erase" /\ spi_flash_sector_erase
        \/ pc = "erase_poll" /\ StatusPoll
        \/ Return
    <3>1. pc \notin WritePCs \cup ReadPCs
      BY <1>a, <1>6 DEF CallState
    <3> QED
      BY <1>6, <3>1 DEF Commands, spi_flash_pp, spi_flash_write_enable, WriteBlock,
         spi_flash_page_program, StatusPoll, spi_flash_write_disable, spi_flash_sector_erase,
         spi_flash_load_to_cortus_mem, ReadBlock, WritePCs, ReadPCs
  <2>2. CASE Return
    BY <1>1, <2>2 DEF Return
  <2>3. CASE pc = "erase_enable" /\ spi_flash_write_enable
    BY <1>2, <2>3 DEF spi_flash_write_enable, call
  <2>4. CASE pc = "sector_erase" /\ spi_flash_sector_erase
    <3>1. pc' = "erase_poll" /\ UNCHANGED <<op, from, size, at>>
      BY <2>4 DEF spi_flash_sector_erase, call
    <3>2. \A p \in Page : Blank(p) => Blank(p)'
      BY <2>4, SectorBlank DEF Blank
    <3>3. \A p \in Page : at.page <= p /\ p < at.page + PagesPerSector => Blank(p)'
      BY <2>4, SectorBlank DEF Blank
    <3> QED
      BY <3>1, <3>2, <3>3 DEF Sectors
  <2>5. CASE pc = "erase_poll" /\ StatusPoll /\ busy
    <3>1. UNCHANGED <<flash, pc, op, from, size, at>>
      BY <2>5 DEF StatusPoll, device, call
    <3> QED
      BY <1>3, <3>1
  <2>6. CASE pc = "erase_poll" /\ StatusPoll /\ ~busy
    <3>1. Advance(NextSector, SectorSize, "erase_enable") /\ flash' = flash
      BY <2>6 DEF StatusPoll, device
    <3>2. /\ UNCHANGED <<op, from, size>> /\ at' = NextSector
          /\ pc' = "erase_enable" \/ (pc' = "return" /\ left <= SectorSize)
      BY <1>a, <3>1, SizesTyped, AdvanceExact
    <3>3. at.page \in Nat /\ at.byte = 0 /\ at' = [page |-> at.page + PagesPerSector, byte |-> 0]
      BY <1>a, <1>6, <3>2 DEF TypeOK, Sectors, NextSector
    <3>4. \E g \in Nat : at'.page = g * PagesPerSector
      <4>1. PICK g \in Nat : at.page = g * PagesPerSector
        BY <1>6 DEF Sectors
      <4>2. (g + 1) * PagesPerSector = (g * PagesPerSector) + (1 * PagesPerSector)
            /\ 1 * PagesPerSector = PagesPerSector
        BY <4>1, Distribute, SMT
      <4>3. at'.page = (g + 1) * PagesPerSector
        BY <3>3, <4>1, <4>2
      <4> QED
        BY <4>1, <4>3
    <3>5. pc' = "return" => Linear(from)' + size' <= Linear(at)'
      <4>1. Linear(at)' = Linear(at) + SectorSize /\ Linear(from)' = Linear(from)
        BY <1>a, <3>2, NextSectorIsLinear DEF Linear
      <4>2. Linear(at) = Linear(from) + (size - left)
        BY <1>a, <2>6 DEF CallState, ErasePCs
      <4>3. Linear(at) \in Nat /\ Linear(from) \in Nat /\ size \in Nat /\ left \in Nat
        BY <1>a, StartTyped, LinearTyped DEF TypeOK
      <4> QED
        BY <3>2, <4>1, <4>2, <4>3, SizesTyped
    <3>6. \A p \in Page : from.page <= p /\ p < at.page + PagesPerSector => Blank(p)
      BY <1>6, <2>6, <3>3 DEF Sectors, Page
    <3>7. \A p \in Page : from'.page <= p /\ p < at'.page => Blank(p)'
      BY <3>1, <3>2, <3>3, <3>6 DEF Blank
    <3> QED
      BY <1>6, <3>2, <3>3, <3>4, <3>5, <3>7 DEF Sectors
  <2> QED
    BY <2>1, <2>2, <2>3, <2>4, <2>5, <2>6
<1>7. CASE FlashFinishes \/ UNCHANGED vars
  BY <1>3, <1>7 DEF FlashFinishes, vars, device, call
<1> QED
  BY <1>4, <1>5, <1>6, <1>7 DEF Next
-----------------------------------------------------------------------------
(* Every step of SpiFlash is a step of FlatFlash, or none.                 *)

\* The cells of the flat memory, as Flat (SpiFlash.tla) has them.
CellsOf == [a \in 0 .. FlashEnd - 1 |-> flash[a \div PageSize][a % PageSize]]

FlatVars == <<CellsOf, buffer, ~busy /\ ~wel, op, Linear(from), size, Done>>

\* At first the pages, end to end, are a flat memory nobody uses.
LEMMA InitFlat == Init => Flat!Init
<1> SUFFICES ASSUME Init PROVE Flat!Init
  OBVIOUS
<1>1. CellsOf \in [Flat!Cells -> {Erased, Other}]
  BY CellPlace DEF Init, CellsOf, Flat!Cells
<1>2. Linear(from) = 0 /\ Done = 0
  BY StartTyped DEF Init, Done
<1>3. (~busy /\ ~wel) = TRUE
  BY DEF Init
<1> QED
  BY <1>1, <1>2, <1>3 DEF Init, Flat!Init, CellsOf

\* What the proofs of the steps use of the invariant.
LEMMA FlatTyped ==
  ASSUME IInv, FInv
  PROVE  /\ Linear(from) \in Nat /\ Linear(at) \in Nat
         /\ size \in Nat /\ left \in Nat /\ left <= size
         /\ at \in [page : Nat, byte : Byte]
         /\ Linear(from) + size <= FlashEnd /\ FlashEnd \in Nat
BY StartTyped, LinearTyped, SizesTyped DEF IInv, FInv, TypeOK, CallState

\* Beginning a call is beginning one on the flat memory.
LEMMA BeginFlat ==
  ASSUME IInv, FInv, NEW name \in {"write", "read", "erase"}, NEW a \in Address,
         NEW n \in 0 .. MaxSize, Begin(name, a, n),
         pc' \in {"write_enable", "load", "erase_enable"}
  PROVE  Flat!Begin
<1>1. /\ pc = "idle" /\ op' = name /\ from' = a /\ size' = n /\ at' = a /\ left' = n
      /\ wel' = wel /\ busy' = busy /\ Linear(a) + n <= FlashEnd
      /\ flash' = [p \in Page |-> [b \in Byte |->
                     IF flash[p][b] = Erased THEN Erased ELSE Other]]
      /\ buffer' = [k \in DOMAIN buffer |-> Other]
  BY DEF Begin
<1>2. op = "none" /\ ~busy /\ ~wel
  BY <1>1 DEF FInv, CallState, DeviceState
<1>3. Linear(from)' = Linear(a) /\ Linear(a) \in 0 .. FlashEnd - 1 /\ n \in 0 .. FlashEnd - Linear(a)
  <2>1. Linear(a) \in Nat /\ a.page \in 0 .. Pages - 1 /\ a.byte \in 0 .. PageSize - 1
    BY StartTyped, LinearTyped DEF Address, Page, Byte
  <2>2. (a.page * PageSize) + PageSize <= Pages * PageSize
    <3>1. a.page \in Nat /\ a.page < Pages /\ PageSize \in Nat /\ Pages \in Nat
      BY <2>1
    <3> QED
      BY <3>1, MulMono
  <2>3. a.page * PageSize \in Nat
    BY <2>1, SMT
  <2>4. Linear(a) < FlashEnd
    BY <2>1, <2>2, <2>3, SizesTyped DEF Linear, FlashEnd
  <2> QED
    BY <1>1, <2>1, <2>4, SizesTyped DEF Linear
<1>4. Done' = 0
  BY <1>1 DEF Done
<1>5. buffer' = [k \in 0 .. MaxSize - 1 |-> Other]
  BY <1>1 DEF IInv, TypeOK
<1>6. CellsOf' = [c \in Flat!Cells |-> IF CellsOf[c] = Erased THEN Erased ELSE Other]
  BY <1>1, CellPlace DEF CellsOf, Flat!Cells
<1>7. (~busy /\ ~wel) = TRUE /\ UNCHANGED (~busy /\ ~wel)
  BY <1>1, <1>2
<1> QED
  BY <1>1, <1>2, <1>3, <1>4, <1>5, <1>6, <1>7 DEF Flat!Begin, Flat!Cells, CellsOf

\* The program command writes the cells of its chunk.
LEMMA ProgramFlat ==
  ASSUME IInv, FInv, spi_flash_page_program
  PROVE  Flat!Write
<1>a. TypeOK /\ AtPageStart /\ DeviceState /\ CallState /\ Loaded
  BY DEF IInv, FInv
<1>1. /\ pc = "page_program" /\ pc' = "pp_poll" /\ op = "write"
      /\ UNCHANGED <<buffer, op, from, size, left, at>>
      /\ flash' = Programmed(at, Chunk)
  BY <1>a DEF spi_flash_page_program, Obeys, call, DeviceState, CallState, WritePCs
<1>2. /\ Chunk \in 1 .. left /\ at.byte + Chunk <= PageSize
      /\ at.page \in Nat /\ at.byte \in 0 .. PageSize - 1
  BY <1>a, <1>1, ChunkInPage DEF WritePCs, TypeOK, Byte
<1>t. /\ Linear(from) \in Nat /\ Linear(at) \in Nat /\ size \in Nat /\ left \in Nat /\ left <= size
      /\ at \in [page : Nat, byte : Byte]
      /\ Linear(from) + size <= FlashEnd /\ FlashEnd \in Nat
  BY FlatTyped
<1>3. /\ Done = size - left /\ Done' = size - left + Chunk
      /\ Linear(at) = Linear(from) + Done /\ Done \in Nat
  BY <1>a, <1>1, <1>t DEF Done, Chunk, CallState, WritePCs
<1>4. at.page \in Page
  <2>1. (at.page * PageSize) + at.byte < Pages * PageSize
    BY <1>2, <1>3, <1>t DEF Linear, FlashEnd
  <2>2. at.page < Pages
    BY <1>2, <2>1, MulLess
  <2> QED
    BY <1>2, <2>2 DEF Page
<1>5. ASSUME NEW p \in Page, NEW b \in Byte
      PROVE  flash'[p][b] =
               IF p = at.page /\ at.byte <= b /\ b < at.byte + Chunk
                 THEN IF flash[p][b] = Erased THEN shared[b - at.byte] ELSE Other
                 ELSE flash[p][b]
  <2> DEFINE K == (b + PageSize - at.byte) % PageSize
  <2>1. b \in 0 .. PageSize - 1
    BY DEF Byte
  <2>2. K = IF at.byte <= b THEN b - at.byte ELSE b + PageSize - at.byte
    <3>1. CASE at.byte <= b
      <4> DEFINE r == b - at.byte
      <4>0. r \in 0 .. PageSize - 1
        BY <1>2, <2>1, <3>1
      <4> HIDE DEF r
      <4>3. ((1 * PageSize) + r) % PageSize = r
        BY <4>0, DivUnique
      <4>1. ((1 * PageSize) + (b - at.byte)) % PageSize = b - at.byte
        BY <4>3 DEF r
      <4>2. (1 * PageSize) + (b - at.byte) = b + PageSize - at.byte
        BY <1>2, <2>1
      <4> QED
        BY <3>1, <4>1, <4>2
    <3>2. CASE b < at.byte
      <4> DEFINE r == b + PageSize - at.byte
      <4>0. r \in 0 .. PageSize - 1
        BY <1>2, <2>1, <3>2
      <4> HIDE DEF r
      <4>3. ((0 * PageSize) + r) % PageSize = r
        BY <4>0, DivUnique
      <4>1. ((0 * PageSize) + (b + PageSize - at.byte)) % PageSize = b + PageSize - at.byte
        BY <4>3 DEF r
      <4>2. (0 * PageSize) + (b + PageSize - at.byte) = b + PageSize - at.byte
        BY <1>2, <2>1
      <4> QED
        BY <1>2, <2>1, <3>2, <4>1, <4>2
    <3> QED
      BY <1>2, <2>1, <3>1, <3>2
  <2>3. flash'[p][b] = IF p = at.page /\ K < Chunk
                         THEN IF flash[p][b] = Erased THEN shared[K] ELSE Other
                         ELSE flash[p][b]
    BY <1>a, <1>1, <1>4 DEF Programmed, TypeOK
  <2> HIDE DEF K
  <2>4. K < Chunk <=> at.byte <= b /\ b < at.byte + Chunk
    BY <1>2, <1>t, <2>1, <2>2
  <2> QED
    BY <2>2, <2>3, <2>4
<1>6. ASSUME NEW c \in Flat!Cells
      PROVE  CellsOf'[c] = IF c \in Linear(from) + Done .. Linear(from) + Done' - 1
                             THEN IF CellsOf[c] = Erased THEN c - Linear(from) ELSE Other
                             ELSE CellsOf[c]
  <2>1. c \in 0 .. FlashEnd - 1
    BY DEF Flat!Cells
  <2> DEFINE p == c \div PageSize
             b == c % PageSize
  <2>2. p \in Page /\ b \in Byte /\ CellsOf[c] = flash[p][b] /\ CellsOf'[c] = flash'[p][b]
    BY <2>1, CellPlace DEF CellsOf
  <2>3. /\ Linear(at) <= c /\ c < Linear(at) + Chunk
              <=> p = at.page /\ at.byte <= b /\ b < at.byte + Chunk
        /\ p = at.page => c - Linear(at) = b - at.byte
    BY <1>2, <1>t, <2>1, ChunkCells
  <2> HIDE DEF p, b
  <2>4. c \in Linear(from) + Done .. Linear(from) + Done' - 1
          <=> Linear(at) <= c /\ c < Linear(at) + Chunk
    <3> DEFINE d == Done'
    <3>1. d = Done + Chunk
      BY <1>3
    <3> HIDE DEF d
    <3>2. c \in Linear(from) + Done .. Linear(from) + d - 1
            <=> Linear(at) <= c /\ c < Linear(at) + Chunk
      BY <1>2, <1>3, <1>t, <2>1, <3>1
    <3> QED
      BY <3>2 DEF d
  <2>5. ASSUME p = at.page, at.byte <= b, b < at.byte + Chunk
        PROVE  shared[b - at.byte] = c - Linear(from)
    <3>1. b - at.byte \in 0 .. Chunk - 1
      BY <1>2, <1>t, <2>2, <2>5 DEF Byte
    <3>2. shared[b - at.byte] = size - left + (b - at.byte)
      BY <1>1, <1>a, <3>1 DEF Loaded
    <3>3. b - at.byte = c - Linear(at) /\ c \in Nat
      BY <2>1, <2>3, <2>5
    <3> QED
      BY <1>3, <1>t, <3>2, <3>3
  <2> QED
    BY <1>5, <2>2, <2>3, <2>4, <2>5
<1>7. CellsOf' = [c \in Flat!Cells |->
        IF c \in Linear(from) + Done .. Linear(from) + Done' - 1
          THEN IF CellsOf[c] = Erased THEN c - Linear(from) ELSE Other
          ELSE CellsOf[c]]
  BY <1>6 DEF CellsOf, Flat!Cells
<1>8. Done' \in Done + 1 .. size
  BY <1>2, <1>3, <1>t
<1>9. (~busy /\ ~wel)' \in BOOLEAN /\ Linear(from)' = Linear(from)
  BY <1>1 DEF Linear
<1> QED
  BY <1>1, <1>7, <1>8, <1>9 DEF Flat!Write, CellsOf

\* The erase command clears the sector it points into, one of the range's.
LEMMA EraseFlat ==
  ASSUME IInv, FInv, Sectors, spi_flash_sector_erase
  PROVE  Flat!Erase
<1>a. TypeOK /\ CallState
  BY DEF IInv, FInv
<1>1. /\ pc = "sector_erase" /\ pc' = "erase_poll" /\ op = "erase" /\ left > 0
      /\ UNCHANGED <<buffer, op, from, size, left, at>>
  BY <1>a DEF spi_flash_sector_erase, call, CallState, ErasePCs
<1>t. /\ Linear(from) \in Nat /\ Linear(at) \in Nat /\ size \in Nat /\ left \in Nat /\ left <= size
      /\ at \in [page : Nat, byte : Byte] /\ SectorSize \in Nat \ {0}
      /\ Linear(from) + size <= FlashEnd /\ FlashEnd \in Nat
  BY FlatTyped, SizesTyped
<1>2. /\ Done = size - left /\ Done' = size - left + Min(left, SectorSize)
      /\ Linear(at) = Linear(from) + Done
  BY <1>a, <1>1 DEF Done, Min, CallState, ErasePCs
<1>3. Done' \in Done + 1 .. size
  BY <1>1, <1>2, <1>t DEF Min
<1> DEFINE t == at.page \div PagesPerSector
<1>4. Linear(at) \in 0 .. FlashEnd - 1
  BY <1>1, <1>2, <1>t
<1>5. Flat!Sector(Linear(at)) = t
  <2>1. at.page \in Nat /\ at.byte = 0 /\ at.byte \in 0 .. PageSize - 1
    BY <1>1, <1>t DEF Sectors, Byte
  <2>2. Linear(at) \div PageSize = at.page
    BY <2>1, DivUnique DEF Linear
  <2> QED
    BY <1>4, <2>2, CellPlace DEF Flat!Sector
<1>6. t \in Flat!Touched
  <2>1. size - left \in 0 .. size - 1
    BY <1>1, <1>t
  <2> QED
    BY <1>2, <1>5, <2>1 DEF Flat!Touched
<1>7. ASSUME NEW c \in Flat!Cells
      PROVE  CellsOf'[c] = IF Flat!Sector(c) = t THEN Erased ELSE CellsOf[c]
  <2>1. c \in 0 .. FlashEnd - 1
    BY DEF Flat!Cells
  <2>2. /\ c \div PageSize \in Page /\ c % PageSize \in Byte
        /\ Flat!Sector(c) = (c \div PageSize) \div PagesPerSector
    BY <2>1, CellPlace DEF Flat!Sector
  <2>3. CellsOf'[c] = flash'[c \div PageSize][c % PageSize]
        /\ CellsOf[c] = flash[c \div PageSize][c % PageSize]
    BY <2>1 DEF CellsOf
  <2>4. flash'[c \div PageSize] =
          IF (c \div PageSize) \div PagesPerSector = t THEN [b \in Byte |-> Erased]
          ELSE flash[c \div PageSize]
    BY <2>2, SectorBlank
  <2> QED
    BY <2>2, <2>3, <2>4
<1>8. CellsOf' = [c \in Flat!Cells |-> IF Flat!Sector(c) = t THEN Erased ELSE CellsOf[c]]
  BY <1>7 DEF CellsOf, Flat!Cells
<1>9. (~busy /\ ~wel)' \in BOOLEAN /\ Linear(from)' = Linear(from)
  BY <1>1 DEF Linear
<1> HIDE DEF t
<1> QED
  BY <1>1, <1>3, <1>6, <1>8, <1>9 DEF Flat!Erase, CellsOf

\* A block read into the buffer is a read of the flat memory; a read of no
\* bytes is no step of it.
LEMMA ReadFlat ==
  ASSUME IInv, FInv, ReadBlock
  PROVE  Flat!Read \/ UNCHANGED FlatVars
<1>a. TypeOK /\ CallState /\ Loaded
  BY DEF IInv, FInv
<1>t. /\ Linear(from) \in Nat /\ Linear(at) \in Nat /\ size \in Nat /\ left \in Nat /\ left <= size
  BY FlatTyped
<1> DEFINE n == Min(left, BlockSize)
           d == size - left
<1>1. /\ pc = "read_block" /\ op = "read" /\ Advance(Plus(at, n), n, "load")
      /\ UNCHANGED <<flash, busy, wel>>
      /\ buffer' = [k \in DOMAIN buffer |->
           IF k \in d .. d + n - 1 THEN shared[k - d] ELSE buffer[k]]
  BY <1>a DEF ReadBlock, device, CallState, ReadPCs
<1>2. n \in Nat /\ n <= left /\ d \in Nat /\ (left > 0 => n > 0)
  BY <1>t DEF Min
<1>3. /\ UNCHANGED <<op, from, size>> /\ left' = left - n /\ pc' \in {"load", "return"}
  BY <1>a, <1>1, <1>2, <1>t, AdvanceExact
<1>4. Done = d /\ Done' = d + n
  BY <1>1, <1>2, <1>3, <1>t DEF Done
<1>5. Linear(at) = Linear(from) + d
  BY <1>a, <1>1 DEF CallState, ReadPCs
<1>6. \A k \in d .. d + n - 1 : shared[k - d] = Linear(from) + k
  <2> SUFFICES ASSUME NEW k \in d .. d + n - 1 PROVE shared[k - d] = Linear(from) + k
    OBVIOUS
  <2> HIDE DEF n, d
  <2>1. k - d \in 0 .. n - 1
    BY <1>2
  <2>2. shared[k - d] = Linear(at) + (k - d)
    BY <1>1, <1>a, <2>1 DEF Loaded, n
  <2> QED
    BY <1>2, <1>5, <1>t, <2>1, <2>2
<1>7. Linear(from)' = Linear(from) /\ CellsOf' = CellsOf /\ UNCHANGED (~busy /\ ~wel)
  BY <1>1, <1>3 DEF Linear, CellsOf
<1>8. DOMAIN buffer = 0 .. MaxSize - 1 /\ buffer = [k \in 0 .. MaxSize - 1 |-> buffer[k]]
  BY <1>a DEF TypeOK
<1> HIDE DEF n, d
<1>9. CASE left > 0
  <2>1. Done' \in Done + 1 .. size
    BY <1>2, <1>4, <1>9, <1>t DEF d
  <2> DEFINE e == Done'
  <2>0. e = d + n
    BY <1>4
  <2> HIDE DEF e
  <2>2. d .. d + n - 1 = Done .. e - 1
    BY <1>2, <1>4, <2>0
  <2>3. buffer' = [k \in 0 .. MaxSize - 1 |->
                     IF k \in Done .. e - 1 THEN Linear(from) + k ELSE buffer[k]]
    BY <1>1, <1>6, <1>8, <2>2
  <2> QED
    BY <1>1, <1>3, <1>7, <2>1, <2>3 DEF Flat!Read, CellsOf, e
<1>10. CASE left = 0
  <2>1. n = 0
    BY <1>2, <1>10
  <2>2. buffer' = buffer
    BY <1>1, <1>2, <1>8, <2>1
  <2> QED
    BY <1>2, <1>3, <1>4, <1>7, <2>1, <2>2 DEF FlatVars
<1> QED
  BY <1>9, <1>10, <1>t

\* A call returns with all of its range done.
LEMMA ReturnFlat ==
  ASSUME IInv, FInv, Sectors, Return
  PROVE  Flat!Return
<1>a. TypeOK /\ DeviceState /\ CallState
  BY DEF IInv, FInv
<1>1. /\ pc = "return" /\ op # "none" /\ left = 0
      /\ op' = "none" /\ from' = Start /\ size' = 0 /\ left' = 0 /\ pc' = "idle"
      /\ UNCHANGED <<flash, busy, wel, buffer>>
  BY <1>a DEF Return, device, CallState
<1>t. /\ Linear(from) \in Nat /\ Linear(at) \in Nat /\ size \in Nat
      /\ at \in [page : Nat, byte : Byte] /\ SectorSize \in Nat \ {0}
      /\ Linear(from) + size <= FlashEnd /\ FlashEnd \in Nat
  BY FlatTyped, SizesTyped
<1>2. ~busy /\ ~wel
  BY <1>a, <1>1 DEF DeviceState
<1>3. Done = size /\ Done' = 0 /\ Linear(from)' = 0
  BY <1>1, <1>t, StartTyped DEF Done, Linear
<1>4. ASSUME op = "erase", NEW c \in Flat!Cells, Flat!Sector(c) \in Flat!Touched
      PROVE  CellsOf[c] = Erased
  <2>1. PICK k \in 0 .. size - 1 : Flat!Sector(c) = Flat!Sector(Linear(from) + k)
    BY <1>4 DEF Flat!Touched
  <2> DEFINE x == Linear(from) + k
             p == c \div PageSize
             y == x \div PageSize
             q == y \div PagesPerSector
  <2>2. x \in 0 .. FlashEnd - 1 /\ c \in 0 .. FlashEnd - 1 /\ x \in Nat
    BY <1>t DEF Flat!Cells
  <2>3. /\ p \in Page /\ c % PageSize \in Byte /\ p \div PagesPerSector = q
        /\ y \in Page /\ x % PageSize \in 0 .. PageSize - 1
        /\ x = (y * PageSize) + (x % PageSize)
    BY <2>1, <2>2, CellPlace DEF Flat!Sector, Byte
  <2>4. from.byte = 0 /\ at.byte = 0 /\ from.page \in Nat /\ at.page \in Nat
    BY <1>4, <1>a DEF Sectors, TypeOK, Address, Page
  <2>5. PICK f \in Nat : from.page = f * PagesPerSector
    BY <1>4 DEF Sectors
  <2>6. PICK g \in Nat : at.page = g * PagesPerSector
    BY <1>4 DEF Sectors
  <2>7. Linear(from) = from.page * PageSize /\ Linear(at) = at.page * PageSize
    <3>1. from.page * PageSize \in Nat /\ at.page * PageSize \in Nat
      BY <2>4, SMT
    <3> QED
      BY <2>4, <3>1 DEF Linear
  <2>8. Linear(from) + size <= Linear(at)
    BY <1>4, <1>1 DEF Sectors
  <2> HIDE DEF p, y, q
  <2>9. y \in Nat /\ p \in Nat
    BY <2>3 DEF Page
  <2>10. y < at.page
    <3> DEFINE r == x % PageSize
    <3>1. r \in Nat /\ x = (y * PageSize) + r
      BY <2>3
    <3> HIDE DEF r
    <3>2. (y * PageSize) + r < at.page * PageSize
      BY <1>t, <2>7, <2>8, <3>1 DEF x
    <3> QED
      BY <2>4, <2>9, <3>1, <3>2, MulLess
  <2>11. from.page <= y
    <3>1. y < from.page => (y * PageSize) + PageSize <= from.page * PageSize
      BY <2>4, <2>9, MulMono
    <3>2. y * PageSize \in Nat /\ from.page * PageSize \in Nat
      BY <2>4, <2>9, SMT
    <3> QED
      BY <1>t, <2>3, <2>4, <2>7, <2>9, <3>1, <3>2 DEF x
  <2>12. q \in Nat /\ f <= q /\ q < g
    <3> DEFINE v == y % PagesPerSector
    <3>1. q \in Nat /\ v \in 0 .. PagesPerSector - 1 /\ y = (q * PagesPerSector) + v
      BY <2>9, ModRange, DivMod DEF q
    <3> HIDE DEF v
    <3>2. (q * PagesPerSector) + v < g * PagesPerSector
      BY <2>6, <2>10, <3>1
    <3>3. q < g
      BY <2>6, <3>1, <3>2, MulLess
    <3>4. q < f => (q * PagesPerSector) + PagesPerSector <= f * PagesPerSector
      BY <2>5, <3>1, MulMono
    <3>5. q * PagesPerSector \in Nat /\ f * PagesPerSector \in Nat
      BY <2>5, <3>1, SMT
    <3> QED
      BY <2>5, <2>11, <3>1, <3>3, <3>4, <3>5
  <2>13. from.page <= p /\ p < at.page
    <3> DEFINE v == p % PagesPerSector
    <3>1. v \in 0 .. PagesPerSector - 1 /\ p = (q * PagesPerSector) + v
      BY <2>3, <2>9, ModRange, DivMod
    <3> HIDE DEF v
    <3>2. f * PagesPerSector <= q * PagesPerSector
      BY <2>5, <2>12, MulMono
    <3>3. (q * PagesPerSector) + PagesPerSector <= g * PagesPerSector
      BY <2>6, <2>12, MulMono
    <3>4. q * PagesPerSector \in Nat /\ f * PagesPerSector \in Nat /\ g * PagesPerSector \in Nat
      BY <2>5, <2>6, <2>12, SMT
    <3> QED
      BY <2>5, <2>6, <3>1, <3>2, <3>3, <3>4
  <2>14. Blank(p)
    BY <1>4, <2>3, <2>13 DEF Sectors
  <2> QED
    BY <2>2, <2>3, <2>14 DEF Blank, CellsOf, p
<1>5. op = "erase" => \A c \in Flat!Cells : Flat!Sector(c) \in Flat!Touched => CellsOf[c] = Erased
  BY <1>4
<1>6. CellsOf' = CellsOf /\ (~busy /\ ~wel) = TRUE /\ UNCHANGED (~busy /\ ~wel)
  BY <1>1, <1>2 DEF CellsOf
<1> QED
  BY <1>1, <1>3, <1>5, <1>6 DEF Flat!Return, CellsOf

\* The write enable and the device's own end of a command are the work of a
\* call; moving bytes to and from the shared memory, polls and the count of
\* what is left are not seen.
LEMMA WorkFlat ==
  ASSUME IInv, FInv,
         op # "none", UNCHANGED <<flash, buffer, op, from, size>>, Done' = Done
  PROVE  Flat!Work
<1>1. CellsOf' = CellsOf /\ Linear(from)' = Linear(from) /\ (~busy /\ ~wel)' \in BOOLEAN
  BY DEF CellsOf, Linear
<1> QED
  BY <1>1 DEF Flat!Work, CellsOf

\* Every step of the driver or the device is a step of the flat memory, or none.
LEMMA StepFlat ==
  ASSUME IInv, FInv, Sectors, [Next]_vars
  PROVE  [Flat!Next]_(Flat!vars)
<1>a. TypeOK /\ AtPageStart /\ DeviceState /\ CallState
  BY DEF IInv, FInv
<1>t. size \in Nat /\ left \in Nat /\ left <= size
  BY FlatTyped
<1>v. UNCHANGED FlatVars => UNCHANGED Flat!vars
  BY DEF FlatVars, Flat!vars, CellsOf
<1>w. ASSUME UNCHANGED <<flash, buffer, op, from, size>>, Done' = Done, op # "none"
      PROVE  Flat!Next
  BY <1>w, WorkFlat DEF Flat!Next
<1>1. CASE Calls
  <2>1. ASSUME NEW a \in Address, NEW n \in 0 .. MaxSize,
               spi_flash_write(a, n) \/ spi_flash_read(a, n)
        PROVE  Flat!Begin
    BY <2>1, BeginFlat DEF spi_flash_write, spi_flash_read
  <2>2. ASSUME NEW p \in ErasePages, NEW b \in EraseBytes, NEW n \in 0 .. MaxSize,
               spi_flash_erase([page |-> p, byte |-> b], n)
        PROVE  Flat!Begin
    <3>1. [page |-> p, byte |-> b] \in Address
      BY DEF Address, Page, Byte
    <3> QED
      BY <2>2, <3>1, BeginFlat DEF spi_flash_erase
  <2>3. CASE spi_flash_get_size \/ \E enable \in BOOLEAN : spi_flash_enable(enable)
    <3>1. UNCHANGED <<flash, wel, busy, buffer, pc, op, from, size, at, left>>
      BY <2>3 DEF spi_flash_get_size, spi_flash_enable, device, call
    <3>2. UNCHANGED FlatVars
      BY <3>1 DEF FlatVars, CellsOf, Linear, Done, Chunk
    <3> QED
      BY <1>v, <3>2
  <2> QED
    BY <1>1, <2>1, <2>2, <2>3 DEF Calls, Flat!Next
<1>2. CASE FlashFinishes
  <2>1. UNCHANGED <<flash, buffer, pc, op, from, size, at, left>> /\ op # "none"
    BY <1>2, <1>a DEF FlashFinishes, call, DeviceState, CallState
  <2>2. Done' = Done
    BY <2>1 DEF Done, Chunk
  <2> QED
    BY <1>w, <2>1, <2>2
<1>3. CASE UNCHANGED vars
  <2>1. UNCHANGED FlatVars
    BY <1>3 DEF vars, device, call, FlatVars, CellsOf, Linear, Done, Chunk
  <2> QED
    BY <1>v, <2>1
<1>4. CASE spi_flash_write_enable
  <2>1. UNCHANGED <<flash, buffer, op, from, size, left, at>> /\ op # "none"
        /\ pc \in {"write_enable", "erase_enable"} /\ pc' \in {"write_block", "sector_erase"}
    BY <1>4, <1>a DEF spi_flash_write_enable, call, CallState
  <2>2. Done' = Done
    BY <2>1 DEF Done
  <2> QED
    BY <1>w, <2>1, <2>2
<1>5. CASE WriteBlock \/ spi_flash_load_to_cortus_mem
  <2>1. UNCHANGED <<flash, buffer, op, from, size, left, at>> /\ op # "none"
        /\ pc \in {"write_block", "load"} /\ pc' \in {"page_program", "read_block"}
    BY <1>5, <1>a DEF WriteBlock, spi_flash_load_to_cortus_mem, device, call, CallState
  <2>2. Done' = Done
    BY <2>1 DEF Done
  <2> QED
    BY <1>w, <2>1, <2>2
<1>6. CASE spi_flash_page_program
  BY <1>6, ProgramFlat DEF Flat!Next
<1>7. CASE StatusPoll
  <2>1. UNCHANGED <<flash, buffer>> /\ op # "none" /\ pc \in {"pp_poll", "erase_poll"}
    BY <1>7, <1>a DEF StatusPoll, device, CallState
  <2>2. CASE UNCHANGED <<pc, op, from, size, at, left>>
    <3>1. Done' = Done
      BY <2>2 DEF Done, Chunk
    <3> QED
      BY <1>w, <2>1, <2>2, <3>1
  <2>3. CASE pc = "pp_poll" /\ pc' = "write_disable" /\ UNCHANGED <<op, from, size, at, left>>
    <3>1. Done' = Done
      BY <2>3 DEF Done, Chunk
    <3> QED
      BY <1>w, <2>1, <2>3, <3>1
  <2>4. CASE pc = "erase_poll" /\ Advance(NextSector, SectorSize, "erase_enable")
    <3>1. /\ UNCHANGED <<op, from, size>>
          /\ left' = left - Min(left, SectorSize) /\ pc' \in {"erase_enable", "return"}
      BY <1>a, <1>t, <2>4, SizesTyped, AdvanceExact DEF Min
    <3>2. Done' = Done
      BY <1>t, <2>4, <3>1, SizesTyped DEF Done, Min
    <3> QED
      BY <1>w, <2>1, <3>1, <3>2
  <2> QED
    BY <1>7, <2>2, <2>3, <2>4 DEF StatusPoll, call
<1>8. CASE spi_flash_write_disable
  <2>1. /\ pc = "write_disable" /\ Advance(Plus(at, Chunk), Chunk, "write_enable")
        /\ UNCHANGED <<flash, buffer>> /\ op # "none"
    BY <1>8, <1>a DEF spi_flash_write_disable, CallState
  <2>2. Chunk \in 1 .. left
    BY <1>a, <2>1, ChunkInPage DEF WritePCs
  <2>3. /\ UNCHANGED <<op, from, size>> /\ left' = left - Chunk
        /\ pc' \in {"write_enable", "return"}
    BY <1>a, <1>t, <2>1, <2>2, AdvanceExact
  <2>4. Done' = Done
    BY <1>t, <2>1, <2>2, <2>3 DEF Done
  <2> QED
    BY <1>w, <2>1, <2>3, <2>4
<1>9. CASE spi_flash_sector_erase
  BY <1>9, EraseFlat DEF Flat!Next
<1>10. CASE ReadBlock
  BY <1>10, <1>v, ReadFlat DEF Flat!Next
<1>11. CASE Return
  BY <1>11, ReturnFlat DEF Flat!Next
<1> QED
  BY <1>1, <1>2, <1>3, <1>4, <1>5, <1>6, <1>7, <1>8, <1>9, <1>10, <1>11
     DEF Next, Commands, spi_flash_pp

\* Page split, shared memory, write enable and status polls amount to a flat
\* memory, for every geometry and every call, provided erases start at a
\* sector: exactly the call's range is written with the caller's bytes, exactly
\* its sectors are erased, exactly its bytes are read, and a call returns only
\* when that is done and the device at rest (wf_spi_flash.c:189-327).
THEOREM FlashIsFlat ==
  ASSUME AlignedErases
  PROVE  Spec => FlatSpec
<1>1. Init => Sectors
  BY DEF Init, Sectors
<1>2. IInv /\ FInv /\ Sectors /\ [Next]_vars => Sectors'
  BY NextSectors
<1>3. Spec => []Sectors
  BY <1>1, <1>2, Invariant, DeviceFollowed, PTL DEF Spec
<1>4. IInv /\ FInv /\ Sectors /\ [Next]_vars => [Flat!Next]_(Flat!vars)
  BY StepFlat
<1> QED
  BY <1>3, <1>4, InitFlat, Invariant, DeviceFollowed, PTL DEF Spec, FlatSpec, Flat!Spec
-----------------------------------------------------------------------------
\* An erase that returns has erased the portion it was asked for.
ErasesThePortion ==
  pc = "return" /\ op = "erase" =>
    \A p \in Page, b \in Byte :
      p * PageSize + b \in Linear(from) .. Linear(from) + size - 1 => flash[p][b] = Erased

\* An erase that starts at a sector has erased its portion when it returns;
\* one that starts elsewhere need not have, because the loop goes from its
\* address by sectors and not to the sectors the portion touches
\* (wf_spi_flash.c:300-327, wf_spi_flash.h:183-187).
THEOREM AlignedErasesDoIt ==
  ASSUME AlignedErases
  PROVE  Spec => []ErasesThePortion
<1>1. Init => Sectors
  BY DEF Init, Sectors
<1>2. IInv /\ FInv /\ Sectors /\ [Next]_vars => Sectors'
  BY NextSectors
<1>3. IInv /\ FInv /\ Sectors => ErasesThePortion
  <2> SUFFICES ASSUME IInv, FInv, Sectors, pc = "return", op = "erase",
                      NEW p \in Page, NEW b \in Byte,
                      p * PageSize + b \in Linear(from) .. Linear(from) + size - 1
               PROVE  flash[p][b] = Erased
    BY DEF ErasesThePortion
  <2>1. /\ Linear(from) \in Nat /\ size \in Nat /\ at.page \in Nat /\ from.page \in Nat
        /\ p \in Nat /\ b \in 0 .. PageSize - 1
    BY FlatTyped DEF IInv, TypeOK, Address, Page, Byte
  <2>2. /\ Linear(from) = from.page * PageSize /\ Linear(at) = at.page * PageSize
        /\ Linear(from) + size <= Linear(at)
        /\ \A q \in Page : from.page <= q /\ q < at.page => Blank(q)
    <3>1. from.byte = 0 /\ at.byte = 0
      BY DEF Sectors
    <3>2. from.page * PageSize \in Nat /\ at.page * PageSize \in Nat
      BY <2>1, SMT
    <3>3. Linear(from) = from.page * PageSize /\ Linear(at) = at.page * PageSize
      BY <3>1, <3>2 DEF Linear
    <3> QED
      BY <3>3 DEF Sectors
  <2>3. p * PageSize \in Nat /\ from.page * PageSize \in Nat /\ at.page * PageSize \in Nat
    BY <2>1, SMT
  <2> DEFINE x == p * PageSize
             y == from.page * PageSize
             z == at.page * PageSize
  <2>4. y <= x + b /\ x + b < z
    BY <2>1, <2>2, <2>3
  <2>5. p < at.page
    <3>1. at.page <= p => z <= x
      BY <2>1, MulMono
    <3> HIDE DEF x, z
    <3> QED
      BY <2>1, <2>3, <2>4, <3>1 DEF x, z
  <2>6. from.page <= p
    <3>1. p < from.page => x + PageSize <= y
      BY <2>1, MulMono
    <3> HIDE DEF x, y
    <3> QED
      BY <2>1, <2>3, <2>4, <3>1 DEF x, y
  <2> QED
    BY <2>2, <2>5, <2>6 DEF Blank
<1> QED
  BY <1>1, <1>2, <1>3, Invariant, DeviceFollowed, PTL DEF Spec
=============================================================================
