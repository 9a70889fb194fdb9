------------------------------ MODULE SpiFrame ------------------------------
(***************************************************************************)
(* The command frames of src/src/wf_spi.c: what spi_cmd puts on the bus    *)
(* and the CRC that guards it.  Pure functions, checked by the assumptions *)
(* at the end; module SpiBus has what happens to the frames.               *)
(***************************************************************************)
EXTENDS Integers, Sequences, Bitwise

crc7_syndrome_table == <<
  0, 9, 18, 27, 36, 45, 54, 63, 72, 65, 90, 83, 108, 101, 126, 119, 25, 16, 11,
  2, 61, 52, 47, 38, 81, 88, 67, 74, 117, 124, 103, 110, 50, 59, 32, 41, 22, 31,
  4, 13, 122, 115, 104, 97, 94, 87, 76, 69, 43, 34, 57, 48, 15, 6, 29, 20, 99,
  106, 113, 120, 71, 78, 85, 92, 100, 109, 118, 127, 64, 73, 82, 91, 44, 37, 62, 55,
  8, 1, 26, 19, 125, 116, 111, 102, 89, 80, 75, 66, 53, 60, 39, 46, 17, 24, 3,
  10, 86, 95, 68, 77, 114, 123, 96, 105, 30, 23, 12, 5, 58, 51, 40, 33, 79, 70,
  93, 84, 107, 98, 121, 112, 7, 14, 21, 28, 35, 42, 49, 56, 65, 72, 83, 90, 101,
  108, 119, 126, 9, 0, 27, 18, 45, 36, 63, 54, 88, 81, 74, 67, 124, 117, 110, 103,
  16, 25, 2, 11, 52, 61, 38, 47, 115, 122, 97, 104, 87, 94, 69, 76, 59, 50, 41,
  32, 31, 22, 13, 4, 106, 99, 120, 113, 78, 71, 92, 85, 34, 43, 48, 57, 6, 15,
  20, 29, 37, 44, 55, 62, 1, 8, 19, 26, 109, 100, 127, 118, 73, 64, 91, 82, 60,
  53, 46, 39, 24, 17, 10, 3, 116, 125, 102, 111, 80, 89, 66, 75, 23, 30, 5, 12,
  51, 58, 33, 40, 95, 86, 77, 68, 123, 114, 105, 96, 14, 7, 28, 21, 42, 35, 56,
  49, 70, 79, 84, 93, 98, 107, 112, 121>>

\* A sequence starts at one, the code's table at zero.
crc7_byte(crc, data) == crc7_syndrome_table[1 + ((crc * 2) ^^ data)]

crc7(crc, buffer) ==
  LET After[n \in 0 .. Len(buffer)] ==
        IF n = 0 THEN crc ELSE crc7_byte(After[n - 1], buffer[n])
  IN After[Len(buffer)]

\* The n low bytes of a value, the highest first.
Bytes(v, n) == [i \in 1 .. n |-> (v \div 256 ^ (n - i)) % 256]

\* A register address; the top bit asks for the access without a clock.
Internal(adr, clockless) ==
  <<((adr \div 256) % 256) | (IF clockless THEN 128 ELSE 0), adr % 256>>

Body(cmd, adr, data, sz, clockless) ==
  CASE cmd = "single_read" -> Bytes(adr, 3)
    [] cmd = "internal_read" -> Internal(adr, clockless) \o <<0>>
    [] cmd \in {"terminate", "repeat"} -> <<0, 0, 0>>
    [] cmd = "reset" -> <<255, 255, 255>>
    [] cmd \in {"dma_write", "dma_read"} -> Bytes(adr, 3) \o Bytes(sz, 2)
    [] cmd \in {"dma_ext_write", "dma_ext_read"} -> Bytes(adr, 3) \o Bytes(sz, 3)
    [] cmd = "internal_write" -> Internal(adr, clockless) \o Bytes(data, 4)
    [] cmd = "single_write" -> Bytes(adr, 3) \o Bytes(data, 4)

CMD == [single_read |-> 202, internal_read |-> 196, terminate |-> 197, repeat |-> 198,
        reset |-> 207, dma_write |-> 193, dma_read |-> 194, dma_ext_write |-> 199,
        dma_ext_read |-> 200, internal_write |-> 195, single_write |-> 201]

Frame(cmd, adr, data, sz, clockless, crcOff) ==
  LET frame == <<CMD[cmd]>> \o Body(cmd, adr, data, sz, clockless)
  IN IF crcOff THEN frame ELSE Append(frame, crc7(127, frame) * 2)
-----------------------------------------------------------------------------
(* What they compute.                                                      *)

\* One bit of the CRC by its polynomial x^7 + x^3 + 1, and eight of them.
PolyBit(crc, bit) ==
  LET shifted == (crc * 2) % 128 IN IF crc \div 64 # bit THEN shifted ^^ 9 ELSE shifted
PolyByte(crc, data) ==
  LET After[n \in 0 .. 8] ==
        IF n = 0 THEN crc ELSE PolyBit(After[n - 1], (data \div 2 ^ (8 - n)) % 2)
  IN After[8]

ASSUME TableIsPolynomial ==
  /\ Len(crc7_syndrome_table) = 256
  /\ \A crc \in {0, 1, 9, 63, 64, 85, 127}, data \in 0 .. 255 :
       crc7_byte(crc, data) = PolyByte(crc, data)

Value(bytes) ==
  LET Up[n \in 0 .. Len(bytes)] == IF n = 0 THEN 0 ELSE Up[n - 1] * 256 + bytes[n]
  IN Up[Len(bytes)]

\* Address and size come out of a block's frame as they went in, up to 24 bits
\* each, and no frame is longer than the nine bytes of bc.
ASSUME FramesDecode ==
  /\ \A adr \in {0, 255, 65536, 16777215, 16777217}, sz \in {1, 256, 65536, 16777215} :
       LET f == Frame("dma_ext_read", adr, 0, sz, FALSE, FALSE) IN
       /\ Value(SubSeq(f, 2, 4)) = adr % 16777216
       /\ Value(SubSeq(f, 5, 7)) = sz
       /\ crc7(127, SubSeq(f, 1, 7)) * 2 = f[8]
  /\ \A cmd \in DOMAIN CMD, off \in BOOLEAN :
       LET f == Frame(cmd, 4660, 22136, 8, TRUE, off) IN
       Len(f) <= 9 /\ \A i \in 1 .. Len(f) : f[i] \in 0 .. 255

\* A register address beyond fifteen bits shares its top bit with clockless.
ASSUME ClocklessBit ==
  \A adr \in {0, 4096, 32767} :
    Frame("internal_read", adr, 0, 0, TRUE, TRUE)
      = Frame("internal_read", adr + 32768, 0, 0, FALSE, TRUE)

=============================================================================
