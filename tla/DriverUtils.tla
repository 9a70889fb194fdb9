---------------------------- MODULE DriverUtils -----------------------------
(***************************************************************************)
(* Functions without state of the Wi-Fi driver: the timing and address     *)
(* helpers of src/src/wf_utils.c and the version check of                  *)
(* nm_get_firmware_full_info.  What they compute is checked by the         *)
(* assumptions that follow each.                                           *)
(***************************************************************************)
EXTENDS Integers, Sequences

\* Unsigned arithmetic over size numbers; the code's size is 2^32.
Wrap(size, v) == v % size
-----------------------------------------------------------------------------
(* Time.                                                                   *)

m2m_get_elapsed_time(size, startTime, currentTime) ==
  IF currentTime >= startTime THEN currentTime - startTime
  ELSE Wrap(size, (size - 1) - Wrap(size, startTime + 1) + currentTime)

\* Across the wrap of the counter two milliseconds are missing, and when only
\* one has passed the result is the greatest number there is: every wait is
\* over at once.
ASSUME ElapsedShortAcrossWrap ==
  LET size == 16 IN \A start, passed \in 0 .. size - 1 :
    m2m_get_elapsed_time(size, start, Wrap(size, start + passed)) =
      IF start + passed < size THEN passed ELSE Wrap(size, passed - 2)

\* The milliseconds DelayMs waits from start on: those after which its loop
\* finds the counter beyond endTime.  Empty when it never does.
DelayMs(size, start, ms) ==
  LET endTime == Wrap(size, start + ms + 1)
  IN {n \in 0 .. size - 1 : /\ Wrap(size, start + n) > endTime
                            /\ \A k \in 0 .. n - 1 : Wrap(size, start + k) <= endTime}

\* A delay is two milliseconds long when it could be one less, none when its
\* end wraps, and without an end when it ends at the counter's last value.
ASSUME DelayOfEachEnd ==
  LET size == 16 IN \A start \in 0 .. size - 1, ms \in 0 .. size - 2 :
    DelayMs(size, start, ms) = CASE start + ms + 1 < size - 1 -> {ms + 2}
                                 [] start + ms + 1 = size - 1 -> {}
                                 [] OTHER -> {0}
-----------------------------------------------------------------------------
(* Addresses.  What atoi makes of the tokens between the dots is a number, *)
(* and zero when there is none; strtok gives no empty token.               *)

\* The bytes stored, and whether the address is accepted.
inet_pton4(tokens) ==
  LET stored(i) == tokens[i] % 256
      bad == {i \in 1 .. Len(tokens) : i > 4 \/ stored(i) = 0}
  IN [ret |-> bad = {} /\ Len(tokens) = 4,
      dst |-> [i \in {j \in 1 .. Len(tokens) : j <= 4 /\ \A b \in bad : j <= b} |-> stored(i)]]

inet_ntop4(src) == src

\* Four numbers of 1 to 255 are accepted and printed as they were read, every
\* address with a zero in it is refused, and of a number above 255 the low
\* byte is taken.
ASSUME AddressesReadBack ==
  LET Octets == {0, 1, 255, 256, 257} IN
  \A n \in 0 .. 5 : \A tokens \in [1 .. n -> Octets] :
    LET read == inet_pton4(tokens) IN
    /\ read.ret <=> n = 4 /\ \A i \in 1 .. n : tokens[i] \notin {0, 256}
    /\ (read.ret /\ \A i \in 1 .. n : tokens[i] <= 255) => inet_ntop4(read.dst) = tokens
-----------------------------------------------------------------------------
(* Versions.                                                               *)

MAKE_VERSION(v) == (v[1] % 256) * 256 + (v[2] % 16) * 16 + (v[3] % 16)

DriverVersion == <<19, 3, 0>>

\* What nm_get_firmware_full_info reports of a revision found in the chip.
nm_get_firmware_full_info(firmware, minDriver) ==
  CASE MAKE_VERSION(firmware) = 0 \/ MAKE_VERSION(minDriver) = 0 -> "read_error"
    [] MAKE_VERSION(DriverVersion) < MAKE_VERSION(minDriver) -> "mismatch"
    [] MAKE_VERSION(DriverVersion) > MAKE_VERSION(firmware) -> "mismatch"
    [] OTHER -> "accepted"

NotAfter(v, w) ==
  \/ v[1] < w[1]
  \/ v[1] = w[1] /\ (v[2] < w[2] \/ (v[2] = w[2] /\ v[3] <= w[3]))

\* A firmware is accepted when it is not older than the driver and asks for no
\* newer one, as versions are compared, part by part.
ASSUME VersionsInOrder ==
  LET Versions == {19, 0, 18, 20} \X {0, 3, 4, 15} \X {0, 1, 15} IN
  \A firmware, minDriver \in Versions :
    (nm_get_firmware_full_info(firmware, minDriver) = "accepted") <=>
      /\ <<0, 0, 0>> \notin {firmware, minDriver}
      /\ NotAfter(minDriver, DriverVersion) /\ NotAfter(DriverVersion, firmware)

=============================================================================
