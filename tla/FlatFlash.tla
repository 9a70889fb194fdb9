----------------------------- MODULE FlatFlash ------------------------------
(***************************************************************************)
(* What the flash functions of wf_spi_flash.c promise, without pages,      *)
(* shared memory or write enable: a write turns the cells of its range     *)
(* from the first to the last, an erase clears whole sectors inside the    *)
(* sectors its range touches, and a call returns when its range is done.   *)
(***************************************************************************)
EXTENDS Integers

CONSTANTS
  Size,        \* cells
  SectorSize,
  Erased,      \* an erased cell
  Other,       \* a cell that holds anything but the current call's data
  MaxSize      \* the longest call

VARIABLES
  cells,       \* [0 .. Size - 1 -> Erased, Other, or the place in the
               \*  caller's buffer its content comes from]
  got,         \* the buffer of a read: where in the flash its bytes come from
  atRest,      \* the device is neither working nor open for writing
  op, start, length,  \* the call; op is "none" between calls
  done         \* how much of it is done

vars == <<cells, got, atRest, op, start, length, done>>

Cells == 0 .. Size - 1
Sector(a) == a \div SectorSize
Touched == {Sector(start + k) : k \in 0 .. length - 1}

Init ==
  /\ cells \in [Cells -> {Erased, Other}]
  /\ got = [k \in 0 .. MaxSize - 1 |-> Other] /\ atRest = TRUE
  /\ op = "none" /\ start = 0 /\ length = 0 /\ done = 0

\* A new call: what earlier calls wrote is just another content.
Begin ==
  /\ op = "none"
  /\ op' \in {"write", "read", "erase"}
  /\ start' \in Cells /\ length' \in 0 .. Size - start'
  /\ done' = 0
  /\ got' = [k \in 0 .. MaxSize - 1 |-> Other]
  /\ atRest = TRUE /\ UNCHANGED atRest
  /\ cells' = [a \in Cells |-> IF cells[a] = Erased THEN Erased ELSE Other]

\* Flash cells only lose bits: data is as written on an erased cell.
Write ==
  /\ op = "write"
  /\ done' \in done + 1 .. length
  /\ cells' = [a \in Cells |->
       IF a \in start + done .. start + done' - 1
         THEN IF cells[a] = Erased THEN a - start ELSE Other
         ELSE cells[a]]
  /\ atRest' \in BOOLEAN
  /\ UNCHANGED <<got, op, start, length>>

Erase ==
  /\ op = "erase"
  /\ done' \in done + 1 .. length
  /\ \E s \in Touched :
       cells' = [a \in Cells |-> IF Sector(a) = s THEN Erased ELSE cells[a]]
  /\ atRest' \in BOOLEAN
  /\ UNCHANGED <<got, op, start, length>>

Read ==
  /\ op = "read"
  /\ done' \in done + 1 .. length
  /\ got' = [k \in 0 .. MaxSize - 1 |->
       IF k \in done .. done' - 1 THEN start + k ELSE got[k]]
  /\ UNCHANGED <<cells, atRest, op, start, length>>

\* The device comes and goes while it works for a call.
Work ==
  /\ op # "none"
  /\ atRest' \in BOOLEAN
  /\ UNCHANGED <<cells, got, op, start, length, done>>

Return ==
  /\ op # "none"
  /\ done = length
  /\ op = "erase" => \A a \in Cells : Sector(a) \in Touched => cells[a] = Erased
  /\ op' = "none" /\ start' = 0 /\ length' = 0 /\ done' = 0
  /\ atRest = TRUE /\ UNCHANGED <<cells, got, atRest>>

Next == Begin \/ Write \/ Erase \/ Read \/ Work \/ Return

Spec == Init /\ [][Next]_vars

=============================================================================
