----------------------------- MODULE LogNumbers -----------------------------
(***************************************************************************)
(* What src/src/log.c writes for a message and for a number, as sequences  *)
(* of what is sent.  Pure functions, checked by the assumptions after them; *)
(* the switch of the log is in module Console.                             *)
(***************************************************************************)
EXTENDS Integers, Sequences

tenPower(i) == 10^i

\* The loop looks at ten powers, enough for 32 bits.
getNumDigits(number) ==
  IF number = 0 THEN 1
  ELSE LET size[i \in 0 .. 10] ==
             IF i = 0 THEN 0
             ELSE size[i - 1] + (IF number >= tenPower(i - 1) THEN 1 ELSE 0)
       IN size[10]

printInteger(integer) ==
  LET size == getNumDigits(integer)
  IN [k \in 1 .. size |-> (integer \div tenPower(size - k)) % 10]

printBinaryByte(byte) == [k \in 1 .. 8 |-> (byte \div 2^(8 - k)) % 2]

Code0 == 48   \* '0'
CodeA == 65   \* 'A'
nibbleToHexCharacter(nibble) ==
  IF nibble < 10 THEN Code0 + nibble ELSE CodeA + nibble - 10

printHexByte(byte) ==
  <<nibbleToHexCharacter(byte \div 16), nibbleToHexCharacter(byte % 16)>>

Number(digits, base) ==
  LET Up[n \in 0 .. Len(digits)] == IF n = 0 THEN 0 ELSE Up[n - 1] * base + digits[n]
  IN Up[Len(digits)]

\* The digits are those of the number and there is no zero before them.
ASSUME NumbersReadBack ==
  /\ \A n \in 0 .. 1001 \cup {99999, 100000, 999999999, 1000000000, 2147483647} :
       LET d == printInteger(n) IN
       /\ Number(d, 10) = n
       /\ \A k \in DOMAIN d : d[k] \in 0 .. 9
       /\ d[1] = 0 => d = <<0>>
  /\ \A b \in 0 .. 255 : Number(printBinaryByte(b), 2) = b
  /\ \A b, c \in 0 .. 255 : printHexByte(b) = printHexByte(c) => b = c
-----------------------------------------------------------------------------
(* File names.                                                             *)

\* The name printed for a file.
stripPath(filename) ==
  LET slashes == {i \in 1 .. Len(filename) : filename[i] = "/"}
      position == IF slashes = {} THEN 1 ELSE CHOOSE i \in slashes : \A j \in slashes : j <= i
  IN SubSeq(filename, position + 1, Len(filename))

\* Of a path the last part is printed; a name without one loses its first
\* character.
ASSUME LastPartPrinted ==
  /\ \A dir \in {<<"/">>, <<".", "/">>, <<"a", "/", "b", "/">>}, name \in {<<>>, <<"c">>, <<"c", "d">>} :
       stripPath(dir \o name) = name
  /\ stripPath(<<"c", "d">>) = <<"d">>
-----------------------------------------------------------------------------
(* Messages.                                                               *)

\* What each directive sends of its argument; any other takes none.
Shown(directive, value) ==
  CASE directive \in {"d", "l"} -> <<"integer", value>>
    [] directive = "i" -> <<"binary", value>>
    [] directive = "h" -> <<"hex", value>>
    [] directive = "s" -> <<"string", value>>
Directives == {"d", "l", "i", "h", "s"}

\* log_log: fmt and the arguments not taken yet.  A directive is one character.
log_log(fmt, args) ==
  LET From[i \in 1 .. Len(fmt) + 2, taken \in 0 .. Len(fmt)] ==
        CASE i > Len(fmt) -> <<>>
          [] i <= Len(fmt) /\ fmt[i] # "%" -> <<fmt[i]>> \o From[i + 1, taken]
          [] i < Len(fmt) /\ fmt[i] = "%" /\ fmt[i + 1] \in Directives ->
               <<Shown(fmt[i + 1], args[taken + 1])>> \o From[i + 2, taken + 1]
          [] i < Len(fmt) /\ fmt[i] = "%" /\ fmt[i + 1] = "%" -> <<"%">> \o From[i + 2, taken]
          [] OTHER -> From[i + 2, taken]
  IN From[1, 0]

\* A message of known directives shows every argument in its place; a width
\* hides its directive, and the arguments after it are shown one too early.
ASSUME MessagesShowArguments ==
  /\ log_log(<<"a", "%", "d", ":", "%", "%", "%", "s">>, <<7, "x">>)
       = <<"a", <<"integer", 7>>, ":", "%", <<"string", "x">>>>
  /\ log_log(<<"%", "3", "l", "x", " ", "%", "d">>, <<7, 8>>)
       = <<"l", "x", " ", <<"integer", 7>>>>
  /\ \A dirs \in [1 .. 3 -> Directives] :
       log_log(<<"%", dirs[1], "%", dirs[2], "%", dirs[3]>>, <<1, 2, 3>>)
         = [k \in 1 .. 3 |-> Shown(dirs[k], k)]

=============================================================================
