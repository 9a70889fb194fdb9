---------------------------- MODULE ConsoleProofs ---------------------------
(***************************************************************************)
(* Theorems about Console for every size of the line buffer, of the token  *)
(* list and of the table of clients.  The refinement of LineEditor rests   *)
(* on three bridges: the recursion that cuts tokens out of the buffer in   *)
(* place finds the words of the line (TokensAreWords), what is made of     *)
(* them is what LineEditor answers (AnswerIs), and the table is a set of   *)
(* clients without double names (RegisterIs).                              *)
(***************************************************************************)
EXTENDS Console, SequenceTheorems, FiniteSetTheorems, FunctionTheorems,
        WellFoundedInduction, TLAPS

USE SizesAssumption

\* Cutting tokens out of the line writes nothing but NULs, inside the buffer.
LEMMA CutTyped ==
  ASSUME NEW buffer \in [Cells -> Printable \cup {NUL}]
  PROVE  Cut(buffer) \in [Cells -> Printable \cup {NUL}]
<1> DEFINE ends == LET starts == TokenStarts(buffer)
                   IN {EndOf(buffer, starts[n]) : n \in {m \in 1 .. Len(starts) : m <= MAX_TOKENS}}
<1>1. Cut(buffer) = [q \in Cells |-> IF q \in ends THEN NUL ELSE buffer[q]]
  BY DEF Cut
<1> HIDE DEF ends
<1>2. \A q \in Cells : (IF q \in ends THEN NUL ELSE buffer[q]) \in Printable \cup {NUL}
  OBVIOUS
<1> QED
  BY <1>1, <1>2, Zenon

\* The terminator always has a cell: the place of the next character lies
\* inside the buffer.
LEMMA EnterTyped ==
  ASSUME TypeOK, Enter, UNCHANGED <<running, clientInfo>>
  PROVE  TypeOK'
<1> DEFINE line == [cmdBuffer EXCEPT ![num_cmd_bfr_chars] = NUL]
<1>1. line \in [Cells -> Printable \cup {NUL}]
  BY DEF TypeOK
<1>2. cmdBuffer' = Cut(line) /\ num_cmd_bfr_chars' = 0 /\ UNCHANGED <<first_run_done, outputEnabled>>
  BY DEF Enter
<1> HIDE DEF line
<1>3. cmdBuffer' \in [Cells -> Printable \cup {NUL}]
  BY <1>1, <1>2, CutTyped
<1> QED
  BY <1>2, <1>3 DEF TypeOK, Cells

\* A character goes into the line only where the terminator fits after it.
LEMMA EchoTyped ==
  ASSUME TypeOK, NEW c \in Printable, Echo(c), UNCHANGED <<running, clientInfo>>
  PROVE  TypeOK'
<1>1. /\ num_cmd_bfr_chars \in Nat /\ cmdBuffer \in [Cells -> Printable \cup {NUL}]
      /\ \A i \in 0 .. num_cmd_bfr_chars - 1 : cmdBuffer[i] # NUL
  BY DEF TypeOK, Cells
<1>2. CASE UNCHANGED <<cmdBuffer, num_cmd_bfr_chars>>
  BY <1>2 DEF Echo, TypeOK
<1>3. CASE Fits /\ cmdBuffer' = [cmdBuffer EXCEPT ![num_cmd_bfr_chars] = c]
                /\ num_cmd_bfr_chars' = num_cmd_bfr_chars + 1
  <2>1. num_cmd_bfr_chars' \in Cells /\ num_cmd_bfr_chars \in Cells
    BY <1>1, <1>3 DEF Fits, Cells
  <2>2. cmdBuffer' \in [Cells -> Printable \cup {NUL}]
    BY <1>1, <1>3
  <2>3. c # NUL
    BY LettersAssumption DEF Printable, NUL
  <2>4. ASSUME NEW i \in 0 .. num_cmd_bfr_chars' - 1 PROVE cmdBuffer'[i] # NUL
    <3>1. i \in Cells
      BY <1>1, <1>3, <2>1, <2>4 DEF Cells
    <3> QED
      BY <1>1, <1>3, <2>1, <2>3, <2>4, <3>1
  <2> QED
    BY <2>1, <2>2, <2>4 DEF Echo, TypeOK
<1> QED
  BY <1>2, <1>3 DEF Echo

\* Registering writes inside the table, whether it has room or not.
LEMMA RegisterTyped ==
  ASSUME TypeOK, NEW c \in Clients, cmd_register(c)
  PROVE  TypeOK'
<1>1. clientInfo \in Seq(Clients) /\ Len(clientInfo) <= MAX_CLIENTS
  BY DEF TypeOK
<1>2. CASE UNCHANGED clientInfo
  BY <1>2 DEF cmd_register, TypeOK
<1>3. CASE Len(clientInfo) < MAX_CLIENTS /\ clientInfo' = Append(clientInfo, c)
  <2>1. clientInfo' \in Seq(Clients) /\ Len(clientInfo') <= MAX_CLIENTS
    BY <1>1, <1>3
  <2> QED
    BY <2>1 DEF cmd_register, TypeOK
<1>4. CASE \E i : clientInfo' = [clientInfo EXCEPT ![i] = c]
  <2>1. clientInfo' \in Seq(Clients) /\ Len(clientInfo') <= MAX_CLIENTS
    <3>1. PICK i : clientInfo' = [clientInfo EXCEPT ![i] = c]
      BY <1>4
    <3>2. CASE i \in 1 .. Len(clientInfo)
      BY <1>1, <3>1, <3>2, ExceptSeq
    <3>3. CASE i \notin 1 .. Len(clientInfo)
      <4>1. clientInfo' = clientInfo
        BY <1>1, <3>1, <3>3
      <4> QED
        BY <1>1, <4>1
    <3> QED
      BY <3>2, <3>3
  <2> QED
    BY <2>1 DEF cmd_register, TypeOK
<1> QED
  BY <1>2, <1>3, <1>4 DEF cmd_register

\* Every key and every client keeps the types.
LEMMA TypeStep == TypeOK /\ [Next]_vars => TypeOK'
<1> SUFFICES ASSUME TypeOK, [Next]_vars PROVE TypeOK'
  OBVIOUS
<1>1. CASE ConsoleRunBegins
  BY <1>1 DEF ConsoleRunBegins, TypeOK
<1>2. CASE ConsoleRunEnds
  BY <1>2 DEF ConsoleRunEnds, TypeOK
<1>3. ASSUME NEW c \in Key, ConsoleRunTakes(c) PROVE TypeOK'
  <2>1. UNCHANGED <<running, clientInfo>>
    BY <1>3 DEF ConsoleRunTakes
  <2>2. CASE Enter
    BY <2>1, <2>2, EnterTyped
  <2>3. CASE Backspace
    <3>1. /\ num_cmd_bfr_chars' \in Cells /\ num_cmd_bfr_chars' <= num_cmd_bfr_chars
          /\ num_cmd_bfr_chars \in Nat
      BY <2>3 DEF Backspace, TypeOK, Cells
    <3>2. \A i \in 0 .. num_cmd_bfr_chars' - 1 : cmdBuffer'[i] # NUL
      BY <2>3, <3>1 DEF Backspace, TypeOK, Cells
    <3> QED
      BY <2>1, <2>3, <3>1, <3>2 DEF Backspace, TypeOK
  <2>4. CASE Toggle
    BY <2>1, <2>4 DEF Toggle, TypeOK
  <2>5. CASE c \in Printable /\ Echo(c)
    BY <2>1, <2>5, EchoTyped
  <2>6. CASE UNCHANGED <<cmdBuffer, num_cmd_bfr_chars, first_run_done, outputEnabled>>
    BY <2>1, <2>6 DEF TypeOK
  <2>7. \/ Enter \/ Backspace \/ Toggle \/ (c \in Printable /\ Echo(c))
        \/ UNCHANGED <<cmdBuffer, num_cmd_bfr_chars, first_run_done, outputEnabled>>
    BY <1>3 DEF ConsoleRunTakes
  <2> QED
    BY <2>2, <2>3, <2>4, <2>5, <2>6, <2>7
<1>4. CASE Register
  BY <1>4, RegisterTyped DEF Register
<1>5. CASE UNCHANGED vars
  BY <1>5 DEF vars, TypeOK
<1> QED
  BY <1>1, <1>2, <1>3, <1>4, <1>5 DEF Next

\* Nothing is typed and nobody registered yet.
LEMMA InitTyped == Init => TypeOK
<1> SUFFICES ASSUME Init PROVE TypeOK
  OBVIOUS
<1>1. num_cmd_bfr_chars \in Cells /\ cmdBuffer \in [Cells -> Printable \cup {NUL}]
  BY DEF Init, Cells
<1>2. clientInfo \in Seq(Clients) /\ Len(clientInfo) <= MAX_CLIENTS
  BY DEF Init
<1>3. \A i \in 0 .. num_cmd_bfr_chars - 1 : cmdBuffer[i] # NUL
  BY DEF Init
<1> QED
  BY <1>1, <1>2, <1>3 DEF Init, TypeOK

\* Whatever is typed and whoever registers, every write stays inside the line
\* buffer and the table, and the line being typed holds no terminator
\* (console.c:42-104, cmd.c:14-60).
THEOREM TypeCorrect == Spec => []TypeOK
BY InitTyped, TypeStep, PTL DEF Spec
-----------------------------------------------------------------------------
(* Induction.  The induction theorems of the library are about operators,  *)
(* which the provers cannot instantiate; that a set of naturals has a      *)
(* least element serves as well.                                           *)

\* Every set of naturals that has elements has a least one.
LEMMA Least ==
  ASSUME NEW T \in SUBSET Nat, T # {}
  PROVE  \E m \in T : \A k \in T : m <= k
<1> DEFINE R == OpToRel(<, Nat)
<1>1. IsWellFoundedOn(R, Nat)
  BY NatLessThanWellFounded
<1>2. \A x, y \in Nat : <<y, x>> \in R <=> y < x
  BY DEF OpToRel
<1> HIDE DEF R
<1>3. \E x \in T : \A y \in T : ~ (<<y, x>> \in R)
  BY <1>1, WFMin
<1>4. PICK m \in T : \A k \in T : ~ (<<k, m>> \in R)
  BY <1>3
<1>5. \A k \in T : ~ (k < m)
  BY <1>2, <1>4, Zenon
<1>6. \A k \in T : m <= k
  BY <1>5
<1> QED
  BY <1>6

\* A set that holds 0 and with every number the next holds all of them.
LEMMA SetInduction ==
  ASSUME NEW S, NEW n \in Nat, 0 \in S, \A k \in 0 .. n - 1 : k \in S => k + 1 \in S
  PROVE  \A k \in 0 .. n : k \in S
<1> DEFINE T == {k \in 0 .. n : k \notin S}
<1> SUFFICES ASSUME T # {} PROVE FALSE
  OBVIOUS
<1>1. T \in SUBSET Nat
  OBVIOUS
<1>2. PICK m \in T : \A k \in T : m <= k
  <2> HIDE DEF T
  <2> QED
    BY <1>1, Least
<1>3. m \in 1 .. n /\ m \notin S
  OBVIOUS
<1>4. m - 1 \in 0 .. n - 1 /\ m - 1 \notin T
  BY <1>2, <1>3
<1>5. m - 1 \in S
  BY <1>3, <1>4
<1> QED
  BY <1>3, <1>4, <1>5

\* First finds the first place.
LEMMA FirstIsLeast ==
  ASSUME NEW places \in SUBSET Nat, places # {}
  PROVE  First(places) \in places /\ \A j \in places : First(places) <= j
<1>1. \E i \in places : \A j \in places : i <= j
  BY Least
<1> QED
  BY <1>1 DEF First
-----------------------------------------------------------------------------
(* The tokens.  A buffer that ends in a NUL is a string.                   *)

Last == CONSOLE_CMD_BFR_SIZE - 1
Buffers == {buffer \in [Cells -> Printable \cup {NUL}] : buffer[Last] = NUL}

\* What follows from the letters being neither the NUL nor the space.
LEMMA Marks ==
  /\ NUL \notin Letter /\ " " \notin Letter /\ NUL # " "
  /\ \A c \in Printable \cup {NUL} : c \notin Letter <=> c = NUL \/ c = " "
BY LettersAssumption DEF NUL, Printable

\* Cells are numbered from 0 to the last.
LEMMA CellsTyped == Last \in Nat /\ Cells = 0 .. Last /\ Cells \subseteq Nat
BY DEF Cells, Last

\* What does not end the string has a cell behind it.
LEMMA NextInside ==
  ASSUME NEW buffer \in Buffers, NEW q \in Cells, buffer[q] # NUL
  PROVE  q + 1 \in Cells
<1>1. buffer[Last] = NUL
  BY DEF Buffers
<1>2. q # Last
  BY <1>1
<1> QED
  BY <1>2, CellsTyped

\* A token ends at the first character that is no letter, inside the buffer.
LEMMA TokenEnds ==
  ASSUME NEW buffer \in Buffers, NEW p \in Cells
  PROVE  /\ EndOf(buffer, p) \in p .. Last /\ EndOf(buffer, p) \in Cells
         /\ buffer[EndOf(buffer, p)] \notin Letter
         /\ \A j \in p .. EndOf(buffer, p) - 1 : buffer[j] \in Letter
         /\ \A j \in p .. Last : buffer[j] \notin Letter => EndOf(buffer, p) <= j
<1> DEFINE places == {q \in p .. Last : buffer[q] \notin Letter}
           e == First(places)
<1>1. p \in Nat /\ Last \in Nat /\ p <= Last
  BY CellsTyped
<1>2. buffer[Last] \notin Letter
  BY Marks DEF Buffers
<1>3. Last \in places /\ places \in SUBSET Nat
  BY <1>1, <1>2
<1>4. EndOf(buffer, p) = e
  BY DEF EndOf, Last
<1>5. e \in places /\ \A j \in places : e <= j
  <2> HIDE DEF places
  <2> QED
    BY <1>3, FirstIsLeast
<1> HIDE DEF e
<1>6. e \in p .. Last /\ buffer[e] \notin Letter
  BY <1>5
<1>7. \A j \in p .. Last : buffer[j] \notin Letter => e <= j
  BY <1>5
<1>8. ASSUME NEW j \in p .. e - 1 PROVE buffer[j] \in Letter
  <2>1. j \in p .. Last /\ ~ (e <= j)
    BY <1>1, <1>6
  <2> QED
    BY <1>7, <2>1
<1>9. e \in Cells
  BY <1>1, <1>6, CellsTyped
<1> QED
  BY <1>4, <1>6, <1>7, <1>8, <1>9

\* One turn of the tokeniser's recursion.
Turn(f, buffer, p) ==
  CASE buffer[p] = NUL -> <<>>
    [] buffer[p] = " " -> f[p + 1]
    [] OTHER -> LET q == EndOf(buffer, p) IN
                <<p>> \o (IF buffer[q] = NUL THEN <<>> ELSE f[q + 1])

\* The three kinds of a turn.
LEMMA TurnIs ==
  ASSUME NEW buffer \in Buffers, NEW p \in Cells, NEW f
  PROVE  /\ buffer[p] = NUL => Turn(f, buffer, p) = <<>>
         /\ buffer[p] = " " => Turn(f, buffer, p) = f[p + 1]
         /\ buffer[p] \in Letter =>
              Turn(f, buffer, p) = <<p>> \o (IF buffer[EndOf(buffer, p)] = NUL THEN <<>>
                                             ELSE f[EndOf(buffer, p) + 1])
         /\ buffer[p] = NUL \/ buffer[p] = " " \/ buffer[p] \in Letter
<1>1. buffer[p] \in Printable \cup {NUL}
  BY DEF Buffers
<1>2. NUL # " " /\ NUL \notin Letter /\ " " \notin Letter
  BY Marks
<1>3. buffer[p] = NUL \/ buffer[p] = " " \/ buffer[p] \in Letter
  BY <1>1 DEF Printable
<1>4. buffer[p] = NUL => Turn(f, buffer, p) = <<>>
  BY <1>2 DEF Turn
<1>5. buffer[p] = " " => Turn(f, buffer, p) = f[p + 1]
  BY <1>2 DEF Turn
<1>6. buffer[p] \in Letter =>
        Turn(f, buffer, p) = <<p>> \o (IF buffer[EndOf(buffer, p)] = NUL THEN <<>>
                                       ELSE f[EndOf(buffer, p) + 1])
  BY <1>2 DEF Turn
<1> QED
  BY <1>3, <1>4, <1>5, <1>6

\* A turn looks only at cells behind its own.
LEMMA TurnLooksAhead ==
  ASSUME NEW buffer \in Buffers, NEW p \in Cells, NEW f, NEW g,
         \A q \in Cells : q > p => f[q] = g[q]
  PROVE  Turn(f, buffer, p) = Turn(g, buffer, p)
<1> DEFINE q == EndOf(buffer, p)
<1>1. q \in Cells /\ q >= p /\ p \in Nat /\ q \in Nat
  BY TokenEnds, CellsTyped
<1>2. buffer[q] # NUL => f[q + 1] = g[q + 1]
  BY <1>1, NextInside
<1>3. buffer[p] # NUL => f[p + 1] = g[p + 1]
  BY <1>1, NextInside
<1>4. CASE buffer[p] = NUL
  BY <1>4, TurnIs
<1>5. CASE buffer[p] = " "
  <2>1. Turn(f, buffer, p) = f[p + 1] /\ Turn(g, buffer, p) = g[p + 1]
    BY <1>5, TurnIs
  <2>2. buffer[p] # NUL
    BY <1>5, Marks
  <2> QED
    BY <1>3, <2>1, <2>2
<1>6. CASE buffer[p] \in Letter
  <2>1. (IF buffer[q] = NUL THEN <<>> ELSE f[q + 1]) = (IF buffer[q] = NUL THEN <<>> ELSE g[q + 1])
    BY <1>2
  <2>2. Turn(f, buffer, p) = <<p>> \o (IF buffer[q] = NUL THEN <<>> ELSE f[q + 1])
    BY <1>6, TurnIs
  <2>3. Turn(g, buffer, p) = <<p>> \o (IF buffer[q] = NUL THEN <<>> ELSE g[q + 1])
    BY <1>6, TurnIs
  <2> QED
    BY <2>1, <2>2, <2>3
<1> QED
  BY <1>4, <1>5, <1>6, TurnIs

\* A turn adds one place or none to a sequence of places.
LEMMA TurnTyped ==
  ASSUME NEW buffer \in Buffers, NEW p \in Cells, NEW f \in [Cells -> Seq(Nat)]
  PROVE  Turn(f, buffer, p) \in Seq(Nat)
<1> DEFINE q == EndOf(buffer, p)
           rest == IF buffer[q] = NUL THEN <<>> ELSE f[q + 1]
<1>1. p \in Nat /\ q \in Cells
  BY TokenEnds, CellsTyped
<1>2. buffer[p] # NUL => f[p + 1] \in Seq(Nat)
  BY NextInside
<1>3. buffer[q] # NUL => f[q + 1] \in Seq(Nat)
  BY <1>1, NextInside
<1>4. rest \in Seq(Nat) /\ <<p>> \in Seq(Nat) /\ <<>> \in Seq(Nat)
  BY <1>1, <1>3
<1>5. buffer[p] \in Letter => Turn(f, buffer, p) = <<p>> \o rest
  BY TurnIs
<1> HIDE DEF rest
<1>6. <<p>> \o rest \in Seq(Nat)
  BY <1>4, ConcatProperties
<1>7. CASE buffer[p] = NUL
  BY <1>4, <1>7, TurnIs
<1>8. CASE buffer[p] = " "
  <2>1. Turn(f, buffer, p) = f[p + 1]
    BY <1>8, TurnIs
  <2>2. buffer[p] # NUL
    BY <1>8, Marks
  <2> QED
    BY <1>2, <2>1, <2>2
<1>9. CASE buffer[p] \in Letter
  BY <1>5, <1>6, <1>9
<1> QED
  BY <1>7, <1>8, <1>9, TurnIs

\* The recursion of TokenStarts has a solution: it is built from the last cell
\* to the first.
LEMMA TurnsExist ==
  ASSUME NEW buffer \in Buffers
  PROVE  \E f : f = [p \in Cells |-> Turn(f, buffer, p)]
<1> DEFINE Solved(k) == \E f \in [Cells -> Seq(Nat)] :
                          \A p \in Cells : p + k > Last => f[p] = Turn(f, buffer, p)
           S == {k \in Nat : Solved(k)}
<1>1. Solved(0)
  <2>1. \A p \in Cells : ~ (p + 0 > Last)
    BY CellsTyped
  <2>2. [p \in Cells |-> <<>>] \in [Cells -> Seq(Nat)]
    OBVIOUS
  <2> QED
    BY <2>1, <2>2
<1>2. ASSUME NEW k \in 0 .. Last, Solved(k)
      PROVE  Solved(k + 1)
  <2>1. PICK f \in [Cells -> Seq(Nat)] :
          \A p \in Cells : p + k > Last => f[p] = Turn(f, buffer, p)
    BY <1>2
  <2> DEFINE new == Last - k
             g == [f EXCEPT ![new] = Turn(f, buffer, new)]
  <2>2. new \in Cells /\ new \in Nat /\ Last \in Nat
    BY CellsTyped
  <2>3. g \in [Cells -> Seq(Nat)]
    BY <2>2, TurnTyped
  <2>4. \A q \in Cells : q > new => f[q] = g[q]
    BY <2>2
  <2>5. g[new] = Turn(f, buffer, new)
    BY <2>2
  <2> HIDE DEF g
  <2>6. ASSUME NEW p \in Cells, p >= new
        PROVE  Turn(f, buffer, p) = Turn(g, buffer, p)
    <3>1. \A q \in Cells : q > p => f[q] = g[q]
      BY <2>2, <2>4, <2>6, CellsTyped
    <3> QED
      BY <3>1, TurnLooksAhead
  <2>7. ASSUME NEW p \in Cells, p + (k + 1) > Last
        PROVE  g[p] = Turn(g, buffer, p)
    <3>1. p \in Nat /\ p >= new
      BY <2>2, <2>7, CellsTyped
    <3>2. CASE p = new
      BY <2>2, <2>5, <2>6, <3>2
    <3>3. CASE p > new
      <4>1. p + k > Last /\ f[p] = g[p]
        BY <2>2, <2>4, <3>1, <3>3
      <4> QED
        BY <2>1, <2>6, <3>1, <4>1
    <3> QED
      BY <2>2, <3>1, <3>2, <3>3
  <2> QED
    BY <2>3, <2>7
<1>3. Solved(Last + 1)
  <2> HIDE DEF Solved
  <2>1. 0 \in S /\ \A k \in 0 .. Last : k \in S => k + 1 \in S
    BY <1>1, <1>2
  <2>2. Last + 1 \in Nat /\ Last \in Nat
    BY CellsTyped
  <2> HIDE DEF S
  <2>3. \A k \in 0 .. Last + 1 : k \in S
    BY <2>1, <2>2, SetInduction
  <2> QED
    BY <2>2, <2>3 DEF S
<1>4. PICK f \in [Cells -> Seq(Nat)] :
        \A p \in Cells : p + (Last + 1) > Last => f[p] = Turn(f, buffer, p)
  BY <1>3
<1>5. \A p \in Cells : f[p] = Turn(f, buffer, p)
  BY <1>4, CellsTyped
<1>6. f = [p \in Cells |-> Turn(f, buffer, p)]
  BY <1>5
<1> QED
  BY <1>6

\* TokenStarts is the first value of a solution.
LEMMA TokenStartsIs ==
  ASSUME NEW buffer \in Buffers
  PROVE  \E f : /\ TokenStarts(buffer) = f[0]
                /\ \A p \in Cells : f[p] = Turn(f, buffer, p)
<1> DEFINE f == CHOOSE g : g = [p \in Cells |-> Turn(g, buffer, p)]
<1>1. TokenStarts(buffer) = f[0]
  BY DEF TokenStarts, Turn
<1>2. f = [p \in Cells |-> Turn(f, buffer, p)]
  BY TurnsExist
<1> HIDE DEF f
<1>3. \A p \in Cells : f[p] = Turn(f, buffer, p)
  BY <1>2
<1> QED
  BY <1>1, <1>3
-----------------------------------------------------------------------------
(* The tokens of a line of n characters start where its words do.          *)

\* The string at the begin of the buffer has n characters.
IsLine(buffer, n) ==
  /\ n \in Cells /\ buffer[n] = NUL
  /\ \A i \in 0 .. n - 1 : buffer[i] # NUL

\* A word starts where none goes on.
Boundary(buffer, p) == p = 0 \/ buffer[p - 1] \notin Letter
StartsFrom(buffer, p, n) == {i \in p .. n - 1 : buffer[i] \in Letter /\ Boundary(buffer, i)}

\* The sequence s has the elements of T in their order.
Lists(s, T) ==
  /\ s \in Seq(Nat)
  /\ \A a, b \in 1 .. Len(s) : a < b => s[a] < s[b]
  /\ \A a \in 1 .. Len(s) : s[a] \in T
  /\ \A t \in T : \E a \in 1 .. Len(s) : s[a] = t

\* The empty sequence lists nothing.
LEMMA ListsNone == Lists(<<>>, {})
BY DEF Lists

\* A smaller number in front.
LEMMA ListsOneMore ==
  ASSUME NEW s, NEW T, Lists(s, T), NEW p \in Nat, \A t \in T : p < t
  PROVE  Lists(<<p>> \o s, {p} \cup T)
<1> DEFINE r == <<p>> \o s
<1>1. s \in Seq(Nat) /\ <<p>> \in Seq(Nat) /\ Len(<<p>>) = 1 /\ Len(s) \in Nat
  BY DEF Lists
<1>2. /\ r \in Seq(Nat) /\ Len(r) = 1 + Len(s)
      /\ \A i \in 1 .. 1 + Len(s) : r[i] = IF i <= 1 THEN <<p>>[i] ELSE s[i - 1]
  BY <1>1, ConcatProperties
<1> HIDE DEF r
<1>3. r[1] = p /\ \A i \in 2 .. Len(r) : i - 1 \in 1 .. Len(s) /\ r[i] = s[i - 1]
  BY <1>1, <1>2
<1>4. \A i \in 1 .. Len(r) : i = 1 \/ i \in 2 .. Len(r)
  BY <1>1, <1>2
<1>5. ASSUME NEW a \in 1 .. Len(r), NEW b \in 1 .. Len(r), a < b
      PROVE  r[a] < r[b]
  <2>1. b \in 2 .. Len(r) /\ b - 1 \in 1 .. Len(s) /\ r[b] = s[b - 1]
    BY <1>3, <1>5
  <2>2. CASE a = 1
    <3>1. s[b - 1] \in T
      BY <2>1 DEF Lists
    <3> QED
      BY <1>3, <2>1, <2>2, <3>1
  <2>3. CASE a \in 2 .. Len(r)
    <3>1. a - 1 \in 1 .. Len(s) /\ r[a] = s[a - 1] /\ a - 1 < b - 1
      BY <1>3, <1>5, <2>3
    <3> QED
      BY <2>1, <3>1 DEF Lists
  <2> QED
    BY <1>4, <2>2, <2>3
<1>6. ASSUME NEW a \in 1 .. Len(r) PROVE r[a] \in {p} \cup T
  <2>1. CASE a = 1
    BY <1>3, <2>1
  <2>2. CASE a \in 2 .. Len(r)
    BY <1>3, <2>2 DEF Lists
  <2> QED
    BY <1>4, <2>1, <2>2
<1>7. ASSUME NEW t \in {p} \cup T PROVE \E a \in 1 .. Len(r) : r[a] = t
  <2>1. CASE t = p
    <3>1. 1 \in 1 .. Len(r)
      BY <1>1, <1>2
    <3> QED
      BY <1>3, <2>1, <3>1
  <2>2. CASE t \in T
    <3>1. PICK b \in 1 .. Len(s) : s[b] = t
      BY <2>2 DEF Lists
    <3>2. b + 1 \in 2 .. Len(r) /\ b + 1 \in 1 .. Len(r) /\ (b + 1) - 1 = b
      BY <1>1, <1>2
    <3> QED
      BY <1>3, <3>1, <3>2
  <2> QED
    BY <2>1, <2>2
<1>8. Lists(r, {p} \cup T)
  BY <1>2, <1>5, <1>6, <1>7 DEF Lists
<1> QED
  BY <1>8 DEF r

\* The token at p ends inside the line, and no word starts before its end.
LEMMA StartsAfterToken ==
  ASSUME NEW buffer \in Buffers, NEW n, IsLine(buffer, n), NEW p \in 0 .. n - 1,
         buffer[p] \in Letter, Boundary(buffer, p)
  PROVE  LET q == EndOf(buffer, p) IN
         /\ q \in p + 1 .. n
         /\ buffer[q] = NUL => StartsFrom(buffer, p, n) = {p} \cup {}
         /\ buffer[q] # NUL => /\ q < n /\ Boundary(buffer, q + 1)
                               /\ StartsFrom(buffer, p, n) = {p} \cup StartsFrom(buffer, q + 1, n)
<1> DEFINE q == EndOf(buffer, p)
<1>1. n \in Nat /\ n <= Last /\ Last \in Nat /\ p \in Cells /\ p \in Nat /\ p < n
  BY CellsTyped DEF IsLine
<1>2. buffer[n] \notin Letter
  BY Marks DEF IsLine
<1>3. /\ q \in p .. Last /\ buffer[q] \notin Letter
      /\ \A j \in p .. q - 1 : buffer[j] \in Letter
      /\ \A j \in p .. Last : buffer[j] \notin Letter => q <= j
  BY <1>1, TokenEnds
<1> HIDE DEF q
<1>4. q \in p + 1 .. n
  <2>1. n \in p .. Last
    BY <1>1
  <2>2. q # p
    BY <1>3
  <2> QED
    BY <1>1, <1>2, <1>3, <2>1, <2>2
<1>5. ASSUME NEW i \in p + 1 .. q PROVE ~ (buffer[i] \in Letter /\ Boundary(buffer, i))
  <2>1. i - 1 \in p .. q - 1 /\ i # 0
    BY <1>1, <1>4
  <2> QED
    BY <1>3, <2>1 DEF Boundary
<1>6. p \in StartsFrom(buffer, p, n)
  BY <1>1 DEF StartsFrom
<1>7. CASE buffer[q] = NUL
  <2>1. q = n
    BY <1>1, <1>4, <1>7 DEF IsLine
  <2>2. ASSUME NEW i \in StartsFrom(buffer, p, n) PROVE i = p
    <3>1. i \in p .. n - 1 /\ buffer[i] \in Letter /\ Boundary(buffer, i)
      BY DEF StartsFrom
    <3> QED
      BY <1>1, <1>5, <2>1, <3>1
  <2>3. StartsFrom(buffer, p, n) = {p} \cup {}
    BY <1>6, <2>2
  <2> QED
    BY <1>4, <1>7, <2>3 DEF q
<1>8. CASE buffer[q] # NUL
  <2>1. q < n
    BY <1>1, <1>4, <1>8 DEF IsLine
  <2>2. Boundary(buffer, q + 1)
    <3>1. (q + 1) - 1 = q
      BY <1>1, <1>4
    <3> QED
      BY <1>3, <3>1 DEF Boundary
  <2>3. ASSUME NEW i \in StartsFrom(buffer, p, n), i # p
        PROVE  i \in StartsFrom(buffer, q + 1, n)
    <3>1. i \in p .. n - 1 /\ buffer[i] \in Letter /\ Boundary(buffer, i)
      BY DEF StartsFrom
    <3>2. i \in q + 1 .. n - 1
      BY <1>1, <1>4, <1>5, <2>3, <3>1
    <3> QED
      BY <3>1, <3>2 DEF StartsFrom
  <2>4. StartsFrom(buffer, q + 1, n) \subseteq StartsFrom(buffer, p, n)
    <3>1. \A i \in q + 1 .. n - 1 : i \in p .. n - 1
      BY <1>1, <1>4
    <3> QED
      BY <3>1 DEF StartsFrom
  <2>5. StartsFrom(buffer, p, n) = {p} \cup StartsFrom(buffer, q + 1, n)
    BY <1>6, <2>3, <2>4
  <2> QED
    BY <1>4, <1>8, <2>1, <2>2, <2>5 DEF q
<1> QED
  BY <1>7, <1>8

\* TokenStarts lists the places where the words of the line start.
LEMMA TokenStartsListed ==
  ASSUME NEW buffer \in Buffers, NEW n, IsLine(buffer, n)
  PROVE  Lists(TokenStarts(buffer), StartsFrom(buffer, 0, n))
<1>1. n \in Nat /\ n <= Last /\ Last \in Nat /\ \A p \in 0 .. n : p \in Cells
  BY CellsTyped DEF IsLine
<1>2. PICK f : TokenStarts(buffer) = f[0] /\ \A p \in Cells : f[p] = Turn(f, buffer, p)
  BY TokenStartsIs
<1> DEFINE Listed(p) == Boundary(buffer, p) => Lists(f[p], StartsFrom(buffer, p, n))
           S == {k \in Nat : \A p \in 0 .. n : p + k >= n => Listed(p)}
<1>3. Listed(n)
  <2>1. f[n] = <<>>
    BY <1>1, <1>2, TurnIs DEF IsLine
  <2>2. StartsFrom(buffer, n, n) = {}
    BY <1>1 DEF StartsFrom
  <2> QED
    BY <2>1, <2>2, ListsNone
<1>4. ASSUME NEW p \in 0 .. n - 1, \A q \in p + 1 .. n : Listed(q)
      PROVE  Listed(p)
  <2> SUFFICES ASSUME Boundary(buffer, p) PROVE Lists(f[p], StartsFrom(buffer, p, n))
    OBVIOUS
  <2>1. p \in Cells /\ p \in Nat /\ p + 1 \in 0 .. n /\ p + 1 \in p + 1 .. n
    BY <1>1
  <2>2. buffer[p] # NUL /\ f[p] = Turn(f, buffer, p)
    BY <1>2, <2>1 DEF IsLine
  <2>3. CASE buffer[p] = " "
    <3>1. f[p] = f[p + 1]
      BY <2>1, <2>2, <2>3, TurnIs
    <3>2. buffer[p] \notin Letter
      BY <2>3, Marks
    <3>3. Boundary(buffer, p + 1)
      <4>1. (p + 1) - 1 = p
        BY <2>1
      <4> QED
        BY <3>2, <4>1 DEF Boundary
    <3>4. StartsFrom(buffer, p, n) = StartsFrom(buffer, p + 1, n)
      <4>1. \A i : i \in p .. n - 1 <=> i = p \/ i \in p + 1 .. n - 1
        BY <1>1, <2>1
      <4> QED
        BY <3>2, <4>1 DEF StartsFrom
    <3> QED
      BY <1>4, <2>1, <3>1, <3>3, <3>4
  <2>4. CASE buffer[p] \in Letter
    <3> DEFINE q == EndOf(buffer, p)
    <3>1. f[p] = <<p>> \o (IF buffer[q] = NUL THEN <<>> ELSE f[q + 1])
      BY <2>1, <2>2, <2>4, TurnIs
    <3>2. /\ q \in p + 1 .. n
          /\ buffer[q] = NUL => StartsFrom(buffer, p, n) = {p} \cup {}
          /\ buffer[q] # NUL => /\ q < n /\ Boundary(buffer, q + 1)
                                /\ StartsFrom(buffer, p, n) = {p} \cup StartsFrom(buffer, q + 1, n)
      BY <2>4, StartsAfterToken
    <3> HIDE DEF q
    <3>3. CASE buffer[q] = NUL
      <4>1. f[p] = <<p>> \o <<>> /\ StartsFrom(buffer, p, n) = {p} \cup {}
        BY <3>1, <3>2, <3>3
      <4>2. Lists(<<p>> \o <<>>, {p} \cup {})
        BY <2>1, ListsNone, ListsOneMore
      <4> QED
        BY <4>1, <4>2
    <3>4. CASE buffer[q] # NUL
      <4>1. f[p] = <<p>> \o f[q + 1]
            /\ StartsFrom(buffer, p, n) = {p} \cup StartsFrom(buffer, q + 1, n)
        BY <3>1, <3>2, <3>4
      <4>2. q + 1 \in p + 1 .. n
        BY <1>1, <2>1, <3>2, <3>4
      <4>3. Lists(f[q + 1], StartsFrom(buffer, q + 1, n))
        BY <1>4, <3>2, <3>4, <4>2
      <4>4. \A t \in StartsFrom(buffer, q + 1, n) : p < t
        BY <1>1, <2>1, <4>2 DEF StartsFrom
      <4>5. Lists(<<p>> \o f[q + 1], {p} \cup StartsFrom(buffer, q + 1, n))
        BY <2>1, <4>3, <4>4, ListsOneMore
      <4> QED
        BY <4>1, <4>5
    <3> QED
      BY <3>3, <3>4
  <2> QED
    BY <2>1, <2>2, <2>3, <2>4, TurnIs
<1>5. 0 \in S
  <2> HIDE DEF Listed
  <2>1. \A p \in 0 .. n : p + 0 >= n => p = n
    BY <1>1
  <2> QED
    BY <1>3, <2>1
<1>6. ASSUME NEW k \in 0 .. n - 1, k \in S PROVE k + 1 \in S
  <2> HIDE DEF Listed
  <2>1. ASSUME NEW p \in 0 .. n, p + (k + 1) >= n PROVE Listed(p)
    <3>1. CASE p + k >= n
      BY <1>6, <3>1
    <3>2. CASE p + k < n
      <4>1. p \in 0 .. n - 1
        BY <1>1, <3>2
      <4>2. \A q \in p + 1 .. n : q \in 0 .. n /\ q + k >= n
        BY <1>1, <2>1, <3>2
      <4>3. \A q \in p + 1 .. n : Listed(q)
        BY <1>6, <4>2
      <4> QED
        BY <1>4, <4>1, <4>3
    <3> QED
      BY <1>1, <3>1, <3>2
  <2>2. k + 1 \in Nat
    OBVIOUS
  <2> QED
    BY <2>1, <2>2
<1>7. n \in S
  <2> HIDE DEF S
  <2> QED
    BY <1>1, <1>5, <1>6, SetInduction
<1>8. Listed(0)
  <2> HIDE DEF Listed
  <2> QED
    BY <1>1, <1>7
<1> QED
  BY <1>2, <1>8 DEF Boundary
-----------------------------------------------------------------------------
(* Counting the elements of a set that is listed.                          *)

\* The first c elements are c.
LEMMA ListsFirst ==
  ASSUME NEW s, NEW T, Lists(s, T), NEW c \in 0 .. Len(s)
  PROVE  Cardinality({s[b] : b \in 1 .. c}) = c
<1> DEFINE U == {s[b] : b \in 1 .. c}
           F == [b \in 1 .. c |-> s[b]]
<1>1. Len(s) \in Nat /\ c \in Nat /\ \A b \in 1 .. c : b \in 1 .. Len(s) /\ s[b] \in Nat
  BY DEF Lists
<1>2. F \in [1 .. c -> U] /\ \A u \in U : \E b \in 1 .. c : F[b] = u
  OBVIOUS
<1>3. ASSUME NEW a \in 1 .. c, NEW b \in 1 .. c, F[a] = F[b] PROVE a = b
  <2>1. s[a] = s[b]
    BY <1>3
  <2>2. ~ (a < b) /\ ~ (b < a)
    BY <1>1, <2>1 DEF Lists
  <2> QED
    BY <1>1, <2>2
<1> HIDE DEF F, U
<1>4. F \in Bijection(1 .. c, U)
  BY <1>2, <1>3, Fun_IsBij
<1>5. ExistsBijection(1 .. c, U)
  BY <1>4, Fun_ExistsBij
<1>6. Cardinality(U) = c
  BY <1>1, <1>5, FS_CountingElements
<1> QED
  BY <1>6 DEF U

\* The a-th element is the one with a elements up to it.
LEMMA ListsNth ==
  ASSUME NEW s, NEW T, Lists(s, T)
  PROVE  /\ Cardinality(T) = Len(s)
         /\ \A a \in 1 .. Len(s) :
              (CHOOSE i \in T : Cardinality({j \in T : j <= i}) = a) = s[a]
<1>1. Len(s) \in Nat /\ \A b \in 1 .. Len(s) : s[b] \in Nat
  BY DEF Lists
<1>2. T = {s[b] : b \in 1 .. Len(s)}
  BY DEF Lists
<1>3. ASSUME NEW a \in 1 .. Len(s) PROVE Cardinality({j \in T : j <= s[a]}) = a
  <2>1. \A b \in 1 .. Len(s) : s[b] <= s[a] <=> b <= a
    <3> SUFFICES ASSUME NEW b \in 1 .. Len(s) PROVE s[b] <= s[a] <=> b <= a
      OBVIOUS
    <3>1. (a < b => s[a] < s[b]) /\ (b < a => s[b] < s[a])
      BY DEF Lists
    <3>2. s[a] \in Nat /\ s[b] \in Nat /\ a \in Nat /\ b \in Nat
      BY <1>1
    <3>3. a = b => s[a] = s[b]
      OBVIOUS
    <3> QED
      BY <3>1, <3>2, <3>3
  <2>2. {j \in T : j <= s[a]} = {s[b] : b \in 1 .. a}
    <3>1. ASSUME NEW j \in T, j <= s[a] PROVE j \in {s[b] : b \in 1 .. a}
      <4>1. PICK b \in 1 .. Len(s) : j = s[b]
        BY <1>2
      <4>2. b \in 1 .. a
        BY <2>1, <3>1, <4>1
      <4> QED
        BY <4>1, <4>2
    <3>2. ASSUME NEW b \in 1 .. a PROVE s[b] \in T /\ s[b] <= s[a]
      <4>1. b \in 1 .. Len(s) /\ b <= a
        BY <1>1
      <4> QED
        BY <1>2, <2>1, <4>1
    <3> QED
      BY <3>1, <3>2
  <2>3. a \in 0 .. Len(s)
    BY <1>1
  <2> QED
    BY <2>2, <2>3, ListsFirst
<1>4. Cardinality(T) = Len(s)
  <2>1. Len(s) \in 0 .. Len(s)
    BY <1>1
  <2> QED
    BY <1>2, <2>1, ListsFirst
<1>5. ASSUME NEW a \in 1 .. Len(s)
      PROVE  (CHOOSE i \in T : Cardinality({j \in T : j <= i}) = a) = s[a]
  <2> DEFINE Count(i) == Cardinality({j \in T : j <= i})
  <2>1. s[a] \in T /\ Count(s[a]) = a
    BY <1>3, <1>2
  <2>2. ASSUME NEW i \in T, Count(i) = a PROVE i = s[a]
    <3>1. PICK b \in 1 .. Len(s) : i = s[b]
      BY <1>2
    <3>2. Count(s[b]) = b
      BY <1>3
    <3>3. b = a
      BY <2>2, <3>1, <3>2
    <3> QED
      BY <3>1, <3>3
  <2> HIDE DEF Count
  <2>3. (CHOOSE i \in T : Count(i) = a) = s[a]
    BY <2>1, <2>2
  <2> QED
    BY <2>3 DEF Count
<1> QED
  BY <1>4, <1>5

\* Numbering from 1 instead of 0 keeps the order.
LEMMA ListsShifted ==
  ASSUME NEW s, NEW T, Lists(s, T)
  PROVE  /\ Lists([a \in 1 .. Len(s) |-> s[a] + 1], {t + 1 : t \in T})
         /\ Len([a \in 1 .. Len(s) |-> s[a] + 1]) = Len(s)
<1> DEFINE r == [a \in 1 .. Len(s) |-> s[a] + 1]
           R == {t + 1 : t \in T}
<1>1. Len(s) \in Nat /\ \A b \in 1 .. Len(s) : s[b] \in Nat /\ s[b] + 1 \in Nat
  BY DEF Lists
<1>2. r \in Seq(Nat) /\ Len(r) = Len(s) /\ \A a \in 1 .. Len(s) : r[a] = s[a] + 1
  BY <1>1
<1>3. \A a, b \in 1 .. Len(r) : a < b => r[a] < r[b]
  BY <1>1, <1>2 DEF Lists
<1>4. \A a \in 1 .. Len(r) : r[a] \in R
  BY <1>2 DEF Lists
<1>5. ASSUME NEW u \in R PROVE \E a \in 1 .. Len(r) : r[a] = u
  <2>1. PICK t \in T : u = t + 1
    OBVIOUS
  <2>2. PICK a \in 1 .. Len(s) : s[a] = t
    BY DEF Lists
  <2> QED
    BY <1>2, <2>1, <2>2
<1> HIDE DEF r, R
<1>6. Lists(r, R)
  BY <1>2, <1>3, <1>4, <1>5 DEF Lists
<1> QED
  BY <1>2, <1>6 DEF r, R
-----------------------------------------------------------------------------
(* The tokens of the buffer are the words of the line.                     *)

\* The line as LineEditor has it, numbered from 1.
LineOf(buffer, n) == [i \in 1 .. n |-> buffer[i - 1]]

\* The characters of the token at p.
TextAt(buffer, p) == [k \in 1 .. EndOf(buffer, p) - p |-> buffer[p + k - 1]]

\* The line is as long as the string and has its characters.
LEMMA LineTyped ==
  ASSUME NEW buffer \in Buffers, NEW n, IsLine(buffer, n)
  PROVE  /\ n \in Nat /\ n <= Last /\ Last \in Nat
         /\ Len(LineOf(buffer, n)) = n
         /\ \A i \in 1 .. n : LineOf(buffer, n)[i] = buffer[i - 1]
<1>1. n \in Nat /\ n <= Last /\ Last \in Nat
  BY CellsTyped DEF IsLine
<1> QED
  BY <1>1 DEF LineOf

\* Words start in the line where tokens do in the buffer, one place on.
LEMMA WordStarts ==
  ASSUME NEW buffer \in Buffers, NEW n, IsLine(buffer, n)
  PROVE  Editor!Starts(LineOf(buffer, n)) = {t + 1 : t \in StartsFrom(buffer, 0, n)}
<1> DEFINE l == LineOf(buffer, n)
<1>1. n \in Nat /\ Len(l) = n /\ \A i \in 1 .. n : l[i] = buffer[i - 1]
  BY LineTyped
<1> HIDE DEF l
<1>2. Editor!Starts(l) = {i \in 1 .. n : l[i] \in Letter /\ (i = 1 \/ l[i - 1] \notin Letter)}
  BY <1>1 DEF Editor!Starts
<1>3. ASSUME NEW i \in 1 .. n
      PROVE  l[i] \in Letter /\ (i = 1 \/ l[i - 1] \notin Letter)
               <=> buffer[i - 1] \in Letter /\ Boundary(buffer, i - 1)
  <2>1. i = 1 <=> i - 1 = 0
    OBVIOUS
  <2>2. i # 1 => l[i - 1] = buffer[(i - 1) - 1]
    <3>1. i # 1 => i - 1 \in 1 .. n
      BY <1>1
    <3> QED
      BY <1>1, <3>1
  <2>3. l[i] = buffer[i - 1]
    BY <1>1
  <2> QED
    BY <2>1, <2>2, <2>3 DEF Boundary
<1>4. ASSUME NEW i \in Editor!Starts(l) PROVE i \in {t + 1 : t \in StartsFrom(buffer, 0, n)}
  <2>1. i \in 1 .. n /\ buffer[i - 1] \in Letter /\ Boundary(buffer, i - 1)
    BY <1>2, <1>3
  <2>2. i - 1 \in 0 .. n - 1 /\ (i - 1) + 1 = i
    BY <1>1, <2>1
  <2>3. i - 1 \in StartsFrom(buffer, 0, n)
    BY <2>1, <2>2 DEF StartsFrom
  <2> QED
    BY <2>2, <2>3
<1>5. ASSUME NEW t \in StartsFrom(buffer, 0, n) PROVE t + 1 \in Editor!Starts(l)
  <2>1. t \in 0 .. n - 1 /\ buffer[t] \in Letter /\ Boundary(buffer, t)
    BY DEF StartsFrom
  <2>2. t + 1 \in 1 .. n /\ (t + 1) - 1 = t
    BY <1>1, <2>1
  <2> QED
    BY <1>2, <1>3, <2>1, <2>2
<1> QED
  BY <1>4, <1>5 DEF l

\* A word has the characters of the token.
LEMMA WordIsText ==
  ASSUME NEW buffer \in Buffers, NEW n, IsLine(buffer, n), NEW p \in StartsFrom(buffer, 0, n)
  PROVE  Editor!WordFrom(LineOf(buffer, n), p + 1) = TextAt(buffer, p)
<1> DEFINE l == LineOf(buffer, n)
           e == EndOf(buffer, p)
<1>1. n \in Nat /\ Len(l) = n /\ \A i \in 1 .. n : l[i] = buffer[i - 1]
  BY LineTyped
<1>2. p \in 0 .. n - 1 /\ p \in Cells /\ p \in Nat /\ buffer[p] \in Letter /\ Boundary(buffer, p)
  BY LineTyped, CellsTyped DEF StartsFrom
<1>3. e \in p + 1 .. n
  BY <1>2, StartsAfterToken
<1>4. buffer[e] \notin Letter /\ \A j \in p .. e - 1 : buffer[j] \in Letter
  BY <1>2, TokenEnds
<1> HIDE DEF l, e
<1> DEFINE Ends(j) == /\ \A k \in p + 1 .. j : l[k] \in Letter
                      /\ j = Len(l) \/ l[j + 1] \notin Letter
<1>5. e \in p + 1 .. Len(l) /\ Ends(e)
  <2>1. ASSUME NEW k \in p + 1 .. e PROVE l[k] \in Letter
    <3>1. k \in 1 .. n /\ k - 1 \in p .. e - 1
      BY <1>1, <1>2, <1>3
    <3> QED
      BY <1>1, <1>4, <3>1
  <2>2. e = n \/ l[e + 1] \notin Letter
    <3>1. e # n => e + 1 \in 1 .. n /\ (e + 1) - 1 = e
      BY <1>1, <1>2, <1>3
    <3> QED
      BY <1>1, <1>4, <3>1
  <2> QED
    BY <1>1, <1>3, <2>1, <2>2
<1>6. ASSUME NEW j \in p + 1 .. Len(l), Ends(j) PROVE j = e
  <2>1. j \in Nat /\ e \in Nat
    BY <1>1, <1>2, <1>3
  <2>2. ~ (j < e)
    <3> SUFFICES ASSUME j < e PROVE FALSE
      OBVIOUS
    <3>1. j # n /\ j + 1 \in 1 .. n /\ (j + 1) - 1 = j /\ j \in p .. e - 1
      BY <1>1, <1>2, <1>3, <2>1
    <3>2. l[j + 1] = buffer[j] /\ buffer[j] \in Letter
      BY <1>1, <1>4, <3>1
    <3> QED
      BY <1>1, <1>6, <3>1, <3>2
  <2>3. ~ (e < j)
    <3> SUFFICES ASSUME e < j PROVE FALSE
      OBVIOUS
    <3>1. e + 1 \in p + 1 .. j /\ e + 1 \in 1 .. n /\ (e + 1) - 1 = e
      BY <1>1, <1>2, <1>3, <2>1
    <3>2. l[e + 1] = buffer[e]
      BY <1>1, <3>1
    <3> QED
      BY <1>4, <1>6, <3>1, <3>2
  <2> QED
    BY <2>1, <2>2, <2>3
<1>7. Editor!WordFrom(l, p + 1) = SubSeq(l, p + 1, CHOOSE j \in p + 1 .. Len(l) : Ends(j))
  BY DEF Editor!WordFrom
<1> HIDE DEF Ends
<1>8. (CHOOSE j \in p + 1 .. Len(l) : Ends(j)) = e
  BY <1>5, <1>6
<1>9. SubSeq(l, p + 1, e) = [k \in 1 .. e - p |-> buffer[p + k - 1]]
  <2>1. SubSeq(l, p + 1, e) = [k \in 1 .. (e - (p + 1)) + 1 |-> l[((p + 1) + k) - 1]]
    BY <1>1, <1>2, <1>3
  <2>2. (e - (p + 1)) + 1 = e - p
    BY <1>2, <1>3
  <2>3. \A k \in 1 .. e - p : l[((p + 1) + k) - 1] = buffer[p + k - 1]
    <3> SUFFICES ASSUME NEW k \in 1 .. e - p PROVE l[((p + 1) + k) - 1] = buffer[p + k - 1]
      OBVIOUS
    <3>1. ((p + 1) + k) - 1 \in 1 .. n /\ (((p + 1) + k) - 1) - 1 = p + k - 1
      BY <1>1, <1>2, <1>3
    <3> QED
      BY <1>1, <3>1
  <2> QED
    BY <2>1, <2>2, <2>3
<1> QED
  BY <1>7, <1>8, <1>9 DEF l, e, TextAt

\* A token that is cut out is a string of its characters.
LEMMA StringIsText ==
  ASSUME NEW buffer \in Buffers, NEW n, IsLine(buffer, n),
         Len(TokenStarts(buffer)) <= MAX_TOKENS, NEW p \in StartsFrom(buffer, 0, n)
  PROVE  StringAt(Cut(buffer), p) = TextAt(buffer, p)
<1> DEFINE starts == TokenStarts(buffer)
           cut == Cut(buffer)
           e == EndOf(buffer, p)
           ends == {EndOf(buffer, starts[m]) : m \in {k \in 1 .. Len(starts) : k <= MAX_TOKENS}}
<1>1. Lists(starts, StartsFrom(buffer, 0, n))
  BY TokenStartsListed
<1>2. p \in Cells /\ p \in Nat /\ Last \in Nat /\ p <= Last
  BY LineTyped, CellsTyped DEF StartsFrom
<1>3. /\ e \in p .. Last /\ e \in Cells
      /\ buffer[e] \notin Letter /\ \A j \in p .. e - 1 : buffer[j] \in Letter
  BY <1>2, TokenEnds
<1>4. cut = [q \in Cells |-> IF q \in ends THEN NUL ELSE buffer[q]]
  BY DEF Cut
<1>5. e \in ends
  <2>1. PICK m \in 1 .. Len(starts) : starts[m] = p
    BY <1>1 DEF Lists
  <2>2. m <= MAX_TOKENS
    <3>1. Len(starts) \in Nat
      BY <1>1 DEF Lists
    <3> HIDE DEF starts
    <3>2. Len(starts) <= MAX_TOKENS
      BY DEF starts
    <3> QED
      BY <3>1, <3>2
  <2> QED
    BY <2>1, <2>2
<1>6. \A q \in ends : buffer[q] \notin Letter
  <2> SUFFICES ASSUME NEW m \in 1 .. Len(starts) PROVE buffer[EndOf(buffer, starts[m])] \notin Letter
    OBVIOUS
  <2>1. starts[m] \in StartsFrom(buffer, 0, n)
    BY <1>1 DEF Lists
  <2> HIDE DEF starts
  <2>2. starts[m] \in Cells
    BY <2>1, LineTyped, CellsTyped DEF StartsFrom
  <2> QED
    BY <2>2, TokenEnds
<1> HIDE DEF ends, starts, cut, e
<1>7. cut[e] = NUL
  BY <1>3, <1>4, <1>5
<1>8. ASSUME NEW j \in p .. e - 1 PROVE cut[j] = buffer[j] /\ cut[j] # NUL
  <2>1. j \in Cells /\ buffer[j] \in Letter
    BY <1>2, <1>3, CellsTyped
  <2>2. j \notin ends
    BY <1>6, <2>1
  <2> QED
    BY <1>4, <2>1, <2>2, Marks
<1> DEFINE nuls == {k \in 0 .. Last - p : cut[p + k] = NUL}
<1>9. First(nuls) = e - p
  <2>1. e - p \in nuls
    <3>1. e - p \in 0 .. Last - p /\ p + (e - p) = e
      BY <1>2, <1>3
    <3> QED
      BY <1>7, <3>1
  <2>2. \A k \in nuls : e - p <= k
    <3> SUFFICES ASSUME NEW k \in 0 .. Last - p, cut[p + k] = NUL, k < e - p PROVE FALSE
      BY <1>2, <1>3
    <3>1. p + k \in p .. e - 1
      BY <1>2, <1>3
    <3> QED
      BY <1>8, <3>1
  <2>3. nuls \in SUBSET Nat /\ e - p \in Nat
    BY <1>2, <1>3
  <2> HIDE DEF nuls
  <2>4. First(nuls) \in nuls /\ First(nuls) <= e - p
    BY <2>1, <2>3, FirstIsLeast
  <2>5. e - p <= First(nuls) /\ First(nuls) \in Nat
    BY <2>2, <2>3, <2>4
  <2> QED
    BY <2>3, <2>4, <2>5
<1>10. StringAt(cut, p) = [i \in 1 .. First(nuls) |-> cut[p + i - 1]]
  BY DEF StringAt, Last
<1>11. \A i \in 1 .. e - p : cut[p + i - 1] = buffer[p + i - 1]
  <2> SUFFICES ASSUME NEW i \in 1 .. e - p PROVE cut[p + i - 1] = buffer[p + i - 1]
    OBVIOUS
  <2>1. p + i - 1 \in p .. e - 1
    BY <1>2, <1>3
  <2> QED
    BY <1>8, <2>1
<1>12. StringAt(cut, p) = [i \in 1 .. e - p |-> buffer[p + i - 1]]
  BY <1>9, <1>10, <1>11
<1> QED
  BY <1>12 DEF TextAt, e, cut

\* With room for all tokens, they are the words of the line, in their order.
LEMMA TokensAreWords ==
  ASSUME NEW buffer \in Buffers, NEW n, IsLine(buffer, n)
  PROVE  /\ Len(Editor!Words(LineOf(buffer, n))) = Len(TokenStarts(buffer))
         /\ Len(TokenStarts(buffer)) \in Nat
         /\ Len(TokenStarts(buffer)) = 0 <=> Editor!Words(LineOf(buffer, n)) = <<>>
         /\ Len(TokenStarts(buffer)) <= MAX_TOKENS =>
              Tokens(buffer) = Editor!Words(LineOf(buffer, n))
<1> DEFINE l == LineOf(buffer, n)
           s == TokenStarts(buffer)
           T == StartsFrom(buffer, 0, n)
           r == [a \in 1 .. Len(s) |-> s[a] + 1]
           R == {t + 1 : t \in T}
<1>1. Lists(s, T) /\ Editor!Starts(l) = R
  BY TokenStartsListed, WordStarts
<1>2. Len(s) \in Nat /\ \A a \in 1 .. Len(s) : s[a] \in T
  BY <1>1 DEF Lists
<1>3. Lists(r, R) /\ Len(r) = Len(s)
  BY <1>1, ListsShifted
<1> DEFINE Nth(m) == CHOOSE i \in R : Cardinality({j \in R : j <= i}) = m
<1>4. Cardinality(R) = Len(s) /\ \A a \in 1 .. Len(s) : Nth(a) = s[a] + 1
  <2>1. \A a \in 1 .. Len(s) : r[a] = s[a] + 1
    OBVIOUS
  <2> HIDE DEF r, R
  <2>2. Cardinality(R) = Len(r) /\ \A a \in 1 .. Len(r) : Nth(a) = r[a]
    BY <1>3, ListsNth
  <2> HIDE DEF Nth, s
  <2> QED
    BY <1>3, <2>1, <2>2
<1> HIDE DEF R
<1>5. Editor!Words(l) = [m \in 1 .. Len(s) |-> Editor!WordFrom(l, Nth(m))]
  <2> DEFINE X == Editor!Starts(l)
  <2>1. Editor!Words(l) = [m \in 1 .. Cardinality(X) |->
          Editor!WordFrom(l, CHOOSE i \in X : Cardinality({j \in X : j <= i}) = m)]
    BY DEF Editor!Words, Editor!Cardinality, Cardinality
  <2>2. X = R
    BY <1>1
  <2> HIDE DEF X, l, s
  <2> QED
    BY <1>4, <2>1, <2>2
<1>6. \A m \in 1 .. Len(s) : Editor!WordFrom(l, Nth(m)) = TextAt(buffer, s[m])
  <2> SUFFICES ASSUME NEW m \in 1 .. Len(s)
               PROVE  Editor!WordFrom(l, Nth(m)) = TextAt(buffer, s[m])
    OBVIOUS
  <2>1. Nth(m) = s[m] + 1 /\ s[m] \in T
    BY <1>2, <1>4
  <2> HIDE DEF Nth, s
  <2> QED
    BY <2>1, WordIsText
<1>7. Editor!Words(l) = [m \in 1 .. Len(s) |-> TextAt(buffer, s[m])]
  <2> HIDE DEF Nth, s, l
  <2> QED
    BY <1>5, <1>6
<1>8. ASSUME Len(s) <= MAX_TOKENS
      PROVE  Tokens(buffer) = [m \in 1 .. Len(s) |-> TextAt(buffer, s[m])]
  <2>1. Tokens(buffer) = [m \in 1 .. Len(s) |-> StringAt(Cut(buffer), s[m])]
    BY DEF Tokens
  <2>2. \A m \in 1 .. Len(s) : StringAt(Cut(buffer), s[m]) = TextAt(buffer, s[m])
    BY <1>2, <1>8, StringIsText
  <2> HIDE DEF s
  <2> QED
    BY <2>1, <2>2
<1>9. Len(Editor!Words(l)) = Len(s) /\ (Len(s) = 0 <=> Editor!Words(l) = <<>>)
  <2> HIDE DEF s, l
  <2>1. Len(Editor!Words(l)) = Len(s)
    BY <1>2, <1>7
  <2>2. ASSUME Len(s) = 0 PROVE Editor!Words(l) = <<>>
    BY <1>7, <2>2
  <2> QED
    BY <2>1, <2>2
<1> QED
  BY <1>2, <1>7, <1>8, <1>9
-----------------------------------------------------------------------------
(* Names, without regard to case.                                          *)

\* strcasecmp compares as LineEditor does.
LEMMA SameIs == \A v, w : strcasecmp(v, w) = 0 <=> Editor!Same(v, w)
BY DEF strcasecmp, Editor!Same

\* The order of two names does not matter to their comparison.
LEMMA SameSymmetric == ASSUME NEW v, NEW w, Editor!Same(v, w) PROVE Editor!Same(w, v)
BY DEF Editor!Same

\* Two names that are the same as a third are the same.
LEMMA SameTransitive ==
  ASSUME NEW u, NEW v, NEW w, Editor!Same(u, v), Editor!Same(v, w)
  PROVE  Editor!Same(u, w)
BY DEF Editor!Same

\* No two clients of the table have the same name.
NamesDistinct ==
  \A i, j \in 1 .. Len(clientInfo) :
    Editor!Same(clientInfo[i].name, clientInfo[j].name) => i = j

\* The clients, as LineEditor has them.
ClientsNow == {clientInfo[i] : i \in 1 .. Len(clientInfo)}

\* The loop finds the one client of a name.
LEMMA NamedClient ==
  ASSUME NamesDistinct, TypeOK, NEW w,
         NEW k \in 1 .. Len(clientInfo), Editor!Same(w, clientInfo[k].name)
  PROVE  /\ {i \in 1 .. Len(clientInfo) : strcasecmp(w, clientInfo[i].name) = 0} = {k}
         /\ First({k}) = k
         /\ (CHOOSE d \in ClientsNow : Editor!Same(w, d.name)) = clientInfo[k]
<1>1. ASSUME NEW i \in 1 .. Len(clientInfo), Editor!Same(w, clientInfo[i].name) PROVE i = k
  <2>1. Editor!Same(clientInfo[i].name, clientInfo[k].name)
    BY <1>1, SameSymmetric, SameTransitive
  <2> QED
    BY <2>1 DEF NamesDistinct
<1>2. \A i \in 1 .. Len(clientInfo) :
        strcasecmp(w, clientInfo[i].name) = 0 <=> Editor!Same(w, clientInfo[i].name)
  BY SameIs
<1>3. {i \in 1 .. Len(clientInfo) : strcasecmp(w, clientInfo[i].name) = 0} = {k}
  BY <1>1, <1>2
<1>4. First({k}) = k
  <2>1. {k} \in SUBSET Nat /\ {k} # {}
    OBVIOUS
  <2> QED
    BY <2>1, FirstIsLeast
<1>5. clientInfo[k] \in ClientsNow
  BY DEF ClientsNow
<1>6. \A d \in ClientsNow : Editor!Same(w, d.name) => d = clientInfo[k]
  BY <1>1 DEF ClientsNow
<1>7. (CHOOSE d \in ClientsNow : Editor!Same(w, d.name)) = clientInfo[k]
  BY <1>5, <1>6
<1> QED
  BY <1>3, <1>4, <1>7

\* Help is asked for by any of its words.
LEMMA HelpIs == \A w : IsHelp(w) <=> Editor!Known(w, HelpWords)
BY SameIs, SameSymmetric DEF IsHelp, Editor!Known

\* The client is asked the same.
LEMMA ClientCommandIs ==
  ASSUME NEW c, NEW words
  PROVE  ClientCommand(c, words) =
           IF Len(words) = 1 \/ Editor!Known(words[2], HelpWords) THEN <<"client_help", c>>
           ELSE IF Editor!Known(words[2], c.cmds) THEN <<"ran", c, words>>
           ELSE <<"no_command">>
<1>1. IsHelp(words[2]) <=> Editor!Known(words[2], HelpWords)
  BY HelpIs
<1>2. (\E name \in c.cmds : strcasecmp(words[2], name) = 0) <=> Editor!Known(words[2], c.cmds)
  BY SameIs DEF Editor!Known
<1> QED
  BY <1>1, <1>2 DEF ClientCommand

\* The end of a line comes to what the words of the line call for.
LEMMA AnswerIs ==
  ASSUME TypeOK, NamesDistinct, NEW buffer \in Buffers, NEW n, IsLine(buffer, n),
         cmd_execute(buffer)
  PROVE  answer' = Editor!Answer(Editor!Words(LineOf(buffer, n)))
<1> DEFINE words == Editor!Words(LineOf(buffer, n))
           m == Len(TokenStarts(buffer))
           tokens == Tokens(buffer)
<1>1. /\ Len(words) = m /\ m \in Nat /\ (m = 0 <=> words = <<>>)
      /\ m <= MAX_TOKENS => tokens = words
  BY TokensAreWords
<1>2. MAX_TOKENS \in Nat /\ MAX_TOKENS >= 2
  OBVIOUS
<1> DEFINE named(w) == {i \in 1 .. Len(clientInfo) : strcasecmp(w, clientInfo[i].name) = 0}
<1>3. answer' = IF m > MAX_TOKENS THEN <<"too_many">>
                ELSE IF m = 0 THEN <<"nothing">>
                ELSE IF IsHelp(tokens[1]) THEN <<"help">>
                ELSE IF named(tokens[1]) = {} THEN <<"no_client">>
                ELSE ClientCommand(clientInfo[First(named(tokens[1]))], tokens)
  BY DEF cmd_execute
<1>4. Editor!Answer(words) =
        IF words = <<>> THEN <<"nothing">>
        ELSE IF Len(words) > MAX_TOKENS THEN <<"too_many">>
        ELSE IF Editor!Known(words[1], HelpWords) THEN <<"help">>
        ELSE IF \A c \in ClientsNow : ~ Editor!Same(words[1], c.name) THEN <<"no_client">>
        ELSE LET c == CHOOSE d \in ClientsNow : Editor!Same(words[1], d.name) IN
             IF Len(words) = 1 \/ Editor!Known(words[2], HelpWords) THEN <<"client_help", c>>
             ELSE IF Editor!Known(words[2], c.cmds) THEN <<"ran", c, words>>
             ELSE <<"no_command">>
  BY DEF Editor!Answer, ClientsNow
<1> SUFFICES answer' = Editor!Answer(words)
  OBVIOUS
<1> HIDE DEF words, m, tokens
<1>5. CASE m > MAX_TOKENS
  BY <1>1, <1>2, <1>3, <1>4, <1>5
<1>6. CASE m = 0
  BY <1>1, <1>2, <1>3, <1>4, <1>6
<1>7. CASE m # 0 /\ ~ (m > MAX_TOKENS)
  <2>1. tokens = words /\ words # <<>> /\ ~ (Len(words) > MAX_TOKENS)
    BY <1>1, <1>2, <1>7
  <2>2. IsHelp(words[1]) <=> Editor!Known(words[1], HelpWords)
    BY HelpIs
  <2>3. CASE IsHelp(words[1])
    BY <1>3, <1>4, <1>7, <2>1, <2>2, <2>3
  <2>4. CASE ~ IsHelp(words[1]) /\ \A c \in ClientsNow : ~ Editor!Same(words[1], c.name)
    <3>1. named(words[1]) = {}
      BY <2>4, SameIs DEF ClientsNow
    <3> HIDE DEF named
    <3> QED
      BY <1>3, <1>4, <1>7, <2>1, <2>2, <2>4, <3>1
  <2>5. CASE ~ IsHelp(words[1]) /\ ~ \A c \in ClientsNow : ~ Editor!Same(words[1], c.name)
    <3>1. PICK k \in 1 .. Len(clientInfo) : Editor!Same(words[1], clientInfo[k].name)
      BY <2>5 DEF ClientsNow
    <3>2. /\ named(words[1]) = {k} /\ First(named(words[1])) = k
          /\ (CHOOSE d \in ClientsNow : Editor!Same(words[1], d.name)) = clientInfo[k]
      BY <3>1, NamedClient
    <3> HIDE DEF named
    <3>3. answer' = ClientCommand(clientInfo[k], words)
      BY <1>3, <1>7, <2>1, <2>5, <3>2
    <3>4. Editor!Answer(words) =
            IF Len(words) = 1 \/ Editor!Known(words[2], HelpWords) THEN <<"client_help", clientInfo[k]>>
            ELSE IF Editor!Known(words[2], clientInfo[k].cmds) THEN <<"ran", clientInfo[k], words>>
            ELSE <<"no_command">>
      BY <1>4, <2>1, <2>2, <2>5, <3>2
    <3> QED
      BY <3>3, <3>4, ClientCommandIs
  <2> QED
    BY <2>3, <2>4, <2>5
<1> QED
  BY <1>1, <1>2, <1>5, <1>6, <1>7
-----------------------------------------------------------------------------
(* Every step of Console is a step of LineEditor.                          *)

\* The string ends at the last cell at the latest, and names are unique.
IInv == TypeOK /\ cmdBuffer[Last] = NUL /\ NamesDistinct

\* The line being typed, as LineEditor has it.
LineNow == [i \in 1 .. num_cmd_bfr_chars |-> cmdBuffer[i - 1]]

\* The line being typed is as long as the count and has the buffer's characters.
LEMMA LineNowTyped ==
  ASSUME TypeOK
  PROVE  /\ num_cmd_bfr_chars \in Nat /\ num_cmd_bfr_chars <= Last /\ Last \in Nat
         /\ Len(LineNow) = num_cmd_bfr_chars
         /\ \A i \in 1 .. num_cmd_bfr_chars : LineNow[i] = cmdBuffer[i - 1]
<1>1. num_cmd_bfr_chars \in Nat /\ num_cmd_bfr_chars <= Last /\ Last \in Nat
  BY CellsTyped DEF TypeOK
<1> QED
  BY <1>1 DEF LineNow

\* A table without double names has as many clients as places.
LEMMA ClientsCounted ==
  ASSUME TypeOK, NamesDistinct
  PROVE  IsFiniteSet(ClientsNow) /\ Cardinality(ClientsNow) = Len(clientInfo)
<1> DEFINE n == Len(clientInfo)
           F == [i \in 1 .. n |-> clientInfo[i]]
<1>1. n \in Nat
  BY DEF TypeOK
<1>2. F \in [1 .. n -> ClientsNow] /\ \A c \in ClientsNow : \E i \in 1 .. n : F[i] = c
  BY DEF ClientsNow
<1>3. ASSUME NEW i \in 1 .. n, NEW j \in 1 .. n, F[i] = F[j] PROVE i = j
  <2>1. clientInfo[i].name = clientInfo[j].name
    BY <1>3
  <2>2. Editor!Same(clientInfo[i].name, clientInfo[j].name)
    BY <2>1 DEF Editor!Same
  <2> QED
    BY <2>2 DEF NamesDistinct
<1> HIDE DEF F, n
<1>4. F \in Bijection(1 .. n, ClientsNow)
  BY <1>2, <1>3, Fun_IsBij
<1>5. ExistsBijection(1 .. n, ClientsNow)
  BY <1>4, Fun_ExistsBij
<1>6. IsFiniteSet(ClientsNow) /\ Cardinality(ClientsNow) = n
  BY <1>1, <1>5, FS_CountingElements, FS_NatBijection
<1> QED
  BY <1>6 DEF n

\* A client that registers takes the place of the one with its name, or a
\* free one.
LEMMA RegisterIs ==
  ASSUME IInv, NEW c \in Clients, cmd_register(c)
  PROVE  /\ NamesDistinct'
         /\ LET others == {d \in ClientsNow : ~ Editor!Same(c.name, d.name)} IN
            ClientsNow' = IF Cardinality(others) < MAX_CLIENTS THEN others \cup {c} ELSE ClientsNow
<1> DEFINE n == Len(clientInfo)
           named == {i \in 1 .. n : strcasecmp(clientInfo[i].name, c.name) = 0}
           others == {d \in ClientsNow : ~ Editor!Same(c.name, d.name)}
<1>1. TypeOK /\ NamesDistinct /\ clientInfo \in Seq(Clients) /\ n \in Nat /\ n <= MAX_CLIENTS
  BY DEF IInv, TypeOK
<1>2. IsFiniteSet(ClientsNow) /\ Cardinality(ClientsNow) = n
  BY <1>1, ClientsCounted
<1>3. clientInfo' = IF named # {} THEN [clientInfo EXCEPT ![First(named)] = c]
                    ELSE IF n < MAX_CLIENTS THEN Append(clientInfo, c) ELSE clientInfo
  BY DEF cmd_register
<1>4. \A i \in 1 .. n : i \in named <=> Editor!Same(c.name, clientInfo[i].name)
  BY SameIs, SameSymmetric
<1>5. CASE named # {}
  <2>1. PICK k \in 1 .. n : k \in named
    BY <1>5
  <2>2. Editor!Same(c.name, clientInfo[k].name)
    BY <1>4, <2>1
  <2>3. named = {k} /\ First({k}) = k
    <3>1. {i \in 1 .. n : strcasecmp(c.name, clientInfo[i].name) = 0} = {k} /\ First({k}) = k
      BY <1>1, <2>2, NamedClient
    <3>2. \A i \in 1 .. n : strcasecmp(c.name, clientInfo[i].name) = 0 <=> i \in named
      BY <1>4, SameIs
    <3> HIDE DEF named
    <3>3. \A i \in named : i = k
      <4>1. named \subseteq 1 .. n
        BY DEF named
      <4> QED
        BY <3>1, <3>2, <4>1
    <3> QED
      BY <2>1, <3>1, <3>3
  <2> HIDE DEF named
  <2>4. /\ clientInfo' = [clientInfo EXCEPT ![k] = c] /\ Len(clientInfo') = n
        /\ \A i \in 1 .. n : clientInfo'[i] = IF i = k THEN c ELSE clientInfo[i]
    <3>1. clientInfo' = [clientInfo EXCEPT ![k] = c]
      BY <1>3, <1>5, <2>3
    <3>2. /\ Len([clientInfo EXCEPT ![k] = c]) = n
          /\ \A i \in 1 .. n : [clientInfo EXCEPT ![k] = c][i] = IF i = k THEN c ELSE clientInfo[i]
      BY <1>1, ExceptSeq
    <3> QED
      BY <3>1, <3>2
  <2>5. \A i \in 1 .. n : i # k => ~ Editor!Same(c.name, clientInfo[i].name)
    BY <1>4, <2>3
  <2>6. NamesDistinct'
    <3> SUFFICES ASSUME NEW i \in 1 .. n, NEW j \in 1 .. n,
                        Editor!Same(clientInfo'[i].name, clientInfo'[j].name)
                 PROVE  i = j
      BY <2>4 DEF NamesDistinct
    <3>1. CASE i = k /\ j # k
      <4>1. Editor!Same(c.name, clientInfo[j].name)
        BY <2>4, <3>1
      <4> QED
        BY <2>5, <3>1, <4>1
    <3>2. CASE i # k /\ j = k
      <4>1. Editor!Same(clientInfo[i].name, c.name)
        BY <2>4, <3>2
      <4> QED
        BY <2>5, <3>2, <4>1, SameSymmetric
    <3>3. CASE i # k /\ j # k
      <4>1. Editor!Same(clientInfo[i].name, clientInfo[j].name)
        BY <2>4, <3>3
      <4> QED
        BY <1>1, <4>1 DEF NamesDistinct
    <3> QED
      BY <3>1, <3>2, <3>3
  <2>7. others = ClientsNow \ {clientInfo[k]} /\ clientInfo[k] \in ClientsNow
    <3>1. \A i \in 1 .. n : clientInfo[i] = clientInfo[k] => i = k
      <4> SUFFICES ASSUME NEW i \in 1 .. n, clientInfo[i] = clientInfo[k] PROVE i = k
        OBVIOUS
      <4>1. Editor!Same(c.name, clientInfo[i].name)
        BY <2>2
      <4> QED
        BY <2>5, <4>1
    <3> QED
      BY <2>2, <2>5, <3>1 DEF ClientsNow
  <2>8. Cardinality(others) < MAX_CLIENTS
    <3>1. Cardinality(ClientsNow \ {clientInfo[k]}) = n - 1
      BY <1>2, <2>7, FS_RemoveElement
    <3> HIDE DEF others, n
    <3> QED
      BY <1>1, <2>7, <3>1
  <2>9. ClientsNow' = others \cup {c}
    <3>1. ClientsNow' = {clientInfo'[i] : i \in 1 .. n}
      BY <2>4 DEF ClientsNow
    <3>2. \A i \in 1 .. n : clientInfo'[i] \in others \cup {c}
      <4> SUFFICES ASSUME NEW i \in 1 .. n, i # k PROVE clientInfo'[i] \in others
        BY <2>4
      <4>1. clientInfo'[i] = clientInfo[i] /\ clientInfo[i] \in ClientsNow
        BY <2>4 DEF ClientsNow
      <4> QED
        BY <2>5, <4>1
    <3>3. \A d \in others : \E i \in 1 .. n : clientInfo'[i] = d
      <4> SUFFICES ASSUME NEW d \in others PROVE \E i \in 1 .. n : clientInfo'[i] = d
        OBVIOUS
      <4>1. PICK i \in 1 .. n : d = clientInfo[i]
        BY DEF ClientsNow
      <4>2. i # k
        BY <2>2, <4>1
      <4> QED
        BY <2>4, <4>1, <4>2
    <3>4. clientInfo'[k] = c
      BY <2>4
    <3> HIDE DEF others
    <3> QED
      BY <3>1, <3>2, <3>3, <3>4
  <2> QED
    BY <2>6, <2>8, <2>9
<1>6. CASE named = {}
  <2>1. \A i \in 1 .. n : ~ Editor!Same(c.name, clientInfo[i].name)
    BY <1>4, <1>6
  <2>2. others = ClientsNow
    BY <2>1 DEF ClientsNow
  <2> HIDE DEF named, others
  <2>3. CASE n < MAX_CLIENTS
    <3>1. /\ clientInfo' = Append(clientInfo, c) /\ Len(clientInfo') = n + 1
          /\ \A i \in 1 .. n : clientInfo'[i] = clientInfo[i]
          /\ clientInfo'[n + 1] = c
      BY <1>1, <1>3, <1>6, <2>3
    <3>2. \A i \in 1 .. n + 1 : i \in 1 .. n \/ i = n + 1
      BY <1>1
    <3>3. NamesDistinct'
      <4> SUFFICES ASSUME NEW i \in 1 .. n + 1, NEW j \in 1 .. n + 1,
                          Editor!Same(clientInfo'[i].name, clientInfo'[j].name)
                   PROVE  i = j
        BY <3>1 DEF NamesDistinct
      <4>1. CASE i \in 1 .. n /\ j \in 1 .. n
        <5>1. Editor!Same(clientInfo[i].name, clientInfo[j].name)
          BY <3>1, <4>1
        <5> QED
          BY <1>1, <4>1, <5>1 DEF NamesDistinct
      <4>2. CASE i \in 1 .. n /\ j = n + 1
        <5>1. Editor!Same(clientInfo[i].name, c.name)
          BY <3>1, <4>2
        <5> QED
          BY <2>1, <4>2, <5>1, SameSymmetric
      <4>3. CASE i = n + 1 /\ j \in 1 .. n
        <5>1. Editor!Same(c.name, clientInfo[j].name)
          BY <3>1, <4>3
        <5> QED
          BY <2>1, <4>3, <5>1
      <4> QED
        BY <3>2, <4>1, <4>2, <4>3
    <3>4. ClientsNow' = ClientsNow \cup {c}
      <4>1. ClientsNow' = {clientInfo'[i] : i \in 1 .. n + 1}
        BY <3>1 DEF ClientsNow
      <4>2. \A i \in 1 .. n + 1 : clientInfo'[i] \in ClientsNow \cup {c}
        BY <3>1, <3>2 DEF ClientsNow
      <4>3. \A d \in ClientsNow \cup {c} : \E i \in 1 .. n + 1 : clientInfo'[i] = d
        <5>1. \A i \in 1 .. n : i \in 1 .. n + 1
          BY <1>1
        <5>2. n + 1 \in 1 .. n + 1
          BY <1>1
        <5> QED
          BY <3>1, <5>1, <5>2 DEF ClientsNow
      <4> QED
        BY <4>1, <4>2, <4>3
    <3>5. Cardinality(others) < MAX_CLIENTS
      BY <1>2, <2>2, <2>3
    <3>6. ClientsNow' = others \cup {c}
      BY <2>2, <3>4
    <3> QED
      BY <3>3, <3>5, <3>6 DEF others
  <2>4. CASE ~ (n < MAX_CLIENTS)
    <3>1. clientInfo' = clientInfo
      BY <1>3, <1>6, <2>4
    <3>2. NamesDistinct' /\ ClientsNow' = ClientsNow
      BY <1>1, <3>1 DEF NamesDistinct, ClientsNow
    <3>3. ~ (Cardinality(others) < MAX_CLIENTS)
      BY <1>2, <2>2, <2>4
    <3> QED
      BY <3>2, <3>3 DEF others
  <2> QED
    BY <2>3, <2>4
<1> QED
  BY <1>5, <1>6

\* The end of a line runs it, and leaves an empty one.
LEMMA EnterIs ==
  ASSUME IInv, Enter, UNCHANGED <<running, clientInfo>>
  PROVE  IInv' /\ Editor!Enter
<1> DEFINE line == [cmdBuffer EXCEPT ![num_cmd_bfr_chars] = NUL]
           n == num_cmd_bfr_chars
<1>1. TypeOK /\ NamesDistinct /\ cmdBuffer[Last] = NUL
  BY DEF IInv
<1>2. /\ cmdBuffer \in [Cells -> Printable \cup {NUL}] /\ n \in Cells
      /\ \A i \in 0 .. n - 1 : cmdBuffer[i] # NUL
  BY <1>1 DEF TypeOK
<1>3. n \in Nat /\ n <= Last /\ Last \in Cells /\ Cells = 0 .. Last /\ Last \in Nat
  BY <1>2, CellsTyped
<1>4. line \in Buffers
  <2>1. line \in [Cells -> Printable \cup {NUL}]
    BY <1>2
  <2>2. line[Last] = NUL
    BY <1>1, <1>2, <1>3
  <2> QED
    BY <2>1, <2>2 DEF Buffers
<1>5. \A i \in 0 .. n - 1 : line[i] = cmdBuffer[i]
  BY <1>2, <1>3
<1>6. line[n] = NUL
  BY <1>2
<1>7. IsLine(line, n)
  BY <1>2, <1>5, <1>6 DEF IsLine
<1>8. LineOf(line, n) = LineNow
  <2>1. \A i \in 1 .. n : i - 1 \in 0 .. n - 1
    BY <1>3
  <2>2. \A i \in 1 .. n : line[i - 1] = cmdBuffer[i - 1]
    BY <1>5, <2>1
  <2> HIDE DEF line
  <2> QED
    BY <2>2 DEF LineOf, LineNow
<1>9. cmd_execute(line) /\ cmdBuffer' = Cut(line) /\ num_cmd_bfr_chars' = 0
  BY DEF Enter
<1> HIDE DEF line, n
<1>10. answer' = Editor!Answer(Editor!Words(LineNow))
  BY <1>1, <1>4, <1>7, <1>8, <1>9, AnswerIs
<1>11. Cut(line)[Last] = NUL
  BY <1>3, <1>4 DEF Cut, Buffers
<1>12. LineNow' = <<>>
  BY <1>9 DEF LineNow
<1>13. TypeOK'
  BY <1>1, EnterTyped
<1>14. NamesDistinct'
  BY <1>1 DEF NamesDistinct
<1>15. IInv'
  BY <1>9, <1>11, <1>13, <1>14 DEF IInv
<1> QED
  BY <1>10, <1>12, <1>15 DEF Editor!Enter, LineNow

\* Backspace takes the last character off the line.
LEMMA BackspaceIs ==
  ASSUME IInv, Backspace, UNCHANGED <<running, clientInfo>>
  PROVE  Editor!Erase
<1> DEFINE n == num_cmd_bfr_chars
<1>1. /\ n \in Nat /\ Len(LineNow) = n
      /\ \A i \in 1 .. n : LineNow[i] = cmdBuffer[i - 1]
  BY LineNowTyped DEF IInv
<1>2. /\ num_cmd_bfr_chars' = IF n > 0 THEN n - 1 ELSE 0
      /\ cmdBuffer' = cmdBuffer /\ answer' = <<"none">>
  BY DEF Backspace
<1>3. LineNow' = IF LineNow = <<>> THEN LineNow ELSE SubSeq(LineNow, 1, Len(LineNow) - 1)
  <2>1. CASE n = 0
    BY <1>2, <2>1 DEF LineNow
  <2>2. CASE n > 0
    <3>1. LineNow # <<>>
      BY <1>1, <2>2
    <3>2. LineNow' = [i \in 1 .. n - 1 |-> cmdBuffer[i - 1]]
      BY <1>2, <2>2 DEF LineNow
    <3>3. SubSeq(LineNow, 1, n - 1) = [i \in 1 .. n - 1 |-> LineNow[i]]
      BY <1>1, <2>2
    <3>4. \A i \in 1 .. n - 1 : LineNow[i] = cmdBuffer[i - 1]
      BY <1>1
    <3>5. SubSeq(LineNow, 1, n - 1) = [i \in 1 .. n - 1 |-> cmdBuffer[i - 1]]
      BY <3>3, <3>4
    <3> QED
      BY <1>1, <3>1, <3>2, <3>5
  <2> QED
    BY <1>1, <2>1, <2>2
<1> QED
  BY <1>2, <1>3 DEF Editor!Erase, LineNow

\* A character is appended to the line that has room for it.
LEMMA EchoIs ==
  ASSUME IInv, NEW c \in Printable, Echo(c), UNCHANGED <<running, clientInfo>>
  PROVE  IInv' /\ Editor!Type(c)
<1> DEFINE n == num_cmd_bfr_chars
<1>1. TypeOK /\ NamesDistinct /\ cmdBuffer[Last] = NUL
  BY DEF IInv
<1>2. /\ n \in Nat /\ n <= Last /\ Last \in Nat /\ Len(LineNow) = n
      /\ \A i \in 1 .. n : LineNow[i] = cmdBuffer[i - 1]
  BY <1>1, LineNowTyped
<1>3. cmdBuffer \in [Cells -> Printable \cup {NUL}] /\ Cells = 0 .. Last
  BY <1>1, CellsTyped DEF TypeOK
<1>4. TypeOK'
  BY <1>1, EchoTyped
<1>5. NamesDistinct'
  BY <1>1 DEF NamesDistinct
<1>6. Fits <=> n < Last
  BY DEF Fits, Last
<1>7. cmdBuffer'[Last] = NUL /\
      LineNow' = IF Len(LineNow) < Last THEN Append(LineNow, c) ELSE LineNow
  <2>1. CASE ~ Fits
    <3>1. UNCHANGED <<cmdBuffer, num_cmd_bfr_chars>>
      BY <2>1 DEF Echo
    <3>2. LineNow' = LineNow /\ cmdBuffer'[Last] = NUL
      BY <1>1, <3>1 DEF LineNow
    <3> QED
      BY <1>2, <1>6, <2>1, <3>2
  <2>2. CASE Fits
    <3>1. cmdBuffer' = [cmdBuffer EXCEPT ![n] = c] /\ num_cmd_bfr_chars' = n + 1
      BY <2>2 DEF Echo
    <3>2. cmdBuffer'[Last] = NUL
      BY <1>1, <1>2, <1>3, <1>6, <2>2, <3>1
    <3> DEFINE b == [cmdBuffer EXCEPT ![n] = c]
    <3>3. LineNow' = [i \in 1 .. n + 1 |-> b[i - 1]]
      BY <3>1 DEF LineNow
    <3>4. /\ \A i \in 1 .. n : b[i - 1] = LineNow[i]
          /\ b[n] = c
      BY <1>2, <1>3
    <3> HIDE DEF b
    <3>5. [i \in 1 .. n + 1 |-> b[i - 1]] = [i \in 1 .. n + 1 |-> IF i = n + 1 THEN c ELSE LineNow[i]]
      <4>1. \A i \in 1 .. n + 1 : b[i - 1] = IF i = n + 1 THEN c ELSE LineNow[i]
        BY <1>2, <3>4
      <4> QED
        BY <4>1
    <3>6. Append(LineNow, c) = [i \in 1 .. n + 1 |-> IF i = n + 1 THEN c ELSE LineNow[i]]
      BY <1>2 DEF LineNow
    <3> QED
      BY <1>2, <1>6, <2>2, <3>2, <3>3, <3>5, <3>6
  <2> QED
    BY <2>1, <2>2
<1>8. answer' = <<"none">> /\ clientInfo' = clientInfo
  BY DEF Echo
<1>9. IInv'
  BY <1>4, <1>5, <1>7 DEF IInv, Last
<1> QED
  BY <1>7, <1>8, <1>9 DEF Editor!Type, LineNow, Last

\* What changes neither the line nor the table runs no command.
LEMMA IdleIs ==
  ASSUME IInv, UNCHANGED <<cmdBuffer, num_cmd_bfr_chars, clientInfo>>, answer' = <<"none">>
  PROVE  Editor!Idle
BY DEF Editor!Idle

\* Every step keeps IInv and is a step of LineEditor.
LEMMA EditorStep ==
  ASSUME IInv, [Next]_vars
  PROVE  IInv' /\ [Editor!Next]_(Editor!vars)
<1>1. TypeOK /\ cmdBuffer[Last] = NUL /\ NamesDistinct
  BY DEF IInv
<1>2. TypeOK'
  BY <1>1, TypeStep
<1>3. ASSUME UNCHANGED <<cmdBuffer, clientInfo>> PROVE IInv'
  <2>1. NamesDistinct'
    BY <1>1, <1>3 DEF NamesDistinct
  <2> QED
    BY <1>1, <1>2, <1>3, <2>1 DEF IInv, Last
<1>4. CASE ConsoleRunBegins \/ ConsoleRunEnds
  <2>1. UNCHANGED <<cmdBuffer, num_cmd_bfr_chars, clientInfo>> /\ answer' = <<"none">>
    BY <1>4 DEF ConsoleRunBegins, ConsoleRunEnds
  <2> QED
    BY <1>3, <2>1, IdleIs DEF Editor!Next
<1>5. ASSUME NEW c \in Key, ConsoleRunTakes(c)
      PROVE  IInv' /\ [Editor!Next]_(Editor!vars)
  <2>1. UNCHANGED <<running, clientInfo>>
    BY <1>5 DEF ConsoleRunTakes
  <2>2. CASE Enter
    BY <2>1, <2>2, EnterIs DEF Editor!Next
  <2>3. CASE Backspace
    <3>1. cmdBuffer' = cmdBuffer
      BY <2>3 DEF Backspace
    <3> QED
      BY <1>3, <2>1, <2>3, <3>1, BackspaceIs DEF Editor!Next
  <2>4. CASE c \in Printable /\ Echo(c)
    <3>1. IInv' /\ Editor!Type(c)
      BY <2>1, <2>4, EchoIs
    <3> QED
      BY <2>4, <3>1 DEF Editor!Next, Printable
  <2>5. CASE \/ Toggle
             \/ /\ c = "other" /\ answer' = <<"none">>
                /\ UNCHANGED <<cmdBuffer, num_cmd_bfr_chars, first_run_done, outputEnabled>>
    <3>1. UNCHANGED <<cmdBuffer, num_cmd_bfr_chars, clientInfo>> /\ answer' = <<"none">>
      BY <2>1, <2>5 DEF Toggle
    <3> QED
      BY <1>3, <3>1, IdleIs DEF Editor!Next
  <2> QED
    BY <1>5, <2>2, <2>3, <2>4, <2>5 DEF ConsoleRunTakes
<1>6. CASE Register
  <2>1. PICK c \in Clients : cmd_register(c)
    BY <1>6 DEF Register
  <2>2. UNCHANGED <<cmdBuffer, num_cmd_bfr_chars, answer>>
    BY <2>1 DEF cmd_register
  <2>3. IInv'
    BY <1>1, <1>2, <2>1, <2>2, RegisterIs DEF IInv, Last
  <2>4. Editor!Register(c)
    <3>1. LET others == {d \in ClientsNow : ~ Editor!Same(c.name, d.name)} IN
          ClientsNow' = IF Cardinality(others) < MAX_CLIENTS THEN others \cup {c} ELSE ClientsNow
      BY <2>1, RegisterIs
    <3>2. \A S : Editor!Cardinality(S) = Cardinality(S)
      BY DEF Editor!Cardinality, Cardinality
    <3>3. LineNow' = LineNow
      BY <2>2 DEF LineNow
    <3> QED
      BY <2>2, <3>1, <3>2, <3>3 DEF Editor!Register, ClientsNow, LineNow
  <2> QED
    BY <2>3, <2>4 DEF Editor!Next
<1>7. CASE UNCHANGED vars
  <2>1. UNCHANGED <<cmdBuffer, num_cmd_bfr_chars, clientInfo, answer>>
    BY <1>7 DEF vars
  <2> QED
    BY <1>3, <2>1 DEF Editor!vars
<1> QED
  BY <1>4, <1>5, <1>6, <1>7 DEF Next

\* The console begins as LineEditor does, with no line and no client.
LEMMA EditorInit == Init => IInv /\ Editor!Init
<1> SUFFICES ASSUME Init PROVE IInv /\ Editor!Init
  OBVIOUS
<1>1. TypeOK
  BY InitTyped
<1>2. cmdBuffer[Last] = NUL
  BY CellsTyped DEF Init
<1>3. NamesDistinct
  BY DEF Init, NamesDistinct
<1>4. Editor!Init
  BY DEF Init, Editor!Init
<1> QED
  BY <1>1, <1>2, <1>3, <1>4 DEF IInv

\* Whatever is typed, cut or refused, the last cell of the line buffer ends
\* the string, and no two clients of the table have the same name
\* (console.c:42-104, cmd.c:14-60).
THEOREM Invariant == Spec => []IInv
<1>1. IInv /\ [Next]_vars => IInv'
  BY EditorStep
<1> QED
  BY <1>1, EditorInit, PTL DEF Spec

\* The console is the ideal line editor, for every size of the buffer, of the
\* token list and of the table: whatever was typed, erased, cut to pieces or
\* refused before, the end of a line runs the command its words name, of the
\* client last registered under the name, and no other (console.c:42-104,
\* cmd.c:14-120).
THEOREM ConsoleIsLineEditor == Spec => LineSpec
<1>1. IInv /\ [Next]_vars => [Editor!Next]_(Editor!vars)
  BY EditorStep
<1> QED
  BY <1>1, EditorInit, Invariant, PTL DEF Spec, LineSpec, Editor!Spec
=============================================================================
