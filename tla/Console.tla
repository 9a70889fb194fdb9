------------------------------ MODULE Console -------------------------------
(***************************************************************************)
(* src/src/console.c, src/src/cmd.c and the switch of src/src/log.c: the   *)
(* line buffer that console_run fills from the receive ring, a C string    *)
(* that cmd_execute cuts into tokens in place, and the table of clients.   *)
(* What is printed is left out.                                            *)
(***************************************************************************)
EXTENDS Integers, Sequences

CONSTANTS
  Letter, Lower, HelpWords, Clients,   \* as in LineEditor
  CONSOLE_CMD_BFR_SIZE, MAX_TOKENS, MAX_CLIENTS

ASSUME SizesAssumption ==
  /\ CONSOLE_CMD_BFR_SIZE \in Nat \ {0}
  /\ MAX_TOKENS \in Nat \ {0, 1}      \* tokens[1] is written after one token
  /\ MAX_CLIENTS \in Nat \ {0}

NUL == "nul"
Printable == Letter \cup {" "}
Key == Printable \cup {"enter", "backspace", "toggle", "other"}

ASSUME LettersAssumption ==
  Letter \cap {NUL, " ", "enter", "backspace", "toggle", "other"} = {}

VARIABLES
  cmdBuffer, num_cmd_bfr_chars, first_run_done,  \* consoleState
  running,         \* inside console_run
  clientInfo,      \* the part of the table in use
  outputEnabled,   \* of the log
  answer           \* what the last line came to

vars == <<cmdBuffer, num_cmd_bfr_chars, first_run_done, running, clientInfo,
          outputEnabled, answer>>

Cells == 0 .. CONSOLE_CMD_BFR_SIZE - 1

TypeOK ==
  /\ cmdBuffer \in [Cells -> Printable \cup {NUL}]
  /\ num_cmd_bfr_chars \in Cells
  /\ \A i \in 0 .. num_cmd_bfr_chars - 1 : cmdBuffer[i] # NUL
  /\ first_run_done \in BOOLEAN /\ running \in BOOLEAN /\ outputEnabled \in BOOLEAN
  /\ clientInfo \in Seq(Clients) /\ Len(clientInfo) <= MAX_CLIENTS

\* console_init and log_init.
Init ==
  /\ cmdBuffer = [i \in Cells |-> NUL] /\ num_cmd_bfr_chars = 0
  /\ first_run_done = FALSE /\ running = FALSE
  /\ clientInfo = <<>> /\ outputEnabled = TRUE
  /\ answer = <<"none">>
-----------------------------------------------------------------------------
(* cmd.c                                                                   *)

strcasecmp(v, w) ==
  IF Len(v) = Len(w) /\ \A i \in 1 .. Len(v) : Lower[v[i]] = Lower[w[i]] THEN 0 ELSE 1

IsHelp(token) == \E w \in HelpWords : strcasecmp(w, token) = 0

\* The places of a table for which P holds; the loops take the first.
First(places) == CHOOSE i \in places : \A j \in places : i <= j

\* Mutant of cmd_register: a client is entered beside the one with its name.
cmd_register_Appends(newClient) ==
  /\ clientInfo' = IF Len(clientInfo) < MAX_CLIENTS
                     THEN Append(clientInfo, newClient) ELSE clientInfo
  /\ UNCHANGED <<cmdBuffer, num_cmd_bfr_chars, first_run_done, running, outputEnabled, answer>>

\* The first place that is free or has the name.
cmd_register(newClient) ==
  /\ LET named == {i \in 1 .. Len(clientInfo) :
                     strcasecmp(clientInfo[i].name, newClient.name) = 0}
     IN clientInfo' =
          IF named # {} THEN [clientInfo EXCEPT ![First(named)] = newClient]
          ELSE IF Len(clientInfo) < MAX_CLIENTS THEN Append(clientInfo, newClient)
          ELSE clientInfo
  /\ UNCHANGED <<cmdBuffer, num_cmd_bfr_chars, first_run_done, running, outputEnabled, answer>>

\* A token ends at a space, which becomes its NUL, or at the line's NUL.
EndOf(buffer, p) == First({q \in p .. CONSOLE_CMD_BFR_SIZE - 1 : buffer[q] \notin Letter})

\* Where the tokens of the string at the buffer's begin start.
TokenStarts(buffer) ==
  LET From[p \in Cells] ==
        CASE buffer[p] = NUL -> <<>>
          [] buffer[p] = " " -> From[p + 1]
          [] OTHER -> LET q == EndOf(buffer, p) IN
                      <<p>> \o (IF buffer[q] = NUL THEN <<>> ELSE From[q + 1])
  IN From[0]

\* The buffer once the tokens there is room for are cut out of it.
Cut(buffer) ==
  LET starts == TokenStarts(buffer)
      ends == {EndOf(buffer, starts[n]) : n \in {m \in 1 .. Len(starts) : m <= MAX_TOKENS}}
  IN [q \in Cells |-> IF q \in ends THEN NUL ELSE buffer[q]]

\* The string at p.
StringAt(buffer, p) ==
  LET length == First({n \in 0 .. CONSOLE_CMD_BFR_SIZE - 1 - p : buffer[p + n] = NUL})
  IN [i \in 1 .. length |-> buffer[p + i - 1]]

Tokens(buffer) ==
  LET starts == TokenStarts(buffer)
  IN [n \in 1 .. Len(starts) |-> StringAt(Cut(buffer), starts[n])]

\* What a client is asked: a client's name alone asks for its help.
ClientCommand(c, tokens) ==
  IF Len(tokens) = 1 \/ IsHelp(tokens[2]) THEN <<"client_help", c>>
  ELSE IF \E name \in c.cmds : strcasecmp(tokens[2], name) = 0 THEN <<"ran", c, tokens>>
  ELSE <<"no_command">>

cmd_execute(buffer) ==
  LET num_tokens == Len(TokenStarts(buffer))
      tokens == Tokens(buffer)
      named == {i \in 1 .. Len(clientInfo) : strcasecmp(tokens[1], clientInfo[i].name) = 0}
  IN answer' = IF num_tokens > MAX_TOKENS THEN <<"too_many">>
               ELSE IF num_tokens = 0 THEN <<"nothing">>
               ELSE IF IsHelp(tokens[1]) THEN <<"help">>
               ELSE IF named = {} THEN <<"no_client">>
               ELSE ClientCommand(clientInfo[First(named)], tokens)
-----------------------------------------------------------------------------
(* console.c                                                               *)

\* The prompt is printed only while the log is silent.
ConsoleRunBegins ==
  /\ ~running /\ running' = TRUE
  /\ first_run_done' = (first_run_done \/ ~outputEnabled)
  /\ answer' = <<"none">>
  /\ UNCHANGED <<cmdBuffer, num_cmd_bfr_chars, clientInfo, outputEnabled>>

\* No more characters in the ring.
ConsoleRunEnds ==
  /\ running /\ running' = FALSE
  /\ answer' = <<"none">>
  /\ UNCHANGED <<cmdBuffer, num_cmd_bfr_chars, first_run_done, clientInfo, outputEnabled>>

\* Mutant of Enter: the string is ended by what earlier lines left.
Enter_Unterminated ==
  /\ cmd_execute(cmdBuffer)
  /\ cmdBuffer' = Cut(cmdBuffer)
  /\ num_cmd_bfr_chars' = 0
  /\ UNCHANGED <<first_run_done, outputEnabled>>

Enter ==
  /\ LET line == [cmdBuffer EXCEPT ![num_cmd_bfr_chars] = NUL]
     IN cmd_execute(line) /\ cmdBuffer' = Cut(line)
  /\ num_cmd_bfr_chars' = 0
  /\ UNCHANGED <<first_run_done, outputEnabled>>

Backspace ==
  /\ num_cmd_bfr_chars' = IF num_cmd_bfr_chars > 0 THEN num_cmd_bfr_chars - 1 ELSE 0
  /\ answer' = <<"none">>
  /\ UNCHANGED <<cmdBuffer, first_run_done, outputEnabled>>

\* log_toggle_active; the next silence begins with a prompt.
Toggle ==
  /\ outputEnabled' = ~outputEnabled
  /\ first_run_done' = (first_run_done /\ ~outputEnabled')
  /\ answer' = <<"none">>
  /\ UNCHANGED <<cmdBuffer, num_cmd_bfr_chars>>

\* Mutant of Fits: the cell of the terminator is given away.
Fits_OneMore == num_cmd_bfr_chars < CONSOLE_CMD_BFR_SIZE

Fits == num_cmd_bfr_chars < CONSOLE_CMD_BFR_SIZE - 1

\* A character that does not fit rings the bell.
Echo(c) ==
  /\ IF Fits THEN /\ cmdBuffer' = [cmdBuffer EXCEPT ![num_cmd_bfr_chars] = c]
                  /\ num_cmd_bfr_chars' = num_cmd_bfr_chars + 1
             ELSE UNCHANGED <<cmdBuffer, num_cmd_bfr_chars>>
  /\ answer' = <<"none">>
  /\ UNCHANGED <<first_run_done, outputEnabled>>

\* One turn of console_run's loop.
ConsoleRunTakes(c) ==
  /\ running
  /\ \/ c = "enter" /\ Enter
     \/ c = "backspace" /\ Backspace
     \/ c = "toggle" /\ Toggle
     \/ c \in Printable /\ Echo(c)
     \/ /\ c = "other" /\ answer' = <<"none">>
        /\ UNCHANGED <<cmdBuffer, num_cmd_bfr_chars, first_run_done, outputEnabled>>
  /\ UNCHANGED <<running, clientInfo>>

\* Clients register from outside console_run.
Register == ~running /\ \E c \in Clients : cmd_register(c)

Next ==
  \/ ConsoleRunBegins \/ ConsoleRunEnds
  \/ \E c \in Key : ConsoleRunTakes(c)
  \/ Register

Spec == Init /\ [][Next]_vars
-----------------------------------------------------------------------------
(* Properties.                                                             *)

Editor == INSTANCE LineEditor WITH
  line <- [i \in 1 .. num_cmd_bfr_chars |-> cmdBuffer[i - 1]],
  clients <- {clientInfo[i] : i \in 1 .. Len(clientInfo)},
  MaxLine <- CONSOLE_CMD_BFR_SIZE - 1, MaxWords <- MAX_TOKENS, MaxClients <- MAX_CLIENTS

\* The console is the ideal line editor: whatever was typed, erased, cut to
\* pieces or refused before, the end of a line runs the command that the
\* line's own words name, of the client last registered under the name, and
\* no other (console.c:42-104, cmd.c:14-120).
LineSpec == Editor!Spec

=============================================================================
