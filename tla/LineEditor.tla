----------------------------- MODULE LineEditor -----------------------------
(***************************************************************************)
(* What the console of src/src/console.c and src/src/cmd.c promises, with  *)
(* no buffer, terminator or table: keys build a line, and its end has the  *)
(* one command run that the line's words name, whatever was typed before.  *)
(***************************************************************************)
EXTENDS Naturals, Sequences, FiniteSets

CONSTANTS
  Letter,      \* the printable characters but the space
  Lower,       \* [Letter -> Letter], without regard to case
  HelpWords,   \* "help" and "?"
  Clients,     \* the clients that may register, [name |-> word, cmds |-> set of words]
  MaxLine,     \* characters of a line
  MaxWords,    \* words of a line
  MaxClients

VARIABLES line, clients, answer

vars == <<line, clients, answer>>

Same(v, w) ==
  /\ Len(v) = Len(w)
  /\ \A i \in 1 .. Len(v) : Lower[v[i]] = Lower[w[i]]

Known(w, names) == \E n \in names : Same(w, n)

\* A word is what stands between spaces.
Starts(l) == {i \in 1 .. Len(l) : l[i] \in Letter /\ (i = 1 \/ l[i - 1] \notin Letter)}
WordFrom(l, i) ==
  LET last == CHOOSE j \in i .. Len(l) :
        /\ \A k \in i .. j : l[k] \in Letter
        /\ j = Len(l) \/ l[j + 1] \notin Letter
  IN SubSeq(l, i, last)
Words(l) ==
  [n \in 1 .. Cardinality(Starts(l)) |->
     WordFrom(l, CHOOSE i \in Starts(l) : Cardinality({j \in Starts(l) : j <= i}) = n)]

Answer(words) ==
  IF words = <<>> THEN <<"nothing">>
  ELSE IF Len(words) > MaxWords THEN <<"too_many">>
  ELSE IF Known(words[1], HelpWords) THEN <<"help">>
  ELSE IF \A c \in clients : ~Same(words[1], c.name) THEN <<"no_client">>
  ELSE LET c == CHOOSE d \in clients : Same(words[1], d.name) IN
       IF Len(words) = 1 \/ Known(words[2], HelpWords) THEN <<"client_help", c>>
       ELSE IF Known(words[2], c.cmds) THEN <<"ran", c, words>>
       ELSE <<"no_command">>

Init == line = <<>> /\ clients = {} /\ answer = <<"none">>

Type(c) ==
  /\ line' = IF Len(line) < MaxLine THEN Append(line, c) ELSE line
  /\ answer' = <<"none">> /\ UNCHANGED clients

Erase ==
  /\ line' = IF line = <<>> THEN line ELSE SubSeq(line, 1, Len(line) - 1)
  /\ answer' = <<"none">> /\ UNCHANGED clients

Enter ==
  /\ answer' = Answer(Words(line))
  /\ line' = <<>> /\ UNCHANGED clients

Idle == answer' = <<"none">> /\ UNCHANGED <<line, clients>>

\* A client takes the place of one with its name.
Register(c) ==
  /\ LET others == {d \in clients : ~Same(c.name, d.name)} IN
     clients' = IF Cardinality(others) < MaxClients THEN others \cup {c} ELSE clients
  /\ UNCHANGED <<line, answer>>

Next ==
  \/ \E c \in Letter \cup {" "} : Type(c)
  \/ Erase \/ Enter \/ Idle
  \/ \E c \in Clients : Register(c)

Spec == Init /\ [][Next]_vars

=============================================================================
