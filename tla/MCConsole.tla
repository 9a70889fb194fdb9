----------------------------- MODULE MCConsole ------------------------------
(* Console with lines of five characters of two letters that differ only in *)
(* case and a help word, and four clients, two of them under one name.     *)
EXTENDS Console, LogNumbers, RtcTime

MCLetter == {"a", "A", "?"}
MCLower == [c \in MCLetter |-> IF c = "A" THEN "a" ELSE c]
MCHelpWords == {<<"?">>}
MCClients == {[name |-> <<"a">>, cmds |-> {<<"a">>}],
              [name |-> <<"A">>, cmds |-> {<<"a", "a">>}],
              [name |-> <<"a", "a">>, cmds |-> {<<"A">>, <<"a", "a">>}],
              [name |-> <<"?", "?">>, cmds |-> {}]}

=============================================================================
