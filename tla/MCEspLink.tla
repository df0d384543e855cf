---------------------------- MODULE MCEspLink ----------------------------
(* Small instances of EspLink.                                             *)
EXTENDS EspLink

Cmd(m, a, w) == [mode |-> m, ack |-> a, wait |-> w]

\* AT commands (awaited and sent without waiting) and HTTP requests.
MCCommands == {Cmd(1, "OK", 3), Cmd(1, "none", 0), Cmd(2, "rb", 2)}

\* Answers: none, an error, an acknowledgement, and an object that ends in two braces
\* (with the answer before it, it is longer than the buffer).
MCReplies == <<{<<>>, <<"ERROR", "nl">>, <<"OK", "nl">>},
               {<<>>, <<"x", "rb", "rb">>}>>
=============================================================================
