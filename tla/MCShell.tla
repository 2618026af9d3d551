------------------------------- MODULE MCShell -------------------------------
(* Lines to type; "c" is cat, "e" is echo, "z" is no command. *)
EXTENDS Shell

MCWords == {<<"a">>, <<"a", "b">>}

MCScripts == {
  <<"e", " ", "x", "|", "c", "nl">>,             \* more than INPUT_BUF
  <<"e", " ", "x", "|", "z", "nl">>,
  <<"c", "nl", "x", "eof", "eof">>,
  <<"e", " ", "bs", "x", "&", "cr", "e", "nl">>,
  <<"(", "e", ";", "z", ")", "nl">>,
  <<"(", "nl", "kill", "eof", "nl">>,
  <<"c", "<", "f", "nl">>,
  <<"e", " ", "x", ">", "f", "nl">>,
  <<">", "f", "nl", "c", " ", "f", "nl">>,
  <<">", "f", "nl", "c", "<", "f", "nl">>,
  <<"c", "d", " ", "nl", "nul", "dump", "x", "kill">>
}
=============================================================================
