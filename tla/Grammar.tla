------------------------------- MODULE Grammar -------------------------------
(***************************************************************************)
(* The commands of the shell by their grammar, as a reference for Parser:  *)
(*    line  ::= pipe { & } [ ; line ]                                      *)
(*    pipe  ::= simple [ | pipe ]                                          *)
(*    simple ::= ( line ) { redirection }  or  { word or redirection }     *)
(* Trees(t) are all the commands that a sequence of tokens can be.         *)
(***************************************************************************)
EXTENDS Parser

CONSTANTS Words,      \* the words of the lines to compare on
          MaxTokens   \* and how many tokens they have

\* Tokens are sequences of characters.
Redirs == {<<"<">>, <<">">>, <<">", ">">>}
Tokens == Words \cup Redirs \cup {<<c>> : c \in {"|", "&", ";", "(", ")"}}

Before(t, i) == SubSeq(t, 1, i - 1)
After(t, i) == SubSeq(t, i + 1, Len(t))
Places(t, c) == {i \in DOMAIN t : t[i] = <<c>>}

\* A redirection is an operator and the word after it.
IsRedir(t, i) == t[i] \in Redirs /\ i < Len(t) /\ t[i + 1] \in Words
IsFile(t, i) == i > 1 /\ IsRedir(t, i - 1)
Well(t) == \A i \in DOMAIN t : IsRedir(t, i) \/ t[i] \in Words

\* The redirections of t around a command, the last one outermost.
Wrap(cmd, t) ==
  FoldLeft(LAMBDA c, i : redircmd(c, t[i + 1],
             CASE t[i] = <<"<">> -> "read" [] t[i] = <<">">> -> "trunc" [] OTHER -> "append",
             IF t[i] = <<"<">> THEN 0 ELSE 1),
           cmd, SelectSeq([i \in DOMAIN t |-> i], LAMBDA i : IsRedir(t, i)))

Args(t) == SelectSeq([i \in DOMAIN t |-> i], LAMBDA i : t[i] \in Words /\ ~IsFile(t, i))

RECURSIVE Trees(_)
Simple(t) ==
  (IF Well(t) /\ Len(Args(t)) < MAXARGS
   THEN {Wrap(execcmd([k \in DOMAIN Args(t) |-> t[Args(t)[k]]]), t)} ELSE {})
  \cup UNION {{Wrap(c, After(t, i)) : c \in Trees(SubSeq(t, 2, i - 1))} :
               i \in {i \in Places(t, ")") : /\ t[1] = <<"(">> /\ Well(After(t, i))
                                             /\ Args(After(t, i)) = <<>>}}

RECURSIVE Pipes(_)
Pipes(t) ==
  Simple(t) \cup UNION {{pipecmd(l, r) : l \in Simple(Before(t, i)), r \in Pipes(After(t, i))} :
                        i \in Places(t, "|")}

RECURSIVE Backgrounds(_)
Backgrounds(t) ==
  Pipes(t) \cup {backcmd(c) : c \in IF t # <<>> /\ Last(t) = <<"&">> THEN Backgrounds(Front(t)) ELSE {}}

Trees(t) ==
  Backgrounds(t)
  \cup UNION {{listcmd(l, r) : l \in Backgrounds(Before(t, i)), r \in Trees(After(t, i))} :
               i \in Places(t, ";")}

\* The characters of a line: a symbol follows a word without a space.
Chars(t) ==
  FlattenSeq([i \in DOMAIN t |->
    t[i] \o (IF i < Len(t) /\ t[i] \in Words /\ t[i + 1] \notin Words THEN <<>> ELSE <<" ">>)])

\* The parser finds the one command a line can be, and panics when there is none.
Agrees(t) == parsecmd(Chars(t)) = Trees(t)
=============================================================================
