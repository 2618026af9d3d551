-------------------------------- MODULE Parser --------------------------------
(***************************************************************************)
(* The parser of user/sh.c, and the grammar it is for.  A line is a        *)
(* sequence of characters; past its end is the terminating 0.  A parser   *)
(* returns the set of its result, which is empty when it panics.           *)
(***************************************************************************)
EXTENDS Naturals, Sequences, SequencesExt

CONSTANT MAXARGS

Whitespace == {" ", "nl"}
Symbols == {"<", "|", ">", "&", ";", "(", ")"}

\* A word or a file name: the first character and the one after the last.
Span(q, eq) == [q |-> q, eq |-> eq]

execcmd(argv) == [type |-> "EXEC", argv |-> argv]
redircmd(cmd, file, mode, fd) == [type |-> "REDIR", cmd |-> cmd, file |-> file, mode |-> mode, fd |-> fd]
pipecmd(left, right) == [type |-> "PIPE", left |-> left, right |-> right]
listcmd(left, right) == [type |-> "LIST", left |-> left, right |-> right]
backcmd(cmd) == [type |-> "BACK", cmd |-> cmd]

Parsed(cmd, pos) == [cmd |-> cmd, pos |-> pos]
Panic == {}

Char(s, i) == IF i > Len(s) THEN "nul" ELSE s[i]

\* The first place from i on whose character is in stop, or the end.
First(s, i, stop) ==
  CHOOSE j \in i .. Len(s) + 1 : (j > Len(s) \/ s[j] \in stop) /\ \A k \in i .. j - 1 : s[k] \notin stop

Skip(s, i) == First(s, i, Range(s) \ Whitespace)

gettoken(s, i) ==
  LET q == Skip(s, i)
      word == First(s, q, Whitespace \cup Symbols)
      Token(tok, eq) == [tok |-> tok, span |-> Span(q, eq), pos |-> Skip(s, eq)]
  IN IF Char(s, q) = "nul" THEN Token("nul", q)
     ELSE IF Char(s, q) = ">" /\ Char(s, q + 1) = ">" THEN Token("+", q + 2)
     ELSE IF Char(s, q) \in Symbols THEN Token(Char(s, q), q + 1)
     ELSE Token("a", word)

peek(s, i, toks) == Char(s, Skip(s, i)) \in toks

RECURSIVE parseredirs(_, _, _)
parseredirs(cmd, s, i) ==
  IF ~peek(s, i, {"<", ">"}) THEN {Parsed(cmd, i)}
  ELSE LET op == gettoken(s, i)
           file == gettoken(s, op.pos)
           mode == CASE op.tok = "<" -> "read" [] op.tok = ">" -> "trunc" [] op.tok = "+" -> "append"
       IN IF file.tok # "a" THEN Panic
          ELSE parseredirs(redircmd(cmd, file.span, mode, IF op.tok = "<" THEN 0 ELSE 1), s, file.pos)

\* cmd with the argument added to the command inside its redirections: parseexec
\* keeps a pointer to it.
RECURSIVE AddArg(_, _)
AddArg(cmd, span) ==
  IF cmd.type = "EXEC" THEN [cmd EXCEPT !.argv = Append(@, span)]
  ELSE [cmd EXCEPT !.cmd = AddArg(@, span)]

RECURSIVE ArgLoop(_, _, _, _)
ArgLoop(cmd, s, i, argc) ==
  LET t == gettoken(s, i) IN
  IF peek(s, i, {"|", ")", "&", ";"}) \/ t.tok = "nul" THEN {Parsed(cmd, Skip(s, i))}
  ELSE IF t.tok # "a" \/ argc + 1 >= MAXARGS THEN Panic
  ELSE UNION {ArgLoop(r.cmd, s, r.pos, argc + 1) : r \in parseredirs(AddArg(cmd, t.span), s, t.pos)}

RECURSIVE parseline(_, _)
\* Mutant: a block may end with the line.
parseblockLoose(s, i) ==
  UNION {IF peek(s, r.pos, {")"}) THEN parseredirs(r.cmd, s, gettoken(s, r.pos).pos) ELSE {r} :
         r \in parseline(s, gettoken(s, i).pos)}

parseblock(s, i) ==
  UNION {IF peek(s, r.pos, {")"}) THEN parseredirs(r.cmd, s, gettoken(s, r.pos).pos) ELSE Panic :
         r \in parseline(s, gettoken(s, i).pos)}

parseexec(s, i) ==
  IF peek(s, i, {"("}) THEN parseblock(s, i)
  ELSE UNION {ArgLoop(r.cmd, s, r.pos, 0) : r \in parseredirs(execcmd(<<>>), s, i)}

RECURSIVE parsepipe(_, _)
parsepipe(s, i) ==
  UNION {IF ~peek(s, left.pos, {"|"}) THEN {left}
         ELSE {Parsed(pipecmd(left.cmd, right.cmd), right.pos) :
               right \in parsepipe(s, gettoken(s, left.pos).pos)} :
         left \in parseexec(s, i)}

RECURSIVE Backs(_, _)
Backs(r, s) ==
  IF peek(s, r.pos, {"&"}) THEN Backs(Parsed(backcmd(r.cmd), gettoken(s, r.pos).pos), s) ELSE r

parseline(s, i) ==
  UNION {IF ~peek(s, left.pos, {";"}) THEN {left}
         ELSE {Parsed(listcmd(left.cmd, right.cmd), right.pos) :
               right \in parseline(s, gettoken(s, left.pos).pos)} :
         left \in {Backs(r, s) : r \in parsepipe(s, i)}}

\* nulterminate: the places that become 0.
RECURSIVE nulterminate(_)
nulterminate(cmd) ==
  CASE cmd.type = "EXEC" -> {cmd.argv[k].eq : k \in DOMAIN cmd.argv}
    [] cmd.type = "REDIR" -> nulterminate(cmd.cmd) \cup {cmd.file.eq}
    [] cmd.type \in {"PIPE", "LIST"} -> nulterminate(cmd.left) \cup nulterminate(cmd.right)
    [] cmd.type = "BACK" -> nulterminate(cmd.cmd)

\* A string of the line: up to the first 0.
Str(s, zeros, span) == SubSeq(s, span.q, Min({j \in span.q .. Len(s) + 1 : j > Len(s) \/ j \in zeros}) - 1)

\* The command as runcmd finds it, with the strings in place of the pointers.
RECURSIVE WithStrings(_, _, _)
WithStrings(cmd, s, zeros) ==
  CASE cmd.type = "EXEC" -> execcmd([k \in DOMAIN cmd.argv |-> Str(s, zeros, cmd.argv[k])])
    [] cmd.type = "REDIR" -> redircmd(WithStrings(cmd.cmd, s, zeros), Str(s, zeros, cmd.file), cmd.mode, cmd.fd)
    [] cmd.type = "PIPE" -> pipecmd(WithStrings(cmd.left, s, zeros), WithStrings(cmd.right, s, zeros))
    [] cmd.type = "LIST" -> listcmd(WithStrings(cmd.left, s, zeros), WithStrings(cmd.right, s, zeros))
    [] cmd.type = "BACK" -> backcmd(WithStrings(cmd.cmd, s, zeros))

\* A set again: of the command, if all of the line was parsed.
parsecmd(s) ==
  {WithStrings(r.cmd, s, nulterminate(r.cmd)) : r \in {r \in parseline(s, 1) : Skip(s, r.pos) > Len(s)}}
=============================================================================
