-------------------------------- MODULE Shell --------------------------------
(***************************************************************************)
(* user/init.c, user/sh.c, and user/cat.c and user/echo.c as the commands  *)
(* it runs, on the console of module Console: a line goes from the         *)
(* keyboard through gets, parsecmd and runcmd into processes, descriptors  *)
(* and pipes, and the prompt comes back.                                   *)
(*                                                                         *)
(* fork, wait, exit, pipes and files are external here (modules Proc, Pipe *)
(* and Fs): fork copies the descriptors, exit closes them and leaves a     *)
(* zombie, a pipe ends when no descriptor for its write end is left, a     *)
(* file has at most one character.  The text of a message is one           *)
(* character: "$" the prompt, "!" a complaint.                             *)
(***************************************************************************)
EXTENDS Console, Grammar, FiniteSets

CONSTANTS NBUF,      \* sizeof(buf) in main
          CatBuf,    \* sizeof(buf) in cat
          PipeSize, NOFD

ASSUME ShellAssumption ==
  0 \in Procs /\ Procs \subseteq Nat /\ {NBUF, CatBuf, PipeSize} \subseteq Nat \ {0} /\ NOFD > 5

VARIABLES proc,    \* of each process: st, parent, pc, cmd, buf, fd, and of a write out and to
          pipe,    \* the content of each pipe
          files,   \* the names of the files there are
          shell    \* the pid init waits for

shVars == <<proc, pipe, files, shell>>
vars == <<consVars, shVars>>

initproc == 0
Fds == 0 .. NOFD - 1
Closed == <<"closed", 0>>
Tty == <<"console", 0>>
Of(kind, k) == <<kind, k>>      \* an end of pipe k, or a file with k characters left

Unused == [st |-> "unused", parent |-> initproc, pc |-> "none", cmd |-> execcmd(<<>>), buf |-> <<>>,
           out |-> <<>>, to |-> 1, in |-> 0, arg |-> 1, fd |-> [f \in Fds |-> Closed]]

Init ==
  /\ ConsoleInit
  /\ proc = [p \in Procs |-> IF p = initproc
               THEN [Unused EXCEPT !.st = "run", !.pc = "start",
                                   !.fd = [f \in Fds |-> IF f < 3 THEN Tty ELSE Closed]] ELSE Unused]
  /\ pipe = [k \in Procs |-> <<>>]
  /\ files = {}
  /\ shell = initproc
-----------------------------------------------------------------------------
(* System calls of a process. *)

At(p, pc) == proc[p].st = "run" /\ proc[p].pc = pc /\ proc[p].out = <<>>
Becomes(p, r) == proc' = [proc EXCEPT ![p] = r]
Goto(r, pc) == [r EXCEPT !.pc = pc]
\* Writes the characters to descriptor to and then goes on at pc.
Says(r, chars, to, pc) == [r EXCEPT !.out = chars, !.to = to, !.pc = pc]
Complains(r, pc) == Says(r, <<"!">>, 2, pc)

FreeFd(fd) == Min({f \in Fds : fd[f] = Closed})
Open(k, kind) == \E p \in Procs, f \in Fds : proc[p].fd[f] = Of(kind, k)
FreeSlots == {q \in Procs : proc[q].st = "unused"}

\* fork1: the parent goes on as r, the child as c.
fork1(p, r, c) ==
  IF FreeSlots = {} THEN Becomes(p, Complains(proc[p], "exit"))
  ELSE proc' = [proc EXCEPT ![p] = r, ![Min(FreeSlots)] = [c EXCEPT !.parent = p]]

exit(p) ==
  /\ At(p, "exit")
  /\ proc' = [q \in Procs |->
       IF q = p THEN [Unused EXCEPT !.st = "zombie", !.parent = proc[p].parent]
       ELSE IF proc[q].st # "unused" /\ proc[q].parent = p THEN [proc[q] EXCEPT !.parent = initproc]
       ELSE proc[q]]
  /\ UNCHANGED <<consVars, pipe, files, shell>>

Children(p) == {q \in Procs \ {initproc} : proc[q].st # "unused" /\ proc[q].parent = p}

\* wait(0), then on as r; at once if there is no child.
wait(p, r) ==
  /\ IF Children(p) = {} THEN Becomes(p, r)
     ELSE \E q \in Children(p) : /\ proc[q].st = "zombie"
                                 /\ proc' = [proc EXCEPT ![p] = r, ![q] = Unused]
  /\ UNCHANGED <<consVars, pipe, files, shell>>

\* One character of a write.
write(p) ==
  LET r == proc[p]
      f == r.fd[r.to]
      c == Head(r.out)
      Written == Becomes(p, [r EXCEPT !.out = Tail(@)])
      \* cat checks what write returns, the others do not
      Failed1 == IF r.pc = "cat" THEN Becomes(p, Complains(r, "exit")) ELSE Written
  IN
  /\ r.out # <<>> /\ UNCHANGED <<files, shell>>
  /\ \/ f = Tty /\ uartputc(p, c) /\ Written /\ UNCHANGED pipe
     \/ f = Tty /\ uartputcSleep(p) /\ UNCHANGED <<proc, pipe>>
     \/ f[1] = "file" /\ Written /\ UNCHANGED <<consVars, pipe>>
     \/ /\ f[1] = "pipew" /\ Open(f[2], "piper") /\ Len(pipe[f[2]]) < PipeSize
        /\ Written /\ pipe' = [pipe EXCEPT ![f[2]] = Append(@, c)] /\ UNCHANGED consVars
     \/ /\ f[1] = "pipew" /\ ~Open(f[2], "piper")
        /\ Failed1 /\ UNCHANGED <<consVars, pipe>>
-----------------------------------------------------------------------------
(* init and the main loop of the shell. *)

\* init starts a shell, and again when that shell has exited; it also waits for
\* the processes whose parent has exited.  When fork fails it exits.
initmain ==
  \/ /\ At(initproc, "start") /\ UNCHANGED <<consVars, pipe, files>>
     /\ IF FreeSlots = {} THEN Becomes(initproc, Goto(proc[initproc], "exit")) /\ UNCHANGED shell
        ELSE /\ fork1(initproc, Goto(proc[initproc], "wait"), Goto(proc[initproc], "prompt"))
             /\ shell' = Min(FreeSlots)
  \/ /\ At(initproc, "wait")
     /\ \E z \in Children(initproc) :
          /\ proc[z].st = "zombie"
          /\ proc' = [proc EXCEPT ![z] = Unused, ![initproc].pc = IF z = shell THEN "start" ELSE "wait"]
     /\ UNCHANGED <<consVars, pipe, files, shell>>

\* getcmd: the prompt, and gets, which reads one character at a time.
getcmd(p) ==
  /\ UNCHANGED <<pipe, files, shell>>
  /\ \/ /\ At(p, "prompt") /\ UNCHANGED consVars
        /\ Becomes(p, Says([proc[p] EXCEPT !.buf = <<>>], <<"$">>, 2, "gets"))
     \/ At(p, "gets") /\ io[p].st # "done" /\ consoleread(p, 1, 1) /\ UNCHANGED proc
     \/ /\ At(p, "gets") /\ io[p].st = "done"
        /\ LET line == proc[p].buf \o io[p].got
               over == io[p].got \in {<<>>, <<"nl">>} \/ Len(line) + 1 >= NBUF
           IN Becomes(p, [proc[p] EXCEPT !.buf = line, !.pc = IF over THEN "main" ELSE "gets"])
        /\ io' = [io EXCEPT ![p] = Idle] /\ UNCHANGED <<typed, dev, handler, cons, tx>>

IsCd(line) == Len(line) >= 3 /\ SubSeq(line, 1, 3) = <<"c", "d", " ">>

main(p) ==
  LET r == proc[p] IN
  /\ At(p, "main") /\ UNCHANGED <<consVars, pipe, files, shell>>
  /\ \/ r.buf = <<>> /\ Becomes(p, Goto(r, "exit"))
     \/ IsCd(r.buf) /\ (Becomes(p, Goto(r, "prompt")) \/ Becomes(p, Complains(r, "prompt")))
     \/ r.buf # <<>> /\ ~IsCd(r.buf) /\ fork1(p, Goto(r, "mainwait"), Goto(r, "parse"))

\* parsecmd in the child.
Parse(p) ==
  /\ At(p, "parse") /\ UNCHANGED <<consVars, pipe, files, shell>>
  /\ \/ parsecmd(proc[p].buf) = Panic /\ Becomes(p, Complains(proc[p], "exit"))
     \/ \E cmd \in parsecmd(proc[p].buf) : Becomes(p, [proc[p] EXCEPT !.cmd = cmd, !.pc = "run"])

Waits(p) ==
  \/ At(p, "mainwait") /\ wait(p, Goto(proc[p], "prompt"))
  \/ At(p, "listwait") /\ wait(p, [proc[p] EXCEPT !.pc = "run", !.cmd = proc[p].cmd.right])
  \/ At(p, "pipewait") /\ wait(p, Goto(proc[p], "lastwait"))
  \/ At(p, "lastwait") /\ wait(p, Goto(proc[p], "exit"))
-----------------------------------------------------------------------------
(* runcmd. *)

Runs(p, type) == At(p, "run") /\ proc[p].cmd.type = type /\ UNCHANGED <<consVars, shell>>

\* What echo writes.
EchoOf(argv) ==
  FlattenSeq([k \in 1 .. Len(argv) - 1 |-> argv[k + 1] \o <<IF k + 1 < Len(argv) THEN " " ELSE "nl">>])

runexec(p) ==
  LET r == proc[p]
      argv == r.cmd.argv
  IN
  /\ Runs(p, "EXEC") /\ UNCHANGED <<pipe, files>>
  /\ Becomes(p, IF argv = <<>> THEN Goto(r, "exit")
                ELSE IF argv[1] = <<"e">> THEN Says(r, EchoOf(argv), 1, "exit")
                ELSE IF argv[1] = <<"c">> THEN Goto(r, IF Len(argv) = 1 THEN "cat" ELSE "catopen")
                ELSE Complains(r, "exit"))

runredir(p) ==
  LET r == proc[p]
      fd == [r.fd EXCEPT ![r.cmd.fd] = Closed]
      Opened(f) == Becomes(p, [r EXCEPT !.fd = [fd EXCEPT ![FreeFd(fd)] = f], !.cmd = r.cmd.cmd])
  IN
  /\ Runs(p, "REDIR") /\ UNCHANGED pipe
  /\ \/ /\ r.cmd.mode = "read" /\ r.cmd.file \notin files
        /\ Becomes(p, Complains([r EXCEPT !.fd = fd], "exit")) /\ UNCHANGED files
     \/ /\ r.cmd.mode = "read" /\ r.cmd.file \in files
        /\ (\E n \in {0, 1} : Opened(Of("file", n))) /\ UNCHANGED files
     \/ r.cmd.mode # "read" /\ Opened(Of("file", 0)) /\ files' = files \cup {r.cmd.file}

runlist(p) ==
  /\ Runs(p, "LIST") /\ UNCHANGED <<pipe, files>>
  /\ fork1(p, Goto(proc[p], "listwait"), [proc[p] EXCEPT !.cmd = proc[p].cmd.left])

runback(p) ==
  /\ Runs(p, "BACK") /\ UNCHANGED <<pipe, files>>
  /\ fork1(p, Goto(proc[p], "exit"), [proc[p] EXCEPT !.cmd = proc[p].cmd.cmd])

\* close(fd); dup(from); close(p[0]); close(p[1]).
\* Mutant: the write end stays open in the right child.
ChildFdsLeak(table, p0, p1, fd, from) ==
  [table EXCEPT ![fd] = table[from], ![p0] = Closed, ![p1] = IF fd = 0 THEN @ ELSE Closed]
ChildFds(table, p0, p1, fd, from) == [table EXCEPT ![fd] = table[from], ![p0] = Closed, ![p1] = Closed]

\* pipe and the first fork; then the second one, and the parent closes its ends.
runpipe(p) ==
  LET r == proc[p]
      k == Min({k \in Procs : ~Open(k, "piper") /\ ~Open(k, "pipew")})
      p0 == FreeFd(r.fd)
      p1 == Min({f \in Fds \ {p0} : r.fd[f] = Closed})
      piped == [r.fd EXCEPT ![p0] = Of("piper", k), ![p1] = Of("pipew", k)]
  IN
  /\ Runs(p, "PIPE") /\ pipe' = [pipe EXCEPT ![k] = <<>>] /\ UNCHANGED files
  /\ fork1(p, [r EXCEPT !.fd = piped, !.pc = "pipe2", !.arg = <<p0, p1>>],
              [r EXCEPT !.fd = ChildFds(piped, p0, p1, 1, p1), !.cmd = r.cmd.left])

runpipe2(p) ==
  LET r == proc[p]
      p0 == r.arg[1]
      p1 == r.arg[2]
  IN
  /\ At(p, "pipe2") /\ UNCHANGED <<consVars, pipe, files, shell>>
  /\ fork1(p, [r EXCEPT !.fd[p0] = Closed, !.fd[p1] = Closed, !.pc = "pipewait"],
              [r EXCEPT !.fd = ChildFds(r.fd, p0, p1, 0, p0), !.cmd = r.cmd.right, !.pc = "run"])
-----------------------------------------------------------------------------
(* cat: from descriptor 0, or from the files it is called with. *)

\* A read of up to CatBuf characters has returned; none is the end.
CatGot(r, chars) ==
  IF chars # <<>> THEN Says(r, chars, 1, "cat")
  ELSE IF Len(r.cmd.argv) = 1 THEN Goto(r, "exit")
  ELSE [r EXCEPT !.fd[r.in] = Closed, !.arg = @ + 1, !.pc = "catopen"]

catread(p) ==
  LET r == proc[p]
      f == r.fd[r.in]
      n == Min({CatBuf, Len(pipe[f[2]])})
      idle == [io EXCEPT ![p] = Idle]
  IN
  /\ At(p, "cat") /\ UNCHANGED <<files, shell>>
  /\ \/ f = Tty /\ io[p].st # "done" /\ consoleread(p, CatBuf, CatBuf) /\ UNCHANGED <<proc, pipe>>
     \/ /\ f = Tty /\ io[p].st = "done" /\ Becomes(p, CatGot(r, io[p].got)) /\ io' = idle
        /\ UNCHANGED <<pipe, typed, dev, handler, cons, tx>>
     \/ /\ f[1] = "piper" /\ (n > 0 \/ ~Open(f[2], "pipew"))
        /\ Becomes(p, CatGot(r, SubSeq(pipe[f[2]], 1, n)))
        /\ pipe' = [pipe EXCEPT ![f[2]] = SubSeq(@, n + 1, Len(@))] /\ UNCHANGED consVars
     \/ /\ f[1] = "file" /\ UNCHANGED <<consVars, pipe>>
        /\ Becomes(p, CatGot([r EXCEPT !.fd[r.in] = Of("file", 0)], IF f[2] = 0 THEN <<>> ELSE <<"x">>))

\* A cat that waits for the user is killed: its read returns -1 and usertrap makes
\* it exit.
Killed(p) ==
  /\ proc[p].pc = "cat" /\ io[p].st = "rsleep" /\ handler = "none"
  /\ Becomes(p, Goto(proc[p], "exit")) /\ io' = [io EXCEPT ![p] = Idle]
  /\ UNCHANGED <<typed, dev, handler, cons, tx, pipe, files, shell>>

catopen(p) ==
  LET r == proc[p]
      f == FreeFd(r.fd)
      argv == r.cmd.argv
  IN
  /\ At(p, "catopen") /\ UNCHANGED <<consVars, pipe, files, shell>>
  /\ \/ r.arg + 1 > Len(argv) /\ Becomes(p, Goto(r, "exit"))
     \/ r.arg + 1 <= Len(argv) /\ argv[r.arg + 1] \notin files /\ Becomes(p, Complains(r, "exit"))
     \/ /\ r.arg + 1 <= Len(argv) /\ argv[r.arg + 1] \in files
        /\ \E n \in {0, 1} : Becomes(p, [r EXCEPT !.fd[f] = Of("file", n), !.in = f, !.pc = "cat"])

Step(p) ==
  \/ write(p) \/ exit(p) \/ getcmd(p) \/ main(p) \/ Parse(p) \/ Waits(p)
  \/ runexec(p) \/ runredir(p) \/ runlist(p) \/ runback(p) \/ runpipe(p) \/ runpipe2(p)
  \/ catread(p) \/ catopen(p)

\* What happens without the user.
Run ==
  \/ /\ Transmitted \/ devintr \/ uartgetc \/ uartintr \/ uartstart \/ extioi_complete
     /\ UNCHANGED shVars
  \/ handler = "none" /\ (initmain \/ \E p \in Procs \ {initproc} : Step(p))

Next == Run \/ (Type /\ UNCHANGED shVars) \/ \E p \in Procs : Killed(p)

\* The machine does not stop while something can run.
Spec == Init /\ [][Next]_vars /\ WF_vars(Run)
-----------------------------------------------------------------------------
AllAgree == \A n \in 0 .. MaxTokens : \A t \in [1 .. n -> Tokens] : Agrees(t)

\* A shell that init starts understands the user: on every line of at most
\* MaxTokens tokens its parser agrees with the grammar.  It finds the one command
\* that the line can be, with the strings that nulterminate leaves, and panics
\* exactly when there is none (sh.c:327 to 493).
ParserCorrect == proc[initproc].pc = "start" => AllAgree

\* The ring is full and the UART idle, and no interrupt will come: the UART became
\* ready between uartstart and extioi_complete (trap.c:195 to 200).
Stalled == TxFull /\ dev.thr = "idle" /\ ~dev.irq /\ handler = "none"

\* The shell never hangs: once it waits for a command it prompts again (or gives
\* up), unless the command waits for the user, or an interrupt of the UART is lost
\* and the output stands still until the next key.  For this every sleeper on a
\* full output ring must be woken, and every write end of a pipe but that of the
\* left command be closed, so that the right one sees the end (sh.c:104 to 121,
\* uart.c:100, 157; wait: sh.c:169).
PromptsAgain ==
  proc[shell].pc = "mainwait" ~>
    \/ proc[shell].pc # "mainwait" \/ Stalled
    \/ \E q \in Procs : proc[q].pc = "cat" /\ io[q].st = "rsleep"
=============================================================================
