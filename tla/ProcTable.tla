------------------------------- MODULE ProcTable -------------------------------
(***************************************************************************)
(* The state of kernel/proc.c: the process table, its locks, the CPUs, and *)
(* the kernel thread of each process; with the operators that read or      *)
(* change one slot of the table.  The operations are in Proc.              *)
(***************************************************************************)
EXTENDS Integers

CONSTANTS NPROC,       \* slots of the process table
          CPUs,        \* the cores
          CPU0,        \* the core whose timer interrupt advances ticks
          None,        \* no core, no process
          TickMod,     \* ticks wraps at this value (2^32 in the kernel)
          SleepTicks,  \* the arguments of sleep() that programs use
          KillPids,    \* the arguments of kill() that programs use
          Syscalls,    \* the system calls that programs make; "io" is any call
                       \* of the file system or the console, "fault" a trap
                       \* that is neither a system call nor an interrupt
          MaxPid       \* bound of the model: fork stops at this pid

ASSUME ProcAssumption ==
  /\ NPROC \in Nat \ {0} /\ TickMod \in Nat \ {0} /\ MaxPid \in Nat
  /\ CPU0 \in CPUs /\ None \notin CPUs \cup Nat
  /\ SleepTicks \subseteq 0 .. TickMod - 1 /\ KillPids \subseteq Nat
  /\ Syscalls \subseteq {"fork", "exit", "wait", "kill", "sleep", "io", "fault"}

Procs     == 1 .. NPROC
initproc  == 1
NoChan    == 0
TicksChan == NPROC + 1      \* &ticks: not the address of a slot
IoChan    == NPROC + 2      \* the log, a sleeplock, a disk request, uart_tx_r

VARIABLES
  \* struct proc
  state, pid, parent, chan, killed,
  plock, wait_lock, tickslock,  \* the CPU that holds the lock, or None
  nextpid, ticks,
  \* struct cpu, and the scheduler's position: "scan" the table from slot si,
  \* "run" a process, "back" from swtch
  cproc, spc, si,
  \* the interrupt handler of each CPU, and its wakeup's position
  hpc, hi,
  \* the kernel thread of each process: its step; the step it was preempted
  \* at; the local variables of the call it is in
  pc, saved, loc

procVars   == <<state, pid, parent, chan, killed>>
lockVars   == <<plock, wait_lock, tickslock>>
schedVars  == <<cproc, spc, si>>
handlerVars == <<hpc, hi>>
threadVars == <<pc, saved, loc>>
vars == <<procVars, lockVars, nextpid, ticks, schedVars, handlerVars, threadVars>>

\* Locals: i scans the table, w is wakeup's scan, chan the argument of wakeup
\* or sleep; arg is fork's np, kill's pid, sys_sleep's ticks0, or 1 when it is
\* exit that sleeps on IoChan; n is sys_sleep's; flag is wait's havekids, and
\* in exit: reparent is done.
NoLocals == [i |-> 1, w |-> 1, chan |-> NoChan, arg |-> 0, n |-> 0, flag |-> FALSE]

\* Steps of a thread at which it holds no lock and interrupts are on.
Interruptible == {"user", "ret", "fork", "fork_parent", "fork_runnable", "exit",
                  "wait", "kill", "sys_sleep", "io", "reacquire"}
-----------------------------------------------------------------------------
\* The thread of p is on a CPU: it executes, or a handler does on top of it.
OnCpu(p, c) == spc[c] = "run" /\ cproc[c] = p

\* Mutant: killed is not reset.
freeprocKeepKilled(p) ==
  /\ state' = [state EXCEPT ![p] = "UNUSED"]
  /\ pid' = [pid EXCEPT ![p] = 0]
  /\ parent' = [parent EXCEPT ![p] = None]
  /\ chan' = [chan EXCEPT ![p] = NoChan]
  /\ UNCHANGED killed

\* freeproc(p): the fields it resets.
freeproc(p) ==
  /\ state' = [state EXCEPT ![p] = "UNUSED"]
  /\ pid' = [pid EXCEPT ![p] = 0]
  /\ parent' = [parent EXCEPT ![p] = None]
  /\ chan' = [chan EXCEPT ![p] = NoChan]
  /\ killed' = [killed EXCEPT ![p] = FALSE]

\* The body of wakeup's loop for slot q.
Awaken(q, ch) ==
  state' = [state EXCEPT ![q] = IF @ = "SLEEPING" /\ chan[q] = ch THEN "RUNNABLE" ELSE @]

\* q is the next child in p's loop over the table.
NextChild(p, q) ==
  /\ q >= loc[p].i /\ parent[q] = p
  /\ \A r \in Procs : r >= loc[p].i /\ parent[r] = p => q <= r

NoChildLeft(p) == \A q \in Procs : q >= loc[p].i => parent[q] # p

\* ticks - ticks0 < n, in unsigned arithmetic.
StillEarly(p) == (ticks - loc[p].arg) % TickMod < loc[p].n
=============================================================================
