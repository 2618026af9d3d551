--------------------------------- MODULE Proc ---------------------------------
(***************************************************************************)
(* kernel/proc.c: the process table, the per-CPU scheduler, sleep and      *)
(* wakeup, fork, exit, wait and kill; with the callers that drive them:    *)
(* usertrap and kerneltrap (kernel/trap.c), the clock interrupt and        *)
(* sys_sleep (kernel/sysproc.c).  The calls of the file system and of the  *)
(* console appear by what they do to the table: they sleep, again and      *)
(* again, in loops that do not test p->killed (begin_op, acquiresleep,     *)
(* uartputc), and are woken.                                               *)
(*                                                                         *)
(* Locks are taken as in LockTable: an acquire waits for the lock to be    *)
(* free.  A critical section that takes no second lock (other than leaf    *)
(* locks such as pid_lock) is one step; locks that stay held from one step *)
(* to the next are in plock, wait_lock and tickslock, which name the CPU.  *)
(* Interrupts are off exactly while a CPU holds a lock or runs a handler   *)
(* (SpinLock), so a clock interrupt may come between any two steps of a    *)
(* thread that holds no lock.                                              *)
(***************************************************************************)
EXTENDS ProcTable

Init ==
  /\ state = [p \in Procs |-> IF p = initproc THEN "RUNNABLE" ELSE "UNUSED"]
  /\ pid = [p \in Procs |-> IF p = initproc THEN 1 ELSE 0]
  /\ parent = [p \in Procs |-> None]
  /\ chan = [p \in Procs |-> NoChan]
  /\ killed = [p \in Procs |-> FALSE]
  /\ plock = [p \in Procs |-> None]
  /\ wait_lock = None /\ tickslock = None
  /\ nextpid = 2 /\ ticks = 0
  /\ cproc = [c \in CPUs |-> None]
  /\ spc = [c \in CPUs |-> "scan"]
  /\ si = [c \in CPUs |-> 1]
  /\ hpc = [c \in CPUs |-> "none"]
  /\ hi = [c \in CPUs |-> 1]
  /\ pc = [p \in Procs |-> "forkret"]
  /\ saved = [p \in Procs |-> "user"]
  /\ loc = [p \in Procs |-> NoLocals]
-----------------------------------------------------------------------------
\* The thread of p executes on c at this step, with no handler on top of it.
At(p, c, label) ==
  spc[c] = "run" /\ cproc[c] = p /\ hpc[c] = "none" /\ pc[p] = label

Goto(p, label) == pc' = [pc EXCEPT ![p] = label]

\* The interrupts of c are on: its thread, or its scheduler, holds no lock and
\* no handler runs.
InterruptsOn(c) ==
  /\ hpc[c] = "none"
  /\ \/ spc[c] = "scan"
     \/ spc[c] = "run" /\ pc[cproc[c]] \in Interruptible

\* The call p is in returns to the code of usertrap that follows syscall().
Return(p) ==
  /\ Goto(p, "ret")
  /\ loc' = [loc EXCEPT ![p] = NoLocals]

\* mycpu()->noff != 1 on a CPU that holds p->lock: it holds another lock too.
OtherLocks(p, c) ==
  \/ wait_lock = c \/ tickslock = c
  \/ \E q \in Procs \ {p} : plock[q] = c
-----------------------------------------------------------------------------
(* usertrap: entering and leaving the kernel *)

\* A system call; init (user/init.c) forks and waits only.
Syscall(p, c, call) ==
  /\ At(p, c, "user")
  /\ ~killed[p]
  /\ p = initproc => call \in {"fork", "wait"}
  /\ call = "fork" => nextpid <= MaxPid
  /\ \/ /\ call \in {"fork", "exit", "wait", "io"}
        /\ Goto(p, call)
        /\ UNCHANGED loc
     \/ /\ call = "kill"
        /\ Goto(p, "kill")
        /\ \E k \in KillPids : loc' = [loc EXCEPT ![p].arg = k]
     \/ /\ call = "sleep"
        /\ Goto(p, "sys_sleep")
        /\ \E n \in SleepTicks : loc' = [loc EXCEPT ![p].n = n]
  /\ UNCHANGED <<procVars, lockVars, nextpid, ticks, schedVars, handlerVars, saved>>

\* usertrap's checks of p->killed: before a system call, and after it.
KilledAtEntry(p, c) ==
  /\ At(p, c, "user")
  /\ killed[p]
  /\ Goto(p, "exit")
  /\ UNCHANGED <<procVars, lockVars, nextpid, ticks, schedVars, handlerVars, saved, loc>>

\* A trap that is neither a system call nor an interrupt: usertrap sets
\* p->killed and exits, with interrupts still off.  init does not fault.
Fault(p, c) ==
  /\ At(p, c, "user")
  /\ p # initproc /\ "fault" \in Syscalls
  /\ killed' = [killed EXCEPT ![p] = TRUE]
  /\ Goto(p, "exit")
  /\ UNCHANGED <<state, pid, parent, chan, lockVars, nextpid, ticks, schedVars, handlerVars,
                 saved, loc>>

UserTrapRet(p, c) ==
  /\ At(p, c, "ret")
  /\ Goto(p, IF killed[p] THEN "exit" ELSE "user")
  /\ UNCHANGED <<procVars, lockVars, nextpid, ticks, schedVars, handlerVars, saved, loc>>
-----------------------------------------------------------------------------
(* fork *)

\* One round of allocproc's loop; when it finds a free slot, the rest of the
\* section under np->lock: allocpid, and the allocations, which may fail.
AllocProc(p, c) ==
  LET np == loc[p].i IN
  /\ At(p, c, "fork")
  /\ np \in Procs /\ plock[np] = None
  /\ \/ /\ state[np] # "UNUSED"
        /\ loc' = [loc EXCEPT ![p].i = np + 1]
        /\ UNCHANGED <<procVars, nextpid, pc>>
     \/ /\ state[np] = "UNUSED"
        /\ nextpid' = nextpid + 1
        /\ state' = [state EXCEPT ![np] = "USED"]
        /\ pid' = [pid EXCEPT ![np] = nextpid]
        /\ loc' = [loc EXCEPT ![p] = [NoLocals EXCEPT !.arg = np]]
        /\ pc' = [pc EXCEPT ![p] = "fork_parent", ![np] = "forkret"]
        /\ UNCHANGED <<parent, chan, killed>>
     \/ /\ state[np] = "UNUSED"
        /\ nextpid' = nextpid + 1
        /\ freeproc(np)
        /\ Return(p)
  /\ UNCHANGED <<lockVars, ticks, schedVars, handlerVars, saved>>

NoFreeProc(p, c) ==
  /\ At(p, c, "fork")
  /\ loc[p].i > NPROC
  /\ Return(p)
  /\ UNCHANGED <<procVars, lockVars, nextpid, ticks, schedVars, handlerVars, saved>>

ForkParent(p, c) ==
  /\ At(p, c, "fork_parent")
  /\ wait_lock = None
  /\ parent' = [parent EXCEPT ![loc[p].arg] = p]
  /\ Goto(p, "fork_runnable")
  /\ UNCHANGED <<state, pid, chan, killed, lockVars, nextpid, ticks, schedVars,
                 handlerVars, saved, loc>>

ForkRunnable(p, c) ==
  LET np == loc[p].arg IN
  /\ At(p, c, "fork_runnable")
  /\ plock[np] = None
  /\ state' = [state EXCEPT ![np] = "RUNNABLE"]
  /\ Return(p)
  /\ UNCHANGED <<pid, parent, chan, killed, lockVars, nextpid, ticks, schedVars,
                 handlerVars, saved>>
-----------------------------------------------------------------------------
(* exit *)

\* Mutant: no reparent() and no wakeup(p->parent).
ExitNoReparent(p, c) ==
  /\ At(p, c, "exit")
  /\ wait_lock = None
  /\ wait_lock' = c
  /\ Goto(p, "zombie")
  /\ UNCHANGED <<procVars, plock, tickslock, nextpid, ticks, schedVars, handlerVars, saved, loc>>

\* fileclose, begin_op, iput and end_op, before exit takes wait_lock, may
\* sleep any number of times: see IoSleep.
Exit(p, c) ==
  /\ At(p, c, "exit")
  /\ p = initproc \/ wait_lock = None
  /\ IF p = initproc
       THEN Goto(p, "panic") /\ UNCHANGED wait_lock
       ELSE Goto(p, "reparent") /\ wait_lock' = c
  /\ UNCHANGED <<procVars, plock, tickslock, nextpid, ticks, schedVars, handlerVars, saved, loc>>

\* reparent's loop up to the next child; after the last one, exit's
\* wakeup(p->parent).
Reparent(p, c) ==
  /\ At(p, c, "reparent")
  /\ \/ \E q \in Procs :
          /\ NextChild(p, q)
          /\ parent' = [parent EXCEPT ![q] = initproc]
          /\ loc' = [loc EXCEPT ![p].i = q + 1, ![p].chan = initproc]
     \/ /\ NoChildLeft(p)
        /\ loc' = [loc EXCEPT ![p].flag = TRUE, ![p].chan = parent[p]]
        /\ UNCHANGED parent
  /\ Goto(p, "wakeup")
  /\ UNCHANGED <<state, pid, chan, killed, lockVars, nextpid, ticks, schedVars, handlerVars, saved>>

\* wakeup called by exit: one slot a step, then back to the caller.
Wakeup(p, c) ==
  LET q == loc[p].w IN
  /\ At(p, c, "wakeup")
  /\ \/ /\ q \in Procs
        /\ IF q = p THEN UNCHANGED state
                    ELSE plock[q] = None /\ Awaken(q, loc[p].chan)
        /\ loc' = [loc EXCEPT ![p].w = q + 1]
        /\ UNCHANGED pc
     \/ /\ q > NPROC
        /\ loc' = [loc EXCEPT ![p].w = 1, ![p].chan = NoChan]
        /\ Goto(p, IF loc[p].flag THEN "zombie" ELSE "reparent")
        /\ UNCHANGED state
  /\ UNCHANGED <<pid, parent, chan, killed, lockVars, nextpid, ticks, schedVars,
                 handlerVars, saved>>

\* Mutant: exit does not take p->lock before it changes p->state.
ZombieUnlocked(p, c) ==
  /\ At(p, c, "zombie")
  /\ state' = [state EXCEPT ![p] = "ZOMBIE"]
  /\ wait_lock' = None
  /\ Goto(p, "sched_zombie")
  /\ loc' = [loc EXCEPT ![p] = NoLocals]
  /\ UNCHANGED <<pid, parent, chan, killed, plock, tickslock, nextpid, ticks, schedVars,
                 handlerVars, saved>>

Zombie(p, c) ==
  /\ At(p, c, "zombie")
  /\ plock[p] = None
  /\ plock' = [plock EXCEPT ![p] = c]
  /\ state' = [state EXCEPT ![p] = "ZOMBIE"]
  /\ wait_lock' = None
  /\ Goto(p, "sched_zombie")
  /\ loc' = [loc EXCEPT ![p] = NoLocals]
  /\ UNCHANGED <<pid, parent, chan, killed, tickslock, nextpid, ticks, schedVars,
                 handlerVars, saved>>
-----------------------------------------------------------------------------
(* wait *)

Wait(p, c) ==
  /\ At(p, c, "wait")
  /\ wait_lock = None
  /\ wait_lock' = c
  /\ Goto(p, "wait_scan")
  /\ UNCHANGED <<procVars, plock, tickslock, nextpid, ticks, schedVars, handlerVars, saved, loc>>

\* The loop over the table up to the next child, with the child's lock.
\* copyout of the status may fail, and the child stays a zombie; init passes
\* no address.
WaitScan(p, c) ==
  /\ At(p, c, "wait_scan")
  /\ \E np \in Procs :
       /\ NextChild(p, np)
       /\ plock[np] = None
       /\ \/ /\ state[np] # "ZOMBIE"
             /\ loc' = [loc EXCEPT ![p].i = np + 1, ![p].flag = TRUE]
             /\ UNCHANGED <<procVars, wait_lock, pc>>
          \/ /\ state[np] = "ZOMBIE"
             /\ freeproc(np) \/ (p # initproc /\ UNCHANGED procVars)
             /\ wait_lock' = None
             /\ Return(p)
  /\ UNCHANGED <<plock, tickslock, nextpid, ticks, schedVars, handlerVars, saved>>

\* Mutant: p->killed is not checked before the sleep.
WaitEndKeepWaiting(p, c) ==
  /\ At(p, c, "wait_scan")
  /\ NoChildLeft(p)
  /\ IF ~loc[p].flag
       THEN wait_lock' = None /\ Return(p)
       ELSE /\ Goto(p, "sleep")
            /\ loc' = [loc EXCEPT ![p] = [NoLocals EXCEPT !.chan = p]]
            /\ UNCHANGED wait_lock
  /\ UNCHANGED <<procVars, plock, tickslock, nextpid, ticks, schedVars, handlerVars, saved>>

\* After the loop: give up, or sleep(p, &wait_lock).
WaitEnd(p, c) ==
  /\ At(p, c, "wait_scan")
  /\ NoChildLeft(p)
  /\ IF ~loc[p].flag \/ killed[p]
       THEN wait_lock' = None /\ Return(p)
       ELSE /\ Goto(p, "sleep")
            /\ loc' = [loc EXCEPT ![p] = [NoLocals EXCEPT !.chan = p]]
            /\ UNCHANGED wait_lock
  /\ UNCHANGED <<procVars, plock, tickslock, nextpid, ticks, schedVars, handlerVars, saved>>
-----------------------------------------------------------------------------
(* kill *)

Kill(p, c) ==
  LET q == loc[p].i IN
  /\ At(p, c, "kill")
  /\ \/ /\ q > NPROC
        /\ Return(p)
        /\ UNCHANGED <<state, killed>>
     \/ /\ q \in Procs /\ plock[q] = None
        /\ pid[q] # loc[p].arg
        /\ loc' = [loc EXCEPT ![p].i = q + 1]
        /\ UNCHANGED <<state, killed, pc>>
     \/ /\ q \in Procs /\ plock[q] = None
        /\ pid[q] = loc[p].arg
        /\ killed' = [killed EXCEPT ![q] = TRUE]
        /\ state' = [state EXCEPT ![q] = IF @ = "SLEEPING" THEN "RUNNABLE" ELSE @]
        /\ Return(p)
  /\ UNCHANGED <<pid, parent, chan, lockVars, nextpid, ticks, schedVars, handlerVars, saved>>
-----------------------------------------------------------------------------
(* sys_sleep *)

SysSleep(p, c) ==
  /\ At(p, c, "sys_sleep")
  /\ tickslock = None
  /\ tickslock' = c
  /\ loc' = [loc EXCEPT ![p].arg = ticks]
  /\ Goto(p, "sys_sleep_loop")
  /\ UNCHANGED <<procVars, plock, wait_lock, nextpid, ticks, schedVars, handlerVars, saved>>

SysSleepLoop(p, c) ==
  /\ At(p, c, "sys_sleep_loop")
  /\ IF ~StillEarly(p) \/ killed[p]
       THEN tickslock' = None /\ Return(p)
       ELSE /\ Goto(p, "sleep")
            /\ loc' = [loc EXCEPT ![p].chan = TicksChan]
            /\ UNCHANGED tickslock
  /\ UNCHANGED <<procVars, plock, wait_lock, nextpid, ticks, schedVars, handlerVars, saved>>
-----------------------------------------------------------------------------
(* The file system and the console, and exit's use of them *)

\* One sleep of a call, with the spinlock of what it waits for held: no test
\* of p->killed comes before it, in the call or in exit.
IoSleep(p, c) ==
  /\ pc[p] \in {"io", "exit"} /\ p # initproc
  /\ At(p, c, pc[p])
  /\ Goto(p, "sleep")
  /\ loc' = [loc EXCEPT ![p].chan = IoChan,
                       ![p].arg = IF pc[p] = "exit" THEN 1 ELSE 0]
  /\ UNCHANGED <<procVars, lockVars, nextpid, ticks, schedVars, handlerVars, saved>>

IoReturn(p, c) ==
  /\ At(p, c, "io")
  /\ Return(p)
  /\ UNCHANGED <<procVars, lockVars, nextpid, ticks, schedVars, handlerVars, saved>>

\* A wakeup of one sleeper, by the interrupt of a device (which does not give
\* up the CPU) or by the call that the interrupted thread is in.
IoWakeup(c) ==
  /\ InterruptsOn(c)
  /\ \E q \in Procs :
       /\ plock[q] = None /\ state[q] = "SLEEPING" /\ chan[q] = IoChan
       /\ Awaken(q, IoChan)
  /\ UNCHANGED <<pid, parent, chan, killed, lockVars, nextpid, ticks, schedVars,
                 handlerVars, threadVars>>
-----------------------------------------------------------------------------
(* sleep, yield, sched and the scheduler *)

\* Mutant: lk is released before p->lock is taken.
SleepReleaseFirst(p, c) ==
  /\ At(p, c, "sleep")
  /\ wait_lock' = IF wait_lock = c THEN None ELSE wait_lock
  /\ tickslock' = IF tickslock = c THEN None ELSE tickslock
  /\ IF c \in {wait_lock, tickslock}
       THEN UNCHANGED <<plock, pc>>
       ELSE /\ plock[p] = None
            /\ plock' = [plock EXCEPT ![p] = c]
            /\ Goto(p, "sleep_release")
  /\ UNCHANGED <<procVars, nextpid, ticks, schedVars, handlerVars, saved, loc>>

\* sleep(chan, lk): lk is wait_lock, tickslock, or the spinlock of what the
\* file system or the console waits for, which only they take.  p->lock is
\* taken first ...
SleepLockProc(p, c) ==
  /\ At(p, c, "sleep")
  /\ plock[p] = None
  /\ plock' = [plock EXCEPT ![p] = c]
  /\ Goto(p, "sleep_release")
  /\ UNCHANGED <<procVars, wait_lock, tickslock, nextpid, ticks, schedVars, handlerVars,
                 saved, loc>>

\* ... then lk is released and p is marked asleep.
SleepRelease(p, c) ==
  /\ At(p, c, "sleep_release")
  /\ tickslock' = IF loc[p].chan = TicksChan THEN None ELSE tickslock
  /\ wait_lock' = IF loc[p].chan = p THEN None ELSE wait_lock
  /\ chan' = [chan EXCEPT ![p] = loc[p].chan]
  /\ state' = [state EXCEPT ![p] = "SLEEPING"]
  /\ Goto(p, "sched_sleep")
  /\ UNCHANGED <<pid, parent, killed, plock, nextpid, ticks, schedVars, handlerVars, saved, loc>>

Slept(p, c) ==
  /\ At(p, c, "slept")
  /\ chan' = [chan EXCEPT ![p] = NoChan]
  /\ plock' = [plock EXCEPT ![p] = None]
  /\ Goto(p, "reacquire")
  /\ UNCHANGED <<state, pid, parent, killed, wait_lock, tickslock, nextpid, ticks,
                 schedVars, handlerVars, saved, loc>>

\* sleep's last acquire(lk), and back into the caller's loop.
Reacquire(p, c) ==
  /\ At(p, c, "reacquire")
  /\ \/ /\ loc[p].chan = TicksChan
        /\ tickslock = None
        /\ tickslock' = c
        /\ Goto(p, "sys_sleep_loop")
        /\ loc' = [loc EXCEPT ![p].chan = NoChan]
        /\ UNCHANGED wait_lock
     \/ /\ loc[p].chan = p
        /\ wait_lock = None
        /\ wait_lock' = c
        /\ Goto(p, "wait_scan")
        /\ loc' = [loc EXCEPT ![p].chan = NoChan]
        /\ UNCHANGED tickslock
     \/ /\ loc[p].chan = IoChan
        /\ Goto(p, IF loc[p].arg = 1 THEN "exit" ELSE "io")
        /\ loc' = [loc EXCEPT ![p] = NoLocals]
        /\ UNCHANGED <<wait_lock, tickslock>>
  /\ UNCHANGED <<procVars, plock, nextpid, ticks, schedVars, handlerVars, saved>>

\* Mutant: p->state stays RUNNING.
YieldRunning(p, c) ==
  /\ At(p, c, "yield")
  /\ plock[p] = None
  /\ plock' = [plock EXCEPT ![p] = c]
  /\ Goto(p, "sched_yield")
  /\ UNCHANGED <<procVars, wait_lock, tickslock, nextpid, ticks, schedVars, handlerVars,
                 saved, loc>>

Yield(p, c) ==
  /\ At(p, c, "yield")
  /\ plock[p] = None
  /\ plock' = [plock EXCEPT ![p] = c]
  /\ state' = [state EXCEPT ![p] = "RUNNABLE"]
  /\ Goto(p, "sched_yield")
  /\ UNCHANGED <<pid, parent, chan, killed, wait_lock, tickslock, nextpid, ticks,
                 schedVars, handlerVars, saved, loc>>

Yielded(p, c) ==
  /\ At(p, c, "yielded")
  /\ plock' = [plock EXCEPT ![p] = None]
  /\ Goto(p, saved[p])
  /\ saved' = [saved EXCEPT ![p] = "user"]
  /\ UNCHANGED <<procVars, wait_lock, tickslock, nextpid, ticks, schedVars, handlerVars, loc>>

ForkRet(p, c) ==
  /\ At(p, c, "forkret")
  /\ plock' = [plock EXCEPT ![p] = None]
  /\ Goto(p, "user")
  /\ UNCHANGED <<procVars, wait_lock, tickslock, nextpid, ticks, schedVars, handlerVars,
                 saved, loc>>

\* sched(): its checks, then swtch to the scheduler of this CPU.
Sched(p, c) ==
  /\ pc[p] \in {"sched_yield", "sched_sleep", "sched_zombie"}
  /\ At(p, c, pc[p])
  /\ IF plock[p] # c \/ OtherLocks(p, c) \/ state[p] = "RUNNING"
       THEN Goto(p, "panic") /\ UNCHANGED spc
       ELSE /\ Goto(p, CASE pc[p] = "sched_yield"  -> "yielded"
                         [] pc[p] = "sched_sleep"  -> "slept"
                         [] pc[p] = "sched_zombie" -> "zombie_exit")
            /\ spc' = [spc EXCEPT ![c] = "back"]
  /\ UNCHANGED <<procVars, lockVars, nextpid, ticks, cproc, si, handlerVars, saved, loc>>

\* Mutant: the scan does not advance.
NextSlotSame(p) == p

\* The next p of scheduler()'s loops.
NextSlot(p) == (p % NPROC) + 1

\* scheduler(): one slot of its loop, up to swtch ...
Scheduler(c) ==
  LET p == si[c] IN
  /\ spc[c] = "scan" /\ hpc[c] = "none"
  /\ plock[p] = None
  /\ IF state[p] = "RUNNABLE"
       THEN /\ plock' = [plock EXCEPT ![p] = c]
            /\ state' = [state EXCEPT ![p] = "RUNNING"]
            /\ cproc' = [cproc EXCEPT ![c] = p]
            /\ spc' = [spc EXCEPT ![c] = "run"]
            /\ UNCHANGED si
       ELSE /\ si' = [si EXCEPT ![c] = NextSlot(p)]
            /\ UNCHANGED <<plock, state, cproc, spc>>
  /\ UNCHANGED <<pid, parent, chan, killed, wait_lock, tickslock, nextpid, ticks,
                 handlerVars, threadVars>>

\* ... and from swtch to the next slot.
SchedulerBack(c) ==
  /\ spc[c] = "back"
  /\ cproc' = [cproc EXCEPT ![c] = None]
  /\ plock' = [plock EXCEPT ![si[c]] = None]
  /\ si' = [si EXCEPT ![c] = NextSlot(@)]
  /\ spc' = [spc EXCEPT ![c] = "scan"]
  /\ UNCHANGED <<procVars, wait_lock, tickslock, nextpid, ticks, handlerVars, threadVars>>
-----------------------------------------------------------------------------
(* The timer interrupt *)

\* It arrives while interrupts are on; CPU0's goes through clockintr.
Timer(c) ==
  /\ InterruptsOn(c)
  /\ hpc' = [hpc EXCEPT ![c] = IF c = CPU0 THEN "clockintr" ELSE "resched"]
  /\ UNCHANGED <<procVars, lockVars, nextpid, ticks, schedVars, hi, threadVars>>

ClockIntr(c) ==
  /\ hpc[c] = "clockintr"
  /\ tickslock = None
  /\ tickslock' = c
  /\ ticks' = (ticks + 1) % TickMod
  /\ hpc' = [hpc EXCEPT ![c] = "wakeup"]
  /\ UNCHANGED <<procVars, plock, wait_lock, nextpid, schedVars, hi, threadVars>>

\* clockintr's wakeup(&ticks), and its release.
ClockWakeup(c) ==
  LET q == hi[c] IN
  /\ hpc[c] = "wakeup"
  /\ \/ /\ q \in Procs
        /\ IF q = cproc[c] THEN UNCHANGED state
                           ELSE plock[q] = None /\ Awaken(q, TicksChan)
        /\ hi' = [hi EXCEPT ![c] = q + 1]
        /\ UNCHANGED <<hpc, tickslock>>
     \/ /\ q > NPROC
        /\ hi' = [hi EXCEPT ![c] = 1]
        /\ hpc' = [hpc EXCEPT ![c] = "resched"]
        /\ tickslock' = None
        /\ UNCHANGED state
  /\ UNCHANGED <<pid, parent, chan, killed, plock, wait_lock, nextpid, ticks, schedVars,
                 threadVars>>

\* The end of kerneltrap, or of usertrap for a timer interrupt.
Resched(c) ==
  LET p == cproc[c] IN
  /\ hpc[c] = "resched"
  /\ hpc' = [hpc EXCEPT ![c] = "none"]
  /\ IF p = None
       THEN UNCHANGED <<pc, saved>>
       ELSE IF pc[p] = "user" /\ killed[p]
       THEN Goto(p, "exit") /\ UNCHANGED saved
       ELSE IF pc[p] = "user" \/ state[p] = "RUNNING"
       THEN /\ Goto(p, "yield")
            /\ saved' = [saved EXCEPT ![p] = pc[p]]
       ELSE UNCHANGED <<pc, saved>>
  /\ UNCHANGED <<procVars, lockVars, nextpid, ticks, schedVars, hi, loc>>
-----------------------------------------------------------------------------
\* What a thread does for its program, and what yield does to it.
Work(p, c) ==
  \/ KilledAtEntry(p, c) \/ UserTrapRet(p, c)
  \/ AllocProc(p, c) \/ NoFreeProc(p, c) \/ ForkParent(p, c) \/ ForkRunnable(p, c)
  \/ Exit(p, c) \/ Reparent(p, c) \/ Wakeup(p, c) \/ Zombie(p, c)
  \/ Wait(p, c) \/ WaitScan(p, c) \/ WaitEnd(p, c)
  \/ Kill(p, c) \/ SysSleep(p, c) \/ SysSleepLoop(p, c)
  \/ IoSleep(p, c) \/ IoReturn(p, c)
  \/ SleepLockProc(p, c) \/ SleepRelease(p, c) \/ Slept(p, c) \/ Reacquire(p, c)

Switch(p, c) == Yield(p, c) \/ Sched(p, c) \/ Yielded(p, c) \/ ForkRet(p, c)

HandlerStep(c) == ClockIntr(c) \/ ClockWakeup(c) \/ Resched(c)

CpuStep(c) ==
  \/ \E p \in Procs : Work(p, c) \/ Switch(p, c)
  \/ Scheduler(c) \/ SchedulerBack(c)
  \/ HandlerStep(c)

Next ==
  \/ \E c \in CPUs : CpuStep(c) \/ Timer(c) \/ IoWakeup(c)
  \/ \E c \in CPUs, p \in Procs : Fault(p, c)
  \/ \E c \in CPUs, p \in Procs, call \in Syscalls : Syscall(p, c, call)

Spec == Init /\ [][Next]_vars

\* A CPU keeps executing; its timer interrupt stays pending until it is taken;
\* the timer period is long enough that the interrupted code - the scheduler,
\* and init when it is given the CPU again and again - gets on between
\* interrupts; init goes on calling wait (user/init.c).  Nothing is assumed of
\* the other processes, nor that what the file system waits for ever comes.
Fairness ==
  /\ \A c \in CPUs : WF_vars(CpuStep(c)) /\ SF_vars(Timer(c)) /\ SF_vars(Scheduler(c))
  /\ \A c \in CPUs : SF_vars(Work(initproc, c))
  /\ \A c \in CPUs : SF_vars(Syscall(initproc, c, "wait"))

FairSpec == Spec /\ Fairness
-----------------------------------------------------------------------------

\* sched's checks hold at every call (it holds p->lock, no other lock, and has
\* changed p->state), and no zombie is ever resumed.
NoPanic ==
  \A p \in Procs : /\ pc[p] # "panic"
                   /\ \A c \in CPUs : OnCpu(p, c) => pc[p] # "zombie_exit"

\* No two CPUs run on the kernel stack of one process, and wait frees no
\* process whose thread is still in exit() or swtch().
StackInUse ==
  \A c \in CPUs, p \in Procs :
    OnCpu(p, c) => /\ state[p] \notin {"UNUSED", "USED"}
                   /\ \A d \in CPUs : OnCpu(p, d) => c = d

\* No exit is lost: once exit has released wait_lock, a parent asleep in wait
\* has no zombie child.
NoLostExit ==
  wait_lock = None =>
    \A p, q \in Procs : state[p] = "SLEEPING" /\ chan[p] = p /\ parent[q] = p
                       => state[q] # "ZOMBIE"

\* No tick is lost: once clockintr has released tickslock, a process asleep in
\* sys_sleep still has ticks to wait for, also when ticks has wrapped.
NoLostTick ==
  tickslock = None =>
    \A p \in Procs : state[p] = "SLEEPING" /\ chan[p] = TicksChan => StillEarly(p)

\* A process that ran always has a parent that can still wait for it: exit
\* gives the children to init before it becomes a zombie.
LiveParent ==
  wait_lock = None =>
    \A p \in Procs \ {initproc} :
      state[p] \notin {"UNUSED", "USED"} =>
        /\ parent[p] # None
        /\ state[parent[p]] \notin {"UNUSED", "USED", "ZOMBIE"}

\* A killed process is not left asleep in wait or sys_sleep: they check
\* p->killed before they sleep, and kill wakes a sleeper.  Only the file system
\* and the console may put it to sleep again, in exit too.  The check and the
\* sleep are not atomic for kill on another CPU, so this is a property of one
\* CPU (NCPU, kernel/param.h).
KilledIsAwake ==
  \A p \in Procs : killed[p] /\ state[p] = "SLEEPING" => chan[p] = IoChan

\* The thread of p is in exit, asleep or preempted there too.
InExit(p) ==
  LET step == IF pc[p] \in {"yield", "sched_yield", "yielded"} THEN saved[p] ELSE pc[p] IN
  \/ step \in {"exit", "reparent", "wakeup", "zombie", "sched_zombie", "zombie_exit"}
  \/ loc[p].chan = IoChan /\ loc[p].arg = 1

\* A process is marked killed only when kill was called with its pid ("Kill the
\* process with the given pid", kill) or when it is on its way out after a trap
\* of its own (usertrap): the mark does not outlive the process it was for and
\* does not reach the next user of the slot.
KilledWasNamed ==
  \A p \in Procs : killed[p] /\ state[p] # "UNUSED" => pid[p] \in KillPids \/ InExit(p)

\* An orphan that exits is reaped by init.
OrphansReaped ==
  \A p \in Procs : state[p] = "ZOMBIE" /\ parent[p] = initproc ~> state[p] = "UNUSED"

\* Every process that wants to run gets a CPU.
RunnableRuns == \A p \in Procs : state[p] = "RUNNABLE" ~> state[p] = "RUNNING"
=============================================================================
