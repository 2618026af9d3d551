------------------------------ MODULE ProcThreads ------------------------------
(***************************************************************************)
(* The inductive invariant IInv of module Proc, for any number of slots    *)
(* and cores; the ways a step can go; and the proof that every way keeps   *)
(* the conjuncts of IInv about types, CPUs, locks and threads.             *)
(*                                                                         *)
(* A way is one outcome of one action of Proc, with what the invariant     *)
(* needs to know of it: its effect on the local variables is given field   *)
(* by field.  ProcProofs shows that every step of Proc goes one of these   *)
(* ways.  Each lemma ...Step shows that a step keeps one conjunct, with    *)
(* one case for each group of ways.                                        *)
(***************************************************************************)
EXTENDS ProcTable, TLAPS

States == {"UNUSED", "USED", "SLEEPING", "RUNNABLE", "RUNNING", "ZOMBIE"}

PCs == Interruptible \cup
       {"reparent", "wakeup", "zombie", "sched_zombie", "zombie_exit", "wait_scan",
        "sys_sleep_loop", "sleep", "sleep_release", "sched_sleep", "slept",
        "yield", "sched_yield", "yielded", "forkret", "panic"}

Locals == [i : Nat, w : Nat, chan : Nat \cup {None}, arg : Nat, n : Nat, flag : BOOLEAN]

ProcType ==
  /\ state \in [Procs -> States]
  /\ pid \in [Procs -> Nat]
  /\ parent \in [Procs -> Procs \cup {None}]
  /\ chan \in [Procs -> Nat \cup {None}]
  /\ killed \in [Procs -> BOOLEAN]
  /\ nextpid \in Nat /\ ticks \in Nat

LockType ==
  /\ plock \in [Procs -> CPUs \cup {None}]
  /\ wait_lock \in CPUs \cup {None} /\ tickslock \in CPUs \cup {None}

CpuType ==
  /\ cproc \in [CPUs -> Procs \cup {None}]
  /\ spc \in [CPUs -> {"scan", "run", "back"}]
  /\ si \in [CPUs -> Procs]
  /\ hpc \in [CPUs -> {"none", "clockintr", "wakeup", "resched"}]
  /\ hi \in [CPUs -> Nat]

ThreadType ==
  /\ pc \in [Procs -> PCs]
  /\ saved \in [Procs -> Interruptible]
  /\ loc \in [Procs -> Locals]

TypeOK == ProcType /\ LockType /\ CpuType /\ ThreadType

\* Each CPU runs the process its scheduler found, and no two CPUs have the
\* same one; a handler runs only on top of code with interrupts on.
CpuInv ==
  \A c \in CPUs :
    /\ cproc[c] = IF spc[c] = "scan" THEN None ELSE si[c]
    /\ hpc[c] # "none" => spc[c] = "scan" \/ (spc[c] = "run" /\ pc[si[c]] \in Interruptible)
    /\ \A d \in CPUs : spc[c] # "scan" /\ spc[d] # "scan" /\ si[c] = si[d] => c = d

\* The steps at which a thread holds its own lock, wait_lock and tickslock.
HoldsProc(p) ==
  pc[p] \in {"sleep_release", "sched_sleep", "slept", "sched_yield", "yielded",
             "sched_zombie", "forkret"}

HoldsWait(p) ==
  \/ pc[p] \in {"reparent", "wakeup", "zombie", "wait_scan"}
  \/ pc[p] \in {"sleep", "sleep_release"} /\ loc[p].chan = p

HoldsTicks(p) ==
  \/ pc[p] = "sys_sleep_loop"
  \/ pc[p] \in {"sleep", "sleep_release"} /\ loc[p].chan = TicksChan

\* A lock is held by the CPU that executes a section of that lock, and by no
\* other: p->lock is handed from the thread to the scheduler and back.
LockInv ==
  \A c \in CPUs :
    /\ \A p \in Procs :
         plock[p] = c <=> si[c] = p /\ (spc[c] = "back" \/ (spc[c] = "run" /\ HoldsProc(p)))
    /\ wait_lock = c <=> spc[c] = "run" /\ HoldsWait(si[c])
    /\ tickslock = c <=> hpc[c] = "wakeup" \/ (spc[c] = "run" /\ HoldsTicks(si[c]))

\* The state of a process whose thread executes at this step.
StateAt(label) ==
  IF label = "sched_yield" THEN "RUNNABLE"
  ELSE IF label = "sched_sleep" THEN "SLEEPING"
  ELSE IF label = "sched_zombie" THEN "ZOMBIE"
  ELSE "RUNNING"

RunInv ==
  \A c \in CPUs :
    spc[c] = "run" => state[si[c]] = StateAt(pc[si[c]]) /\ pc[si[c]] # "zombie_exit"

\* The state of a process whose thread does not execute, and where it stopped.
Off(p) ==
  \/ pc[p] = "forkret" /\ state[p] \in {"UNUSED", "USED", "RUNNABLE"}
  \/ pc[p] = "yielded" /\ state[p] = "RUNNABLE"
  \/ pc[p] = "slept" /\ state[p] \in {"SLEEPING", "RUNNABLE"}
  \/ pc[p] = "zombie_exit" /\ state[p] \in {"ZOMBIE", "UNUSED"}

OffInv == \A p \in Procs : (\A c \in CPUs : ~OnCpu(p, c)) => Off(p)

\* The step of p, or the one yield will return to.
Where(p) == IF pc[p] \in {"yield", "sched_yield", "yielded"} THEN saved[p] ELSE pc[p]

\* The slot that fork has allocated belongs to one fork only.
Forking(p) == Where(p) \in {"fork_parent", "fork_runnable"}

ForkInv ==
  \A p \in Procs : Forking(p) =>
    /\ loc[p].arg \in Procs
    /\ state[loc[p].arg] = "USED"
    /\ Where(p) = "fork_runnable" => parent[loc[p].arg] = p
    /\ \A q \in Procs : Forking(q) /\ loc[q].arg = loc[p].arg => p = q

\* init stays; a free slot has no pid and no parent.
InitInv ==
  /\ pid[initproc] = 1 /\ parent[initproc] = None
  /\ state[initproc] \notin {"UNUSED", "USED", "ZOMBIE"}
  /\ pc[initproc] \notin {"reparent", "wakeup", "zombie", "sched_zombie", "zombie_exit"}
  /\ nextpid >= 2
  /\ \A p \in Procs \ {initproc} : pid[p] # 1 /\ pc[p] # "panic"
  /\ \A p \in Procs : state[p] = "UNUSED" => pid[p] = 0 /\ parent[p] = None

\* Locals at the start of a call and of a loop.
FirstRound(p) == loc[p].i = 1 /\ loc[p].w = 1 /\ ~loc[p].flag

LocInv ==
  \A p \in Procs :
    /\ Where(p) \in {"user", "ret", "exit", "wait", "sys_sleep", "io", "reacquire"} => FirstRound(p)
    /\ pc[p] \in {"forkret", "sched_zombie", "zombie_exit", "sys_sleep_loop",
                  "sleep", "sleep_release", "sched_sleep", "slept"} => FirstRound(p)
    /\ pc[p] = "reparent" => loc[p].w = 1 /\ ~loc[p].flag
    /\ Where(p) = "kill" => loc[p].arg \in KillPids

\* exit gives away the children one by one; a process that has exited has none.
FamilyInv ==
  /\ \A p \in Procs \ {initproc} : state[p] \notin {"UNUSED", "USED"} => parent[p] \in Procs
  /\ \A p, q \in Procs : parent[q] = p =>
       /\ p # q
       /\ state[p] \notin {"UNUSED", "USED", "ZOMBIE"}
       /\ pc[p] # "zombie"
       /\ pc[p] = "wakeup" => ~loc[p].flag
       /\ pc[p] \in {"reparent", "wakeup"} => q >= loc[p].i

Asleep(p) == state[p] = "SLEEPING" /\ chan[p] = p

\* A parent asleep in wait with a zombie child is about to be woken.
WakeComing(p) == \E r \in Procs : pc[r] = "wakeup" /\ loc[r].chan = p /\ loc[r].w <= p

WokenInv ==
  \A p, q \in Procs : Asleep(p) /\ parent[q] = p /\ state[q] = "ZOMBIE" => WakeComing(p)

\* exit has woken the parent before it becomes a zombie ...
ParentAwake ==
  \A p, q \in Procs : parent[q] = p =>
    /\ pc[q] = "zombie" => ~Asleep(p)
    /\ pc[q] = "wakeup" /\ loc[q].flag => loc[q].chan = p /\ (p < loc[q].w => ~Asleep(p))

\* ... and wait has seen every child before it sleeps.
NoneMissed ==
  \A p, q \in Procs : parent[q] = p =>
    /\ pc[p] = "wait_scan" /\ q < loc[p].i => state[q] # "ZOMBIE"
    /\ pc[p] \in {"sleep", "sleep_release"} /\ loc[p].chan = p => state[q] # "ZOMBIE"

\* A process asleep in sys_sleep whose time has come is about to be woken.
TickInv ==
  /\ \A p \in Procs :
       state[p] = "SLEEPING" /\ chan[p] = TicksChan =>
         StillEarly(p) \/ \E c \in CPUs : hpc[c] = "wakeup" /\ hi[c] <= p
  /\ \A p \in Procs :
       pc[p] \in {"sleep", "sleep_release"} /\ loc[p].chan = TicksChan => StillEarly(p)
  /\ \A c \in CPUs : hpc[c] # "wakeup" => hi[c] = 1

\* Only a process that is not init sleeps for the file system or the console.
IoInv ==
  \A p \in Procs : loc[p].chan = IoChan =>
    p # initproc /\ Where(p) \in {"sleep", "sleep_release", "sched_sleep", "slept", "reacquire"}

IInv ==
  /\ TypeOK /\ CpuInv /\ LockInv /\ RunInv /\ OffInv
  /\ ForkInv /\ InitInv /\ LocInv /\ FamilyInv
  /\ WokenInv /\ ParentAwake /\ NoneMissed /\ TickInv /\ IoInv

\* init is not killed and does not exit: user/init.c never does, and no kill
\* names it.
InitLives == /\ ~killed[initproc] /\ Where(initproc) # "exit"
             /\ \A p \in Procs : pc[p] # "panic"

\* On one CPU no kill comes between the check of p->killed and the sleep.
AwakeInv ==
  \A p \in Procs : killed[p] =>
    /\ state[p] = "SLEEPING" => chan[p] = IoChan
    /\ pc[p] \in {"sleep", "sleep_release"} => loc[p].chan = IoChan
-----------------------------------------------------------------------------
(***************************************************************************)
(* The ways a step can go: each action of Proc, one outcome at a time,     *)
(* with its effect on the local variables field by field.                  *)
(***************************************************************************)

\* The thread of p executes on c, at the step from.
On(p, c, from) ==
  spc[c] = "run" /\ si[c] = p /\ cproc[c] = p /\ hpc[c] = "none" /\ pc[p] = from

SetLocals(p, i, w, ch, a, n) ==
  /\ loc' \in [Procs -> Locals]
  /\ \A q \in Procs \ {p} : loc'[q] = loc[q]
  /\ loc'[p].i = i /\ loc'[p].w = w /\ loc'[p].chan = ch
  /\ loc'[p].arg = a /\ loc'[p].n = n

ClearLocals(p) == SetLocals(p, 1, 1, NoChan, 0, 0) /\ ~loc'[p].flag

Still == UNCHANGED <<schedVars, handlerVars, saved, ticks>>

\* usertrap: into a system call, out of one, into exit.
Hop(p, c, to) ==
  /\ On(p, c, pc[p])
  /\ \/ pc[p] = "user" /\ to \in {"fork", "wait", "io"}
     \/ pc[p] \in {"user", "ret"} /\ to = "exit" /\ (killed[p] \/ p # initproc)
     \/ pc[p] = "ret" /\ to = "user"
     \/ pc[p] = "exit" /\ to = "panic" /\ p = initproc
  /\ pc' = [pc EXCEPT ![p] = to]
  /\ Still /\ UNCHANGED <<procVars, lockVars, nextpid, loc>>

CallKill(p, c, k) ==
  /\ On(p, c, "user") /\ k \in KillPids
  /\ pc' = [pc EXCEPT ![p] = "kill"]
  /\ SetLocals(p, loc[p].i, loc[p].w, loc[p].chan, k, loc[p].n) /\ loc'[p].flag = loc[p].flag
  /\ Still /\ UNCHANGED <<procVars, lockVars, nextpid>>

CallSleep(p, c, n) ==
  /\ On(p, c, "user")
  /\ pc' = [pc EXCEPT ![p] = "sys_sleep"]
  /\ SetLocals(p, loc[p].i, loc[p].w, loc[p].chan, loc[p].arg, n) /\ loc'[p].flag = loc[p].flag
  /\ Still /\ UNCHANGED <<procVars, lockVars, nextpid>>

\* allocproc and kill: the next slot, or the end of the call; also the end of
\* a call of the file system.
ScanNext(p, c) ==
  /\ On(p, c, pc[p]) /\ pc[p] \in {"fork", "kill"}
  /\ SetLocals(p, loc[p].i + 1, loc[p].w, loc[p].chan, loc[p].arg, loc[p].n)
  /\ loc'[p].flag = loc[p].flag
  /\ Still /\ UNCHANGED <<procVars, lockVars, nextpid, pc>>

ScanReturn(p, c) ==
  /\ On(p, c, pc[p]) /\ pc[p] \in {"fork", "kill", "io"}
  /\ pc' = [pc EXCEPT ![p] = "ret"]
  /\ ClearLocals(p)
  /\ Still /\ UNCHANGED <<procVars, lockVars, nextpid>>

AllocTake(p, c, q) ==
  /\ On(p, c, "fork") /\ plock[q] = None /\ state[q] = "UNUSED"
  /\ nextpid' = nextpid + 1
  /\ state' = [state EXCEPT ![q] = "USED"]
  /\ pid' = [pid EXCEPT ![q] = nextpid]
  /\ pc' = [pc EXCEPT ![p] = "fork_parent", ![q] = "forkret"]
  /\ SetLocals(p, 1, 1, NoChan, q, 0) /\ ~loc'[p].flag
  /\ Still /\ UNCHANGED <<parent, chan, killed, lockVars>>

AllocFail(p, c, q) ==
  /\ On(p, c, "fork") /\ plock[q] = None /\ state[q] = "UNUSED"
  /\ nextpid' = nextpid + 1
  /\ freeproc(q)
  /\ pc' = [pc EXCEPT ![p] = "ret"]
  /\ ClearLocals(p)
  /\ Still /\ UNCHANGED lockVars

ParentSet(p, c) ==
  /\ On(p, c, "fork_parent") /\ wait_lock = None
  /\ parent' = [parent EXCEPT ![loc[p].arg] = p]
  /\ pc' = [pc EXCEPT ![p] = "fork_runnable"]
  /\ Still /\ UNCHANGED <<state, pid, chan, killed, lockVars, nextpid, loc>>

ChildRunnable(p, c) ==
  /\ On(p, c, "fork_runnable") /\ plock[loc[p].arg] = None
  /\ state' = [state EXCEPT ![loc[p].arg] = "RUNNABLE"]
  /\ pc' = [pc EXCEPT ![p] = "ret"]
  /\ ClearLocals(p)
  /\ Still /\ UNCHANGED <<pid, parent, chan, killed, lockVars, nextpid>>

\* exit and wait take wait_lock.
TakeWait(p, c) ==
  /\ \/ On(p, c, "exit") /\ p # initproc /\ pc' = [pc EXCEPT ![p] = "reparent"]
     \/ On(p, c, "wait") /\ pc' = [pc EXCEPT ![p] = "wait_scan"]
  /\ wait_lock = None
  /\ wait_lock' = c
  /\ Still /\ UNCHANGED <<procVars, plock, tickslock, nextpid, loc>>

ReparentChild(p, c, q) ==
  /\ On(p, c, "reparent") /\ NextChild(p, q)
  /\ parent' = [parent EXCEPT ![q] = initproc]
  /\ pc' = [pc EXCEPT ![p] = "wakeup"]
  /\ SetLocals(p, q + 1, loc[p].w, initproc, loc[p].arg, loc[p].n) /\ loc'[p].flag = loc[p].flag
  /\ Still /\ UNCHANGED <<state, pid, chan, killed, lockVars, nextpid>>

ReparentDone(p, c) ==
  /\ On(p, c, "reparent") /\ NoChildLeft(p)
  /\ pc' = [pc EXCEPT ![p] = "wakeup"]
  /\ SetLocals(p, loc[p].i, loc[p].w, parent[p], loc[p].arg, loc[p].n) /\ loc'[p].flag
  /\ Still /\ UNCHANGED <<procVars, lockVars, nextpid>>

WakeSlot(p, c, q) ==
  /\ On(p, c, "wakeup") /\ q = loc[p].w
  /\ \/ q = p /\ state' = state
     \/ q # p /\ plock[q] = None /\ Awaken(q, loc[p].chan)
  /\ SetLocals(p, loc[p].i, q + 1, loc[p].chan, loc[p].arg, loc[p].n)
  /\ loc'[p].flag = loc[p].flag
  /\ Still /\ UNCHANGED <<pid, parent, chan, killed, lockVars, nextpid, pc>>

WakeDone(p, c) ==
  /\ On(p, c, "wakeup") /\ loc[p].w > NPROC
  /\ pc' = [pc EXCEPT ![p] = IF loc[p].flag THEN "zombie" ELSE "reparent"]
  /\ SetLocals(p, loc[p].i, 1, NoChan, loc[p].arg, loc[p].n) /\ loc'[p].flag = loc[p].flag
  /\ Still /\ UNCHANGED <<procVars, lockVars, nextpid>>

BecomeZombie(p, c) ==
  /\ On(p, c, "zombie") /\ plock[p] = None
  /\ plock' = [plock EXCEPT ![p] = c]
  /\ state' = [state EXCEPT ![p] = "ZOMBIE"]
  /\ wait_lock' = None
  /\ pc' = [pc EXCEPT ![p] = "sched_zombie"]
  /\ ClearLocals(p)
  /\ Still /\ UNCHANGED <<pid, parent, chan, killed, tickslock, nextpid>>

WaitNext(p, c, q) ==
  /\ On(p, c, "wait_scan") /\ NextChild(p, q) /\ state[q] # "ZOMBIE"
  /\ SetLocals(p, q + 1, loc[p].w, loc[p].chan, loc[p].arg, loc[p].n) /\ loc'[p].flag
  /\ Still /\ UNCHANGED <<procVars, lockVars, nextpid, pc>>

WaitReap(p, c, q) ==
  /\ On(p, c, "wait_scan") /\ NextChild(p, q) /\ state[q] = "ZOMBIE" /\ plock[q] = None
  /\ freeproc(q)
  /\ wait_lock' = None
  /\ pc' = [pc EXCEPT ![p] = "ret"]
  /\ ClearLocals(p)
  /\ Still /\ UNCHANGED <<plock, tickslock, nextpid>>

WaitReturn(p, c) ==
  /\ On(p, c, "wait_scan")
  /\ wait_lock' = None
  /\ pc' = [pc EXCEPT ![p] = "ret"]
  /\ ClearLocals(p)
  /\ Still /\ UNCHANGED <<procVars, plock, tickslock, nextpid>>

WaitSleep(p, c) ==
  /\ On(p, c, "wait_scan") /\ NoChildLeft(p) /\ ~killed[p]
  /\ pc' = [pc EXCEPT ![p] = "sleep"]
  /\ SetLocals(p, 1, 1, p, 0, 0) /\ ~loc'[p].flag
  /\ Still /\ UNCHANGED <<procVars, lockVars, nextpid>>

KillFound(p, c, q) ==
  /\ On(p, c, "kill") /\ plock[q] = None /\ pid[q] = loc[p].arg
  /\ killed' = [killed EXCEPT ![q] = TRUE]
  /\ state' = [state EXCEPT ![q] = IF @ = "SLEEPING" THEN "RUNNABLE" ELSE @]
  /\ pc' = [pc EXCEPT ![p] = "ret"]
  /\ ClearLocals(p)
  /\ Still /\ UNCHANGED <<pid, parent, chan, lockVars, nextpid>>

SleepStart(p, c) ==
  /\ On(p, c, "sys_sleep") /\ tickslock = None
  /\ tickslock' = c
  /\ pc' = [pc EXCEPT ![p] = "sys_sleep_loop"]
  /\ SetLocals(p, loc[p].i, loc[p].w, loc[p].chan, ticks, loc[p].n)
  /\ loc'[p].flag = loc[p].flag
  /\ Still /\ UNCHANGED <<procVars, plock, wait_lock, nextpid>>

SleepOver(p, c) ==
  /\ On(p, c, "sys_sleep_loop")
  /\ tickslock' = None
  /\ pc' = [pc EXCEPT ![p] = "ret"]
  /\ ClearLocals(p)
  /\ Still /\ UNCHANGED <<procVars, plock, wait_lock, nextpid>>

SleepMore(p, c) ==
  /\ On(p, c, "sys_sleep_loop") /\ StillEarly(p) /\ ~killed[p]
  /\ pc' = [pc EXCEPT ![p] = "sleep"]
  /\ SetLocals(p, loc[p].i, loc[p].w, TicksChan, loc[p].arg, loc[p].n)
  /\ loc'[p].flag = loc[p].flag
  /\ Still /\ UNCHANGED <<procVars, lockVars, nextpid>>

\* sleep.
LockSelf(p, c) ==
  /\ On(p, c, "sleep") /\ plock[p] = None
  /\ plock' = [plock EXCEPT ![p] = c]
  /\ pc' = [pc EXCEPT ![p] = "sleep_release"]
  /\ Still /\ UNCHANGED <<procVars, wait_lock, tickslock, nextpid, loc>>

FallAsleep(p, c) ==
  /\ On(p, c, "sleep_release")
  /\ \/ loc[p].chan = TicksChan /\ tickslock' = None /\ wait_lock' = wait_lock
     \/ loc[p].chan = p /\ wait_lock' = None /\ tickslock' = tickslock
     \/ loc[p].chan \notin {TicksChan, p} /\ UNCHANGED <<wait_lock, tickslock>>
  /\ chan' = [chan EXCEPT ![p] = loc[p].chan]
  /\ state' = [state EXCEPT ![p] = "SLEEPING"]
  /\ pc' = [pc EXCEPT ![p] = "sched_sleep"]
  /\ Still /\ UNCHANGED <<pid, parent, killed, plock, nextpid, loc>>

Awake(p, c) ==
  /\ On(p, c, "slept")
  /\ chan' = [chan EXCEPT ![p] = NoChan]
  /\ plock' = [plock EXCEPT ![p] = None]
  /\ pc' = [pc EXCEPT ![p] = "reacquire"]
  /\ Still /\ UNCHANGED <<state, pid, parent, killed, wait_lock, tickslock, nextpid, loc>>

RelockTicks(p, c) ==
  /\ On(p, c, "reacquire") /\ loc[p].chan = TicksChan /\ tickslock = None
  /\ tickslock' = c
  /\ pc' = [pc EXCEPT ![p] = "sys_sleep_loop"]
  /\ SetLocals(p, loc[p].i, loc[p].w, NoChan, loc[p].arg, loc[p].n)
  /\ loc'[p].flag = loc[p].flag
  /\ Still /\ UNCHANGED <<procVars, plock, wait_lock, nextpid>>

RelockWait(p, c) ==
  /\ On(p, c, "reacquire") /\ loc[p].chan = p /\ wait_lock = None
  /\ wait_lock' = c
  /\ pc' = [pc EXCEPT ![p] = "wait_scan"]
  /\ SetLocals(p, loc[p].i, loc[p].w, NoChan, loc[p].arg, loc[p].n)
  /\ loc'[p].flag = loc[p].flag
  /\ Still /\ UNCHANGED <<procVars, plock, tickslock, nextpid>>

\* A fault; the sleeps of the file system, of the console and of exit.
TakeFault(p, c) ==
  /\ On(p, c, "user") /\ p # initproc
  /\ killed' = [killed EXCEPT ![p] = TRUE]
  /\ pc' = [pc EXCEPT ![p] = "exit"]
  /\ Still /\ UNCHANGED <<state, pid, parent, chan, lockVars, nextpid, loc>>

StartIo(p, c) ==
  /\ On(p, c, pc[p]) /\ pc[p] \in {"io", "exit"} /\ p # initproc
  /\ pc' = [pc EXCEPT ![p] = "sleep"]
  /\ SetLocals(p, loc[p].i, loc[p].w, IoChan, IF pc[p] = "exit" THEN 1 ELSE 0, loc[p].n)
  /\ loc'[p].flag = loc[p].flag
  /\ Still /\ UNCHANGED <<procVars, lockVars, nextpid>>

EndIo(p, c) ==
  /\ On(p, c, "reacquire") /\ loc[p].chan = IoChan
  /\ pc' = [pc EXCEPT ![p] = IF loc[p].arg = 1 THEN "exit" ELSE "io"]
  /\ ClearLocals(p)
  /\ Still /\ UNCHANGED <<procVars, lockVars, nextpid>>

WakeIo(q) ==
  /\ plock[q] = None /\ state[q] = "SLEEPING" /\ chan[q] = IoChan
  /\ state' = [state EXCEPT ![q] = "RUNNABLE"]
  /\ UNCHANGED <<pid, parent, chan, killed, lockVars, nextpid, ticks, schedVars,
                 handlerVars, threadVars>>

\* yield, sched and the scheduler.
YieldLock(p, c) ==
  /\ On(p, c, "yield") /\ plock[p] = None
  /\ plock' = [plock EXCEPT ![p] = c]
  /\ state' = [state EXCEPT ![p] = "RUNNABLE"]
  /\ pc' = [pc EXCEPT ![p] = "sched_yield"]
  /\ Still /\ UNCHANGED <<pid, parent, chan, killed, wait_lock, tickslock, nextpid, loc>>

SwitchAway(p, c) ==
  /\ \/ On(p, c, "sched_yield") /\ pc' = [pc EXCEPT ![p] = "yielded"]
     \/ On(p, c, "sched_sleep") /\ pc' = [pc EXCEPT ![p] = "slept"]
     \/ On(p, c, "sched_zombie") /\ pc' = [pc EXCEPT ![p] = "zombie_exit"]
  /\ spc' = [spc EXCEPT ![c] = "back"]
  /\ UNCHANGED <<procVars, lockVars, nextpid, ticks, cproc, si, handlerVars, saved, loc>>

YieldReturn(p, c) ==
  /\ On(p, c, "yielded")
  /\ plock' = [plock EXCEPT ![p] = None]
  /\ pc' = [pc EXCEPT ![p] = saved[p]]
  /\ saved' = [saved EXCEPT ![p] = "user"]
  /\ UNCHANGED <<procVars, wait_lock, tickslock, nextpid, ticks, schedVars, handlerVars, loc>>

FirstRun(p, c) ==
  /\ On(p, c, "forkret")
  /\ plock' = [plock EXCEPT ![p] = None]
  /\ pc' = [pc EXCEPT ![p] = "user"]
  /\ Still /\ UNCHANGED <<procVars, wait_lock, tickslock, nextpid, loc>>

SwitchTo(c, p) ==
  /\ spc[c] = "scan" /\ hpc[c] = "none" /\ p = si[c]
  /\ plock[p] = None /\ state[p] = "RUNNABLE"
  /\ plock' = [plock EXCEPT ![p] = c]
  /\ state' = [state EXCEPT ![p] = "RUNNING"]
  /\ cproc' = [cproc EXCEPT ![c] = p]
  /\ spc' = [spc EXCEPT ![c] = "run"]
  /\ UNCHANGED <<pid, parent, chan, killed, wait_lock, tickslock, nextpid, ticks,
                 si, handlerVars, threadVars>>

NextSlotOf(c, p) ==
  /\ spc[c] = "scan" /\ p \in Procs
  /\ si' = [si EXCEPT ![c] = p]
  /\ UNCHANGED <<procVars, lockVars, nextpid, ticks, cproc, spc, handlerVars, threadVars>>

SwitchedBack(c, p) ==
  /\ spc[c] = "back" /\ p \in Procs
  /\ cproc' = [cproc EXCEPT ![c] = None]
  /\ plock' = [plock EXCEPT ![si[c]] = None]
  /\ si' = [si EXCEPT ![c] = p]
  /\ spc' = [spc EXCEPT ![c] = "scan"]
  /\ UNCHANGED <<procVars, wait_lock, tickslock, nextpid, ticks, handlerVars, threadVars>>

\* The timer interrupt.
TimerTaken(c) ==
  /\ hpc[c] = "none"
  /\ \/ spc[c] = "scan"
     \/ spc[c] = "run" /\ pc[si[c]] \in Interruptible
  /\ \/ hpc' = [hpc EXCEPT ![c] = "clockintr"]
     \/ hpc' = [hpc EXCEPT ![c] = "resched"]
  /\ UNCHANGED <<procVars, lockVars, nextpid, ticks, schedVars, hi, threadVars>>

Tick(c) ==
  /\ hpc[c] = "clockintr" /\ tickslock = None
  /\ tickslock' = c
  /\ ticks' \in Nat
  /\ hpc' = [hpc EXCEPT ![c] = "wakeup"]
  /\ UNCHANGED <<procVars, plock, wait_lock, nextpid, schedVars, hi, threadVars>>

TickSlot(c, q) ==
  /\ hpc[c] = "wakeup" /\ q = hi[c]
  /\ \/ q = cproc[c] /\ state' = state
     \/ q # cproc[c] /\ plock[q] = None /\ Awaken(q, TicksChan)
  /\ hi' = [hi EXCEPT ![c] = q + 1]
  /\ UNCHANGED <<pid, parent, chan, killed, lockVars, nextpid, ticks, schedVars, hpc, threadVars>>

TickDone(c) ==
  /\ hpc[c] = "wakeup" /\ hi[c] > NPROC
  /\ hi' = [hi EXCEPT ![c] = 1]
  /\ hpc' = [hpc EXCEPT ![c] = "resched"]
  /\ tickslock' = None
  /\ UNCHANGED <<procVars, plock, wait_lock, nextpid, ticks, schedVars, threadVars>>

HandlerDone(c) ==
  /\ hpc[c] = "resched"
  /\ hpc' = [hpc EXCEPT ![c] = "none"]
  /\ UNCHANGED <<procVars, lockVars, nextpid, ticks, schedVars, hi, threadVars>>

HandlerExit(c, p) ==
  /\ hpc[c] = "resched" /\ spc[c] = "run" /\ p = si[c]
  /\ pc[p] = "user" /\ killed[p]
  /\ hpc' = [hpc EXCEPT ![c] = "none"]
  /\ pc' = [pc EXCEPT ![p] = "exit"]
  /\ UNCHANGED <<procVars, lockVars, nextpid, ticks, schedVars, hi, saved, loc>>

HandlerYield(c, p) ==
  /\ hpc[c] = "resched" /\ spc[c] = "run" /\ p = si[c]
  /\ hpc' = [hpc EXCEPT ![c] = "none"]
  /\ pc' = [pc EXCEPT ![p] = "yield"]
  /\ saved' = [saved EXCEPT ![p] = pc[p]]
  /\ UNCHANGED <<procVars, lockVars, nextpid, ticks, schedVars, hi, loc>>

\* Into a system call, out of one, into exit.
CallWay(p, c, to, k) ==
  \/ Hop(p, c, to) \/ CallKill(p, c, k) \/ CallSleep(p, c, k)

\* The search of fork and of kill.
ScanWay(p, c, q) ==
  \/ ScanNext(p, c) \/ ScanReturn(p, c) \/ KillFound(p, c, q)

\* fork.
ForkWay(p, c, q) ==
  \/ AllocTake(p, c, q) \/ AllocFail(p, c, q) \/ ParentSet(p, c)
  \/ ChildRunnable(p, c)

\* exit, and the start of wait.
ExitWay(p, c, q) ==
  \/ TakeWait(p, c) \/ ReparentChild(p, c, q) \/ ReparentDone(p, c)
  \/ BecomeZombie(p, c)

\* wakeup, which exit calls.
WakeWay(p, c, q) ==
  \/ WakeSlot(p, c, q) \/ WakeDone(p, c)

\* wait.
WaitWay(p, c, q) ==
  \/ WaitNext(p, c, q) \/ WaitReap(p, c, q) \/ WaitReturn(p, c) \/ WaitSleep(p, c)

\* sys_sleep.
TimedWay(p, c) ==
  \/ SleepStart(p, c) \/ SleepOver(p, c) \/ SleepMore(p, c)

\* sleep.
SleepWay(p, c) ==
  \/ LockSelf(p, c) \/ FallAsleep(p, c) \/ Awake(p, c) \/ RelockTicks(p, c)
  \/ RelockWait(p, c)

\* Faults, the file system and the console.
IoWay(p, c, q) ==
  \/ TakeFault(p, c) \/ StartIo(p, c) \/ EndIo(p, c) \/ WakeIo(q)

\* yield, sched and forkret.
SwitchWay(p, c) ==
  \/ YieldLock(p, c) \/ SwitchAway(p, c) \/ YieldReturn(p, c) \/ FirstRun(p, c)

\* The scheduler.
SchedWay(c, p) ==
  \/ SwitchTo(c, p) \/ NextSlotOf(c, p) \/ SwitchedBack(c, p)

\* The timer interrupt and clockintr.
ClockWay(c, q) ==
  \/ TimerTaken(c) \/ Tick(c) \/ TickSlot(c, q) \/ TickDone(c)

\* The end of the interrupt.
TrapWay(c, p) ==
  \/ HandlerDone(c) \/ HandlerExit(c, p) \/ HandlerYield(c, p)

\* A step of the system goes one of these ways.
AnyWay ==
  \/ \E c \in CPUs, p \in Procs, to \in PCs, k \in Nat : CallWay(p, c, to, k)
  \/ \E c \in CPUs, p, q \in Procs :
       \/ ScanWay(p, c, q) \/ ForkWay(p, c, q) \/ ExitWay(p, c, q)
       \/ WakeWay(p, c, q) \/ WaitWay(p, c, q) \/ IoWay(p, c, q)
  \/ \E c \in CPUs, q \in Procs : ClockWay(c, q)
  \/ \E c \in CPUs, p \in Procs :
       \/ TimedWay(p, c) \/ SleepWay(p, c) \/ SwitchWay(p, c) \/ SchedWay(c, p)
       \/ TrapWay(c, p)
  \/ UNCHANGED vars
-----------------------------------------------------------------------------

\* init has a slot, and slots are numbers.
LEMMA InitSlot == initproc \in Procs /\ Procs \subseteq Nat
  BY ProcAssumption DEF initproc, Procs

\* What the types of the table need of the constants.
LEMMA NatConstants ==
  ASSUME nextpid \in Nat
  PROVE  initproc \in Procs /\ NoChan \in Nat /\ nextpid + 1 \in Nat
  BY InitSlot DEF NoChan

\* The slot after a slot is a number.
LEMMA SlotNat == \A q \in Procs : q \in Nat /\ q + 1 \in Nat
  BY DEF Procs

\* The types of a thread's locals.
LEMMA FieldTypes ==
  ASSUME IInv, NEW p \in Procs
  PROVE  /\ loc[p].i \in Nat /\ loc[p].w \in Nat /\ loc[p].chan \in Nat \cup {None}
         /\ loc[p].arg \in Nat /\ loc[p].n \in Nat /\ loc[p].flag \in BOOLEAN
  BY DEF IInv, TypeOK, ThreadType, Locals

\* A process whose lock is free and that is not RUNNING is on no CPU.
LEMMA Parked ==
  ASSUME IInv, NEW p \in Procs, plock[p] = None, state[p] # "RUNNING"
  PROVE  Off(p) /\ \A d \in CPUs : si[d] = p => spc[d] = "scan"
  <1>1. ASSUME NEW d \in CPUs, si[d] = p, spc[d] # "scan" PROVE FALSE
    <2>1. spc[d] \in {"run", "back"} /\ plock[p] # d
      BY <1>1, ProcAssumption, Zenon DEF IInv, TypeOK, CpuType
    <2>2. spc[d] = "run" /\ ~HoldsProc(p)
      BY <1>1, <2>1, Zenon DEF IInv, LockInv
    <2>3. state[p] = StateAt(pc[p])
      BY <1>1, <2>2, Zenon DEF IInv, RunInv
    <2> QED  BY <2>2, <2>3, Zenon DEF StateAt, HoldsProc
  <1>2. \A d \in CPUs : ~OnCpu(p, d)
    BY <1>1, Zenon DEF OnCpu, IInv, CpuInv
  <1> QED  BY <1>1, <1>2, Zenon DEF IInv, OffInv

\* The state of the process a CPU executes.
LEMMA Executing ==
  ASSUME IInv, NEW c \in CPUs, NEW p \in Procs, On(p, c, pc[p])
  PROVE  state[p] = StateAt(pc[p])
  BY DEF IInv, RunInv, On

\* The slot that fork took has no thread and no other owner.
LEMMA Forked ==
  ASSUME IInv, NEW p \in Procs, pc[p] \in {"fork_parent", "fork_runnable"}
  PROVE  loc[p].arg \in Procs /\ state[loc[p].arg] = "USED"
  BY DEF IInv, ForkInv, Forking, Where

\* The holder of wait_lock is the one thread in a section of it.
LEMMA WaitHolder ==
  ASSUME IInv, NEW p \in Procs, HoldsWait(p)
  PROVE  /\ wait_lock # None
         /\ \A q \in Procs : HoldsWait(q) => q = p
  <1>1. ASSUME NEW q \in Procs, HoldsWait(q)
        PROVE  \E c \in CPUs : wait_lock = c /\ si[c] = q
    <2>1. ~Off(q)
      BY <1>1, Zenon DEF Off, HoldsWait
    <2>2. PICK c \in CPUs : OnCpu(q, c)
      BY <2>1, Zenon DEF IInv, OffInv
    <2>3. spc[c] = "run" /\ si[c] = q
      BY <2>2, Zenon DEF IInv, CpuInv, OnCpu
    <2> QED  BY <1>1, <2>3, Zenon DEF IInv, LockInv
  <1> QED  BY <1>1, ProcAssumption, Zenon

\* Where the locals of a call are still as it began.
LEMMA Fresh ==
  ASSUME IInv, NEW p \in Procs,
         pc[p] \in {"user", "ret", "exit", "wait", "sys_sleep", "io", "reacquire", "forkret"}
  PROVE  loc[p].i = 1 /\ loc[p].w = 1 /\ ~loc[p].flag
  BY Zenon DEF IInv, LocInv, FirstRound, Where

\* A slot that is free or being filled has no thread.
LEMMA Threadless ==
  ASSUME IInv, NEW p \in Procs, state[p] \in {"UNUSED", "USED"}
  PROVE  pc[p] \in {"forkret", "zombie_exit"}
  <1>1. \A c \in CPUs : ~OnCpu(p, c)
    BY DEF IInv, CpuInv, RunInv, StateAt, OnCpu
  <1> QED  BY <1>1, Zenon DEF IInv, OffInv, Off

\* Nobody is in a section of tickslock while it is free.
LEMMA TicksHolder ==
  ASSUME IInv, NEW p \in Procs, HoldsTicks(p)
  PROVE  tickslock # None
  <1>1. ~Off(p)
    BY Zenon DEF Off, HoldsTicks
  <1>2. PICK c \in CPUs : OnCpu(p, c)
    BY <1>1, Zenon DEF IInv, OffInv
  <1>3. spc[c] = "run" /\ si[c] = p
    BY <1>2, Zenon DEF IInv, CpuInv, OnCpu
  <1> QED  BY <1>3, ProcAssumption, Zenon DEF IInv, LockInv

\* The slot of init, and the channels that are no slot.
LEMMA Numbers ==
  /\ initproc \in Procs /\ initproc = 1 /\ None \notin Procs
  /\ NoChan \notin Procs /\ TicksChan \notin Procs /\ NoChan # TicksChan
  /\ \A q \in Procs : q \in Nat /\ q >= 1 /\ ~(q > NPROC)
  BY ProcAssumption DEF initproc, Procs, NoChan, TicksChan

LEMMA IoNumbers ==
  /\ IoChan \notin Procs /\ IoChan \in Nat /\ IoChan # NoChan /\ IoChan # TicksChan
  /\ TicksChan \notin Procs
  BY ProcAssumption DEF Procs, NoChan, TicksChan, IoChan

\* A step of one thread leaves the sleepers of sys_sleep as they are.
LEMMA TickFrame ==
  ASSUME TickInv, NEW p \in Procs, UNCHANGED <<ticks, hpc, hi>>,
         state'[p] # "SLEEPING",
         pc'[p] \notin {"sleep", "sleep_release"},
         \A q \in Procs \ {p} :
           /\ loc'[q] = loc[q]
           /\ state'[q] = "SLEEPING" => state[q] = "SLEEPING"
           /\ chan'[q] = TicksChan => chan[q] = TicksChan
           /\ pc'[q] \in {"sleep", "sleep_release"} => pc[q] = pc'[q]
  PROVE  TickInv'
  <1>1. \A q \in Procs \ {p} : StillEarly(q)' <=> StillEarly(q)
    BY Zenon DEF StillEarly
  <1> QED  BY <1>1, Zenon DEF TickInv

\* Every step keeps the types of the process table.
LEMMA ProcTypeStep ==
  ASSUME IInv, AnyWay
  PROVE  ProcType'
  <1>t. /\ state \in [Procs -> States] /\ pid \in [Procs -> Nat]
        /\ parent \in [Procs -> Procs \cup {None}] /\ chan \in [Procs -> Nat \cup {None}]
        /\ killed \in [Procs -> BOOLEAN] /\ nextpid \in Nat /\ ticks \in Nat
        /\ initproc \in Procs /\ NoChan \in Nat /\ nextpid + 1 \in Nat
    BY NatConstants, Zenon DEF IInv, TypeOK, ProcType
  <1>1. ASSUME NEW c \in CPUs, NEW p \in Procs, NEW to \in PCs,
               NEW k \in Nat, CallWay(p, c, to, k)
        PROVE  ProcType'
    BY <1>t, <1>1, Zenon DEF CallWay, Hop, CallKill, CallSleep, Still, procVars,
       ProcType, States
  <1>2. ASSUME NEW c \in CPUs, NEW p \in Procs, NEW q \in Procs, ScanWay(p, c, q)
        PROVE  ProcType'
    BY <1>t, <1>2, Zenon DEF ScanWay, ScanNext, ScanReturn, KillFound, Still,
       procVars, ProcType, States
  <1>3. ASSUME NEW c \in CPUs, NEW p \in Procs, NEW q \in Procs, ForkWay(p, c, q)
        PROVE  ProcType'
    <2>1. CASE AllocFail(p, c, q)
      BY <1>t, <2>1, Zenon DEF AllocFail, freeproc, Still, procVars, ProcType,
         States
    <2>2. CASE AllocTake(p, c, q)
      BY <1>t, <2>2, Zenon DEF AllocTake, Still, procVars, ProcType, States
    <2> QED
      BY <1>t, <1>3, <2>1, <2>2, Zenon DEF ForkWay, ParentSet, ChildRunnable,
         Still, procVars, ProcType, States
  <1>4. ASSUME NEW c \in CPUs, NEW p \in Procs, NEW q \in Procs, ExitWay(p, c, q)
        PROVE  ProcType'
    BY <1>t, <1>4, Zenon DEF ExitWay, TakeWait, ReparentChild, ReparentDone,
       BecomeZombie, Still, procVars, ProcType, States
  <1>5. ASSUME NEW c \in CPUs, NEW p \in Procs, NEW q \in Procs, WakeWay(p, c, q)
        PROVE  ProcType'
    BY <1>t, <1>5, Zenon DEF WakeWay, WakeSlot, Awaken, WakeDone, Still, procVars,
       ProcType, States
  <1>6. ASSUME NEW c \in CPUs, NEW p \in Procs, NEW q \in Procs, WaitWay(p, c, q)
        PROVE  ProcType'
    <2>1. CASE WaitReap(p, c, q)
      BY <1>t, <2>1, Zenon DEF WaitReap, freeproc, Still, procVars, ProcType,
         States
    <2> QED
      BY <1>t, <1>6, <2>1, Zenon DEF WaitWay, WaitNext, WaitReturn, WaitSleep,
         Still, procVars, ProcType, States
  <1>7. ASSUME NEW c \in CPUs, NEW p \in Procs, TimedWay(p, c) PROVE ProcType'
    BY <1>t, <1>7, Zenon DEF TimedWay, SleepStart, SleepOver, SleepMore, Still,
       procVars, ProcType, States
  <1>8. ASSUME NEW c \in CPUs, NEW p \in Procs, SleepWay(p, c) PROVE ProcType'
    BY <1>t, <1>8, FieldTypes, SMTT(30) DEF SleepWay, LockSelf, FallAsleep, Awake,
       RelockTicks, RelockWait, Still, procVars, ProcType, States
  <1>9. ASSUME NEW c \in CPUs, NEW p \in Procs, SwitchWay(p, c) PROVE ProcType'
    BY <1>t, <1>9, Zenon DEF SwitchWay, YieldLock, SwitchAway, YieldReturn,
       FirstRun, Still, procVars, ProcType, States
  <1>10. ASSUME NEW c \in CPUs, NEW p \in Procs, SchedWay(c, p) PROVE ProcType'
    BY <1>t, <1>10, Zenon DEF SchedWay, SwitchTo, NextSlotOf, SwitchedBack, Still,
       procVars, ProcType, States
  <1>11. ASSUME NEW c \in CPUs, NEW q \in Procs, ClockWay(c, q) PROVE ProcType'
    BY <1>t, <1>11, Zenon DEF ClockWay, TimerTaken, Tick, TickSlot, Awaken,
       TickDone, Still, procVars, ProcType, States
  <1>12. ASSUME NEW c \in CPUs, NEW p \in Procs, TrapWay(c, p) PROVE ProcType'
    BY <1>t, <1>12, Zenon DEF TrapWay, HandlerDone, HandlerExit, HandlerYield,
       Still, procVars, ProcType, States
  <1>13. ASSUME UNCHANGED vars PROVE ProcType'
    BY <1>t, <1>13, Zenon DEF vars, procVars, ProcType, States
  <1>14. ASSUME NEW c \in CPUs, NEW p \in Procs, NEW q \in Procs, IoWay(p, c, q)
         PROVE  ProcType'
    BY <1>t, <1>14, Zenon DEF IoWay, TakeFault, StartIo, EndIo, WakeIo, On, Still,
       procVars, ProcType, States
  <1> QED
    BY <1>1, <1>2, <1>3, <1>4, <1>5, <1>6, <1>7, <1>8, <1>9, <1>10, <1>11, <1>12,
       <1>13, <1>14, Zenon DEF AnyWay

\* Every step keeps the types of the locks.
LEMMA LockTypeStep ==
  ASSUME IInv, AnyWay
  PROVE  LockType'
  <1>t. /\ plock \in [Procs -> CPUs \cup {None}] /\ wait_lock \in CPUs \cup {None}
        /\ tickslock \in CPUs \cup {None}
    BY Zenon DEF IInv, TypeOK, LockType
  <1>1. ASSUME NEW c \in CPUs, NEW p \in Procs, NEW to \in PCs,
               NEW k \in Nat, CallWay(p, c, to, k)
        PROVE  LockType'
    BY <1>t, <1>1, Zenon DEF CallWay, Hop, CallKill, CallSleep, Still, lockVars,
       LockType
  <1>2. ASSUME NEW c \in CPUs, NEW p \in Procs, NEW q \in Procs, ScanWay(p, c, q)
        PROVE  LockType'
    BY <1>t, <1>2, Zenon DEF ScanWay, ScanNext, ScanReturn, KillFound, Still,
       lockVars, LockType
  <1>3. ASSUME NEW c \in CPUs, NEW p \in Procs, NEW q \in Procs, ForkWay(p, c, q)
        PROVE  LockType'
    BY <1>t, <1>3, Zenon DEF ForkWay, AllocTake, AllocFail, ParentSet,
       ChildRunnable, Still, lockVars, LockType
  <1>4. ASSUME NEW c \in CPUs, NEW p \in Procs, NEW q \in Procs, ExitWay(p, c, q)
        PROVE  LockType'
    BY <1>t, <1>4, Zenon DEF ExitWay, TakeWait, ReparentChild, ReparentDone,
       BecomeZombie, Still, lockVars, LockType
  <1>5. ASSUME NEW c \in CPUs, NEW p \in Procs, NEW q \in Procs, WakeWay(p, c, q)
        PROVE  LockType'
    BY <1>t, <1>5, Zenon DEF WakeWay, WakeSlot, WakeDone, Still, lockVars, LockType
  <1>6. ASSUME NEW c \in CPUs, NEW p \in Procs, NEW q \in Procs, WaitWay(p, c, q)
        PROVE  LockType'
    BY <1>t, <1>6, Zenon DEF WaitWay, WaitNext, WaitReap, WaitReturn, WaitSleep,
       Still, lockVars, LockType
  <1>7. ASSUME NEW c \in CPUs, NEW p \in Procs, TimedWay(p, c) PROVE LockType'
    BY <1>t, <1>7, Zenon DEF TimedWay, SleepStart, SleepOver, SleepMore, Still,
       lockVars, LockType
  <1>8. ASSUME NEW c \in CPUs, NEW p \in Procs, SleepWay(p, c) PROVE LockType'
    BY <1>t, <1>8, Zenon DEF SleepWay, LockSelf, FallAsleep, Awake, RelockTicks,
       RelockWait, Still, lockVars, LockType
  <1>9. ASSUME NEW c \in CPUs, NEW p \in Procs, SwitchWay(p, c) PROVE LockType'
    BY <1>t, <1>9, Zenon DEF SwitchWay, YieldLock, SwitchAway, YieldReturn,
       FirstRun, Still, lockVars, LockType
  <1>10. ASSUME NEW c \in CPUs, NEW p \in Procs, SchedWay(c, p) PROVE LockType'
    BY <1>t, <1>10, Zenon DEF SchedWay, SwitchTo, NextSlotOf, SwitchedBack, Still,
       lockVars, LockType
  <1>11. ASSUME NEW c \in CPUs, NEW q \in Procs, ClockWay(c, q) PROVE LockType'
    BY <1>t, <1>11, Zenon DEF ClockWay, TimerTaken, Tick, TickSlot, TickDone,
       Still, lockVars, LockType
  <1>12. ASSUME NEW c \in CPUs, NEW p \in Procs, TrapWay(c, p) PROVE LockType'
    BY <1>t, <1>12, Zenon DEF TrapWay, HandlerDone, HandlerExit, HandlerYield,
       Still, lockVars, LockType
  <1>13. ASSUME UNCHANGED vars PROVE LockType'
    BY <1>t, <1>13, Zenon DEF vars, lockVars, LockType
  <1>14. ASSUME NEW c \in CPUs, NEW p \in Procs, NEW q \in Procs, IoWay(p, c, q)
         PROVE  LockType'
    BY <1>t, <1>14, SMTT(30) DEF IoWay, TakeFault, StartIo, SetLocals, EndIo,
       ClearLocals, WakeIo, On, Still, lockVars, LockType
  <1> QED
    BY <1>1, <1>2, <1>3, <1>4, <1>5, <1>6, <1>7, <1>8, <1>9, <1>10, <1>11, <1>12,
       <1>13, <1>14, Zenon DEF AnyWay

\* Every step keeps the types of the CPUs.
LEMMA CpuTypeStep ==
  ASSUME IInv, AnyWay
  PROVE  CpuType'
  <1>t. /\ cproc \in [CPUs -> Procs \cup {None}]
        /\ spc \in [CPUs -> {"scan", "run", "back"}] /\ si \in [CPUs -> Procs]
        /\ hpc \in [CPUs -> {"none", "clockintr", "wakeup", "resched"}]
        /\ hi \in [CPUs -> Nat]
        /\ \A q \in Procs : q + 1 \in Nat
    BY SlotNat, Zenon DEF IInv, TypeOK, CpuType
  <1>1. ASSUME NEW c \in CPUs, NEW p \in Procs, NEW to \in PCs,
               NEW k \in Nat, CallWay(p, c, to, k)
        PROVE  CpuType'
    BY <1>t, <1>1, Zenon DEF CallWay, Hop, CallKill, CallSleep, On, Still,
       schedVars, handlerVars, CpuType
  <1>2. ASSUME NEW c \in CPUs, NEW p \in Procs, NEW q \in Procs, ScanWay(p, c, q)
        PROVE  CpuType'
    BY <1>t, <1>2, Zenon DEF ScanWay, ScanNext, ScanReturn, KillFound, On, Still,
       schedVars, handlerVars, CpuType
  <1>3. ASSUME NEW c \in CPUs, NEW p \in Procs, NEW q \in Procs, ForkWay(p, c, q)
        PROVE  CpuType'
    BY <1>t, <1>3, Zenon DEF ForkWay, AllocTake, AllocFail, ParentSet,
       ChildRunnable, On, Still, schedVars, handlerVars, CpuType
  <1>4. ASSUME NEW c \in CPUs, NEW p \in Procs, NEW q \in Procs, ExitWay(p, c, q)
        PROVE  CpuType'
    BY <1>t, <1>4, Zenon DEF ExitWay, TakeWait, ReparentChild, ReparentDone,
       BecomeZombie, On, Still, schedVars, handlerVars, CpuType
  <1>5. ASSUME NEW c \in CPUs, NEW p \in Procs, NEW q \in Procs, WakeWay(p, c, q)
        PROVE  CpuType'
    BY <1>t, <1>5, Zenon DEF WakeWay, WakeSlot, WakeDone, On, Still, schedVars,
       handlerVars, CpuType
  <1>6. ASSUME NEW c \in CPUs, NEW p \in Procs, NEW q \in Procs, WaitWay(p, c, q)
        PROVE  CpuType'
    BY <1>t, <1>6, Zenon DEF WaitWay, WaitNext, WaitReap, WaitReturn, WaitSleep,
       On, Still, schedVars, handlerVars, CpuType
  <1>7. ASSUME NEW c \in CPUs, NEW p \in Procs, TimedWay(p, c) PROVE CpuType'
    BY <1>t, <1>7, Zenon DEF TimedWay, SleepStart, SleepOver, SleepMore, On, Still,
       schedVars, handlerVars, CpuType
  <1>8. ASSUME NEW c \in CPUs, NEW p \in Procs, SleepWay(p, c) PROVE CpuType'
    BY <1>t, <1>8, Zenon DEF SleepWay, LockSelf, FallAsleep, Awake, RelockTicks,
       RelockWait, On, Still, schedVars, handlerVars, CpuType
  <1>9. ASSUME NEW c \in CPUs, NEW p \in Procs, SwitchWay(p, c) PROVE CpuType'
    BY <1>t, <1>9, Zenon DEF SwitchWay, YieldLock, SwitchAway, YieldReturn,
       FirstRun, On, Still, schedVars, handlerVars, CpuType
  <1>10. ASSUME NEW c \in CPUs, NEW p \in Procs, SchedWay(c, p) PROVE CpuType'
    BY <1>t, <1>10, SMTT(30) DEF SchedWay, SwitchTo, NextSlotOf, SwitchedBack, On,
       Still, schedVars, handlerVars, CpuType
  <1>11. ASSUME NEW c \in CPUs, NEW q \in Procs, ClockWay(c, q) PROVE CpuType'
    BY <1>t, <1>11, SMTT(30) DEF ClockWay, TimerTaken, Tick, TickSlot, TickDone,
       On, Still, schedVars, handlerVars, CpuType
  <1>12. ASSUME NEW c \in CPUs, NEW p \in Procs, TrapWay(c, p) PROVE CpuType'
    BY <1>t, <1>12, Zenon DEF TrapWay, HandlerDone, HandlerExit, HandlerYield, On,
       Still, schedVars, handlerVars, CpuType
  <1>13. ASSUME UNCHANGED vars PROVE CpuType'
    BY <1>t, <1>13, Zenon DEF vars, schedVars, handlerVars, CpuType
  <1>14. ASSUME NEW c \in CPUs, NEW p \in Procs, NEW q \in Procs, IoWay(p, c, q)
         PROVE  CpuType'
    BY <1>t, <1>14, SMTT(30) DEF IoWay, TakeFault, StartIo, SetLocals, EndIo,
       ClearLocals, WakeIo, On, Still, schedVars, handlerVars, CpuType
  <1> QED
    BY <1>1, <1>2, <1>3, <1>4, <1>5, <1>6, <1>7, <1>8, <1>9, <1>10, <1>11, <1>12,
       <1>13, <1>14, Zenon DEF AnyWay

\* Every step keeps the types of the threads.
LEMMA ThreadTypeStep ==
  ASSUME IInv, AnyWay
  PROVE  ThreadType'
  <1>t. /\ pc \in [Procs -> PCs] /\ saved \in [Procs -> Interruptible]
        /\ loc \in [Procs -> Locals]
        /\ \A c \in CPUs : hpc[c] # "none" /\ spc[c] = "run" => pc[si[c]] \in Interruptible
    BY Zenon DEF IInv, TypeOK, ThreadType, CpuInv
  <1>1. ASSUME NEW c \in CPUs, NEW p \in Procs, NEW to \in PCs,
               NEW k \in Nat, CallWay(p, c, to, k)
        PROVE  ThreadType'
    BY <1>t, <1>1, Zenon DEF CallWay, Hop, CallKill, SetLocals, CallSleep, On,
       Still, threadVars, ThreadType, PCs, Interruptible
  <1>2. ASSUME NEW c \in CPUs, NEW p \in Procs, NEW q \in Procs, ScanWay(p, c, q)
        PROVE  ThreadType'
    BY <1>t, <1>2, Zenon DEF ScanWay, ScanNext, SetLocals, ScanReturn, ClearLocals,
       KillFound, On, Still, threadVars, ThreadType, PCs, Interruptible
  <1>3. ASSUME NEW c \in CPUs, NEW p \in Procs, NEW q \in Procs, ForkWay(p, c, q)
        PROVE  ThreadType'
    BY <1>t, <1>3, Zenon DEF ForkWay, AllocTake, SetLocals, AllocFail, ClearLocals,
       ParentSet, ChildRunnable, On, Still, threadVars, ThreadType, PCs,
       Interruptible
  <1>4. ASSUME NEW c \in CPUs, NEW p \in Procs, NEW q \in Procs, ExitWay(p, c, q)
        PROVE  ThreadType'
    BY <1>t, <1>4, Zenon DEF ExitWay, TakeWait, ReparentChild, SetLocals,
       ReparentDone, BecomeZombie, ClearLocals, On, Still, threadVars, ThreadType,
       PCs, Interruptible
  <1>5. ASSUME NEW c \in CPUs, NEW p \in Procs, NEW q \in Procs, WakeWay(p, c, q)
        PROVE  ThreadType'
    BY <1>t, <1>5, Zenon DEF WakeWay, WakeSlot, SetLocals, WakeDone, On, Still,
       threadVars, ThreadType, PCs, Interruptible
  <1>6. ASSUME NEW c \in CPUs, NEW p \in Procs, NEW q \in Procs, WaitWay(p, c, q)
        PROVE  ThreadType'
    BY <1>t, <1>6, Zenon DEF WaitWay, WaitNext, SetLocals, WaitReap, ClearLocals,
       WaitReturn, WaitSleep, On, Still, threadVars, ThreadType, PCs, Interruptible
  <1>7. ASSUME NEW c \in CPUs, NEW p \in Procs, TimedWay(p, c) PROVE ThreadType'
    BY <1>t, <1>7, Zenon DEF TimedWay, SleepStart, SetLocals, SleepOver,
       ClearLocals, SleepMore, On, Still, threadVars, ThreadType, PCs,
       Interruptible
  <1>8. ASSUME NEW c \in CPUs, NEW p \in Procs, SleepWay(p, c) PROVE ThreadType'
    BY <1>t, <1>8, Zenon DEF SleepWay, LockSelf, FallAsleep, Awake, RelockTicks,
       SetLocals, RelockWait, On, Still, threadVars, ThreadType, PCs, Interruptible
  <1>9. ASSUME NEW c \in CPUs, NEW p \in Procs, SwitchWay(p, c) PROVE ThreadType'
    BY <1>t, <1>9, Zenon DEF SwitchWay, YieldLock, SwitchAway, YieldReturn,
       FirstRun, On, Still, threadVars, ThreadType, PCs, Interruptible
  <1>10. ASSUME NEW c \in CPUs, NEW p \in Procs, SchedWay(c, p) PROVE ThreadType'
    BY <1>t, <1>10, Zenon DEF SchedWay, SwitchTo, NextSlotOf, SwitchedBack, On,
       Still, threadVars, ThreadType, PCs, Interruptible
  <1>11. ASSUME NEW c \in CPUs, NEW q \in Procs, ClockWay(c, q) PROVE ThreadType'
    BY <1>t, <1>11, Zenon DEF ClockWay, TimerTaken, Tick, TickSlot, TickDone, On,
       Still, threadVars, ThreadType, PCs, Interruptible
  <1>12. ASSUME NEW c \in CPUs, NEW p \in Procs, TrapWay(c, p) PROVE ThreadType'
    BY <1>t, <1>12, SMTT(30) DEF TrapWay, HandlerDone, HandlerExit, HandlerYield,
       On, Still, threadVars, ThreadType, PCs, Interruptible
  <1>13. ASSUME UNCHANGED vars PROVE ThreadType'
    BY <1>t, <1>13, Zenon DEF vars, threadVars, ThreadType, PCs, Interruptible
  <1>14. ASSUME NEW c \in CPUs, NEW p \in Procs, NEW q \in Procs, IoWay(p, c, q)
         PROVE  ThreadType'
    BY <1>t, <1>14, SMTT(30) DEF IoWay, TakeFault, StartIo, SetLocals, EndIo,
       ClearLocals, WakeIo, On, Still, threadVars, ThreadType, PCs, Interruptible
  <1> QED
    BY <1>1, <1>2, <1>3, <1>4, <1>5, <1>6, <1>7, <1>8, <1>9, <1>10, <1>11, <1>12,
       <1>13, <1>14, Zenon DEF AnyWay

\* Every step keeps all the types.
LEMMA TypeStep ==
  ASSUME IInv, AnyWay
  PROVE  TypeOK'
  BY ProcTypeStep, LockTypeStep, CpuTypeStep, ThreadTypeStep DEF TypeOK

\* Every step keeps the CPUs apart.
LEMMA CpuInvStep ==
  ASSUME IInv, AnyWay
  PROVE  CpuInv'
  <1>t. /\ cproc \in [CPUs -> Procs \cup {None}]
        /\ spc \in [CPUs -> {"scan", "run", "back"}] /\ si \in [CPUs -> Procs]
        /\ hpc \in [CPUs -> {"none", "clockintr", "wakeup", "resched"}]
        /\ pc \in [Procs -> PCs]
        /\ CpuInv /\ None \notin Procs
    BY Numbers, Zenon DEF IInv, TypeOK, CpuType, ThreadType
  <1>1. ASSUME NEW c \in CPUs, NEW p \in Procs, NEW to \in PCs,
               NEW k \in Nat, CallWay(p, c, to, k)
        PROVE  CpuInv'
    BY <1>t, <1>1, SMTT(30) DEF CallWay, Hop, CallKill, CallSleep, On, Still,
       schedVars, handlerVars, threadVars, CpuInv, Interruptible
  <1>2. ASSUME NEW c \in CPUs, NEW p \in Procs, NEW q \in Procs, ScanWay(p, c, q)
        PROVE  CpuInv'
    BY <1>t, <1>2, SMTT(30) DEF ScanWay, ScanNext, ScanReturn, KillFound, On,
       Still, schedVars, handlerVars, threadVars, CpuInv, Interruptible
  <1>3. ASSUME NEW c \in CPUs, NEW p \in Procs, NEW q \in Procs, ForkWay(p, c, q)
        PROVE  CpuInv'
    BY <1>t, <1>3, Parked, SMTT(30) DEF ForkWay, AllocTake, AllocFail, ParentSet,
       ChildRunnable, On, Still, schedVars, handlerVars, threadVars, CpuInv,
       Interruptible
  <1>4. ASSUME NEW c \in CPUs, NEW p \in Procs, NEW q \in Procs, ExitWay(p, c, q)
        PROVE  CpuInv'
    BY <1>t, <1>4, SMTT(30) DEF ExitWay, TakeWait, ReparentChild, ReparentDone,
       BecomeZombie, On, Still, schedVars, handlerVars, threadVars, CpuInv,
       Interruptible
  <1>5. ASSUME NEW c \in CPUs, NEW p \in Procs, NEW q \in Procs, WakeWay(p, c, q)
        PROVE  CpuInv'
    BY <1>t, <1>5, SMTT(30) DEF WakeWay, WakeSlot, WakeDone, On, Still, schedVars,
       handlerVars, threadVars, CpuInv, Interruptible
  <1>6. ASSUME NEW c \in CPUs, NEW p \in Procs, NEW q \in Procs, WaitWay(p, c, q)
        PROVE  CpuInv'
    BY <1>t, <1>6, SMTT(30) DEF WaitWay, WaitNext, WaitReap, WaitReturn, WaitSleep,
       On, Still, schedVars, handlerVars, threadVars, CpuInv, Interruptible
  <1>7. ASSUME NEW c \in CPUs, NEW p \in Procs, TimedWay(p, c) PROVE CpuInv'
    BY <1>t, <1>7, SMTT(30) DEF TimedWay, SleepStart, SleepOver, SleepMore, On,
       Still, schedVars, handlerVars, threadVars, CpuInv, Interruptible
  <1>8. ASSUME NEW c \in CPUs, NEW p \in Procs, SleepWay(p, c) PROVE CpuInv'
    BY <1>t, <1>8, SMTT(30) DEF SleepWay, LockSelf, FallAsleep, Awake, RelockTicks,
       RelockWait, On, Still, schedVars, handlerVars, threadVars, CpuInv,
       Interruptible
  <1>9. ASSUME NEW c \in CPUs, NEW p \in Procs, SwitchWay(p, c) PROVE CpuInv'
    BY <1>t, <1>9, SMTT(30) DEF SwitchWay, YieldLock, SwitchAway, YieldReturn,
       FirstRun, On, Still, schedVars, handlerVars, threadVars, CpuInv,
       Interruptible
  <1>10. ASSUME NEW c \in CPUs, NEW p \in Procs, SchedWay(c, p) PROVE CpuInv'
    BY <1>t, <1>10, Parked, SMTT(30) DEF SchedWay, SwitchTo, NextSlotOf,
       SwitchedBack, On, Still, schedVars, handlerVars, threadVars, CpuInv,
       Interruptible
  <1>11. ASSUME NEW c \in CPUs, NEW q \in Procs, ClockWay(c, q) PROVE CpuInv'
    BY <1>t, <1>11, SMTT(30) DEF ClockWay, TimerTaken, Tick, TickSlot, TickDone,
       On, Still, schedVars, handlerVars, threadVars, CpuInv, Interruptible
  <1>12. ASSUME NEW c \in CPUs, NEW p \in Procs, TrapWay(c, p) PROVE CpuInv'
    BY <1>t, <1>12, SMTT(30) DEF TrapWay, HandlerDone, HandlerExit, HandlerYield,
       On, Still, schedVars, handlerVars, threadVars, CpuInv, Interruptible
  <1>13. ASSUME UNCHANGED vars PROVE CpuInv'
    BY <1>t, <1>13, Zenon DEF vars, schedVars, handlerVars, threadVars, CpuInv,
       Interruptible
  <1>14. ASSUME NEW c \in CPUs, NEW p \in Procs, NEW q \in Procs, IoWay(p, c, q)
         PROVE  CpuInv'
    BY <1>t, <1>14, SMTT(30) DEF IoWay, TakeFault, StartIo, SetLocals, EndIo,
       ClearLocals, WakeIo, On, Still, schedVars, handlerVars, threadVars, CpuInv,
       Interruptible
  <1> QED
    BY <1>1, <1>2, <1>3, <1>4, <1>5, <1>6, <1>7, <1>8, <1>9, <1>10, <1>11, <1>12,
       <1>13, <1>14, Zenon DEF AnyWay

\* Every step keeps the locks with the CPUs that execute their sections.
LEMMA LockStep ==
  ASSUME IInv, AnyWay
  PROVE  LockInv'
  <1>t. /\ plock \in [Procs -> CPUs \cup {None}] /\ wait_lock \in CPUs \cup {None}
        /\ tickslock \in CPUs \cup {None} /\ spc \in [CPUs -> {"scan", "run", "back"}]
        /\ si \in [CPUs -> Procs]
        /\ hpc \in [CPUs -> {"none", "clockintr", "wakeup", "resched"}]
        /\ pc \in [Procs -> PCs] /\ saved \in [Procs -> Interruptible]
        /\ loc \in [Procs -> Locals]
        /\ CpuInv /\ LockInv /\ None \notin CPUs /\ TicksChan \notin Procs /\ NoChan # TicksChan
    BY ProcAssumption, Numbers, Zenon DEF IInv, TypeOK, LockType, CpuType,
       ThreadType
  <1>1. ASSUME NEW c \in CPUs, NEW p \in Procs, NEW to \in PCs,
               NEW k \in Nat, CallWay(p, c, to, k)
        PROVE  LockInv'
    BY <1>t, <1>1, SMTT(30) DEF CallWay, Hop, CallKill, SetLocals, CallSleep, On,
       Still, lockVars, schedVars, handlerVars, threadVars, CpuInv, LockInv,
       HoldsProc, HoldsWait, HoldsTicks, Interruptible
  <1>2. ASSUME NEW c \in CPUs, NEW p \in Procs, NEW q \in Procs, ScanWay(p, c, q)
        PROVE  LockInv'
    BY <1>t, <1>2, SMTT(30) DEF ScanWay, ScanNext, SetLocals, ScanReturn,
       ClearLocals, KillFound, On, Still, lockVars, schedVars, handlerVars,
       threadVars, CpuInv, LockInv,
       HoldsProc, HoldsWait, HoldsTicks, Interruptible
  <1>3. ASSUME NEW c \in CPUs, NEW p \in Procs, NEW q \in Procs, ForkWay(p, c, q)
        PROVE  LockInv'
    BY <1>t, <1>3, Parked, SMTT(30) DEF ForkWay, AllocTake, SetLocals, AllocFail,
       ClearLocals, ParentSet, ChildRunnable, On, Still, lockVars, schedVars,
       handlerVars, threadVars, CpuInv, LockInv,
       HoldsProc, HoldsWait, HoldsTicks, Interruptible
  <1>4. ASSUME NEW c \in CPUs, NEW p \in Procs, NEW q \in Procs, ExitWay(p, c, q)
        PROVE  LockInv'
    BY <1>t, <1>4, SMTT(30) DEF ExitWay, TakeWait, ReparentChild, SetLocals,
       ReparentDone, BecomeZombie, ClearLocals, On, Still, lockVars, schedVars,
       handlerVars, threadVars, CpuInv, LockInv,
       HoldsProc, HoldsWait, HoldsTicks, Interruptible
  <1>5. ASSUME NEW c \in CPUs, NEW p \in Procs, NEW q \in Procs, WakeWay(p, c, q)
        PROVE  LockInv'
    BY <1>t, <1>5, SMTT(30) DEF WakeWay, WakeSlot, SetLocals, WakeDone, On, Still,
       lockVars, schedVars, handlerVars, threadVars, CpuInv, LockInv, HoldsProc,
       HoldsWait, HoldsTicks, Interruptible
  <1>6. ASSUME NEW c \in CPUs, NEW p \in Procs, NEW q \in Procs, WaitWay(p, c, q)
        PROVE  LockInv'
    BY <1>t, <1>6, SMTT(30) DEF WaitWay, WaitNext, SetLocals, WaitReap,
       ClearLocals, WaitReturn, WaitSleep, On, Still, lockVars, schedVars,
       handlerVars, threadVars, CpuInv, LockInv,
       HoldsProc, HoldsWait, HoldsTicks, Interruptible
  <1>7. ASSUME NEW c \in CPUs, NEW p \in Procs, TimedWay(p, c) PROVE LockInv'
    BY <1>t, <1>7, SMTT(30) DEF TimedWay, SleepStart, SetLocals, SleepOver,
       ClearLocals, SleepMore, On, Still, lockVars, schedVars, handlerVars,
       threadVars, CpuInv, LockInv,
       HoldsProc, HoldsWait, HoldsTicks, Interruptible
  <1>8. ASSUME NEW c \in CPUs, NEW p \in Procs, SleepWay(p, c) PROVE LockInv'
    BY <1>t, <1>8, SMTT(30) DEF SleepWay, LockSelf, FallAsleep, Awake, RelockTicks,
       SetLocals, RelockWait, On, Still, lockVars, schedVars, handlerVars,
       threadVars, CpuInv, LockInv,
       HoldsProc, HoldsWait, HoldsTicks, Interruptible
  <1>9. ASSUME NEW c \in CPUs, NEW p \in Procs, SwitchWay(p, c) PROVE LockInv'
    <2>1. CASE YieldLock(p, c)
      BY <1>t, <2>1, SMTT(30) DEF YieldLock, On, Still, lockVars, schedVars,
         handlerVars, threadVars, CpuInv, LockInv, HoldsProc, HoldsWait,
         HoldsTicks, Interruptible
    <2>2. CASE SwitchAway(p, c)
      BY <1>t, <2>2, SMTT(30) DEF SwitchAway, On, Still, lockVars, schedVars,
         handlerVars, threadVars, CpuInv, LockInv, HoldsProc, HoldsWait,
         HoldsTicks, Interruptible
    <2>3. CASE YieldReturn(p, c)
      BY <1>t, <2>3, SMTT(30) DEF YieldReturn, On, Still, lockVars, schedVars,
         handlerVars, threadVars, CpuInv, LockInv, HoldsProc, HoldsWait,
         HoldsTicks, Interruptible
    <2>4. CASE FirstRun(p, c)
      BY <1>t, <2>4, SMTT(30) DEF FirstRun, On, Still, lockVars, schedVars,
         handlerVars, threadVars, CpuInv, LockInv, HoldsProc, HoldsWait,
         HoldsTicks, Interruptible
    <2> QED  BY <1>9, <2>1, <2>2, <2>3, <2>4, Zenon DEF SwitchWay
  <1>10. ASSUME NEW c \in CPUs, NEW p \in Procs, SchedWay(c, p) PROVE LockInv'
    <2>1. CASE SwitchTo(c, p)
      <3>1. /\ pc[p] \in {"forkret", "yielded", "slept"}
            /\ \A d \in CPUs : si[d] = p => spc[d] = "scan"
        BY <2>1, Parked, Zenon DEF SwitchTo, Off
      <3> QED
        BY <2>1, <1>t, <3>1 DEF SwitchTo, handlerVars, threadVars, CpuInv, LockInv,
           HoldsProc, HoldsWait, HoldsTicks
    <2> QED
      BY <1>t, <1>10, <2>1, SMTT(30) DEF SchedWay, NextSlotOf, SwitchedBack, On,
         Still, lockVars, schedVars, handlerVars, threadVars, CpuInv, LockInv,
         HoldsProc, HoldsWait, HoldsTicks, Interruptible
  <1>11. ASSUME NEW c \in CPUs, NEW q \in Procs, ClockWay(c, q) PROVE LockInv'
    BY <1>t, <1>11, SMTT(30) DEF ClockWay, TimerTaken, Tick, TickSlot, TickDone,
       On, Still, lockVars, schedVars, handlerVars, threadVars, CpuInv, LockInv,
       HoldsProc, HoldsWait, HoldsTicks, Interruptible
  <1>12. ASSUME NEW c \in CPUs, NEW p \in Procs, TrapWay(c, p) PROVE LockInv'
    BY <1>t, <1>12, SMTT(30) DEF TrapWay, HandlerDone, HandlerExit, HandlerYield,
       On, Still, lockVars, schedVars, handlerVars, threadVars, CpuInv, LockInv,
       HoldsProc, HoldsWait, HoldsTicks, Interruptible
  <1>13. ASSUME UNCHANGED vars PROVE LockInv'
    BY <1>t, <1>13 DEF vars, lockVars, schedVars, handlerVars, threadVars, CpuInv,
       LockInv, HoldsProc, HoldsWait, HoldsTicks, Interruptible
  <1>14. ASSUME NEW c \in CPUs, NEW p \in Procs, NEW q \in Procs, IoWay(p, c, q)
         PROVE  LockInv'
    <2>1. CASE TakeFault(p, c)
      BY <1>t, <2>1, IoNumbers, SMTT(30) DEF TakeFault, On, Still, lockVars,
         schedVars, handlerVars, threadVars, CpuInv, LockInv, HoldsProc,
         HoldsWait, HoldsTicks
    <2>2. CASE StartIo(p, c)
      <3>1. /\ ~HoldsProc(p) /\ ~HoldsWait(p) /\ ~HoldsTicks(p)
            /\ ~HoldsProc(p)' /\ ~HoldsWait(p)' /\ ~HoldsTicks(p)'
        BY <1>t, <2>2, IoNumbers, Zenon DEF StartIo, SetLocals, On, HoldsProc, HoldsWait,
           HoldsTicks
      <3>2. \A r \in Procs \ {p} :
              /\ HoldsProc(r)' = HoldsProc(r) /\ HoldsWait(r)' = HoldsWait(r)
              /\ HoldsTicks(r)' = HoldsTicks(r)
        BY <1>t, <2>2, Zenon DEF StartIo, SetLocals, HoldsProc, HoldsWait, HoldsTicks
      <3> QED  BY <1>t, <2>2, <3>1, <3>2, SMTT(30) DEF StartIo, On, Still, lockVars,
                  schedVars, handlerVars, LockInv, CpuInv
    <2>3. CASE EndIo(p, c)
      <3>1. /\ ~HoldsProc(p) /\ ~HoldsWait(p) /\ ~HoldsTicks(p)
            /\ ~HoldsProc(p)' /\ ~HoldsWait(p)' /\ ~HoldsTicks(p)'
        BY <1>t, <2>3, IoNumbers, Zenon DEF EndIo, ClearLocals, SetLocals, On, HoldsProc, HoldsWait,
           HoldsTicks
      <3>2. \A r \in Procs \ {p} :
              /\ HoldsProc(r)' = HoldsProc(r) /\ HoldsWait(r)' = HoldsWait(r)
              /\ HoldsTicks(r)' = HoldsTicks(r)
        BY <1>t, <2>3, Zenon DEF EndIo, ClearLocals, SetLocals, HoldsProc, HoldsWait, HoldsTicks
      <3> QED  BY <1>t, <2>3, <3>1, <3>2, SMTT(30) DEF EndIo, ClearLocals, On, Still, lockVars,
                  schedVars, handlerVars, LockInv, CpuInv
    <2>4. CASE WakeIo(q)
      BY <1>t, <2>4, IoNumbers, SMTT(30) DEF WakeIo, lockVars, schedVars,
         handlerVars, threadVars, CpuInv, LockInv, HoldsProc, HoldsWait,
         HoldsTicks
    <2> QED  BY <1>14, <2>1, <2>2, <2>3, <2>4, Zenon DEF IoWay
  <1> QED
    BY <1>1, <1>2, <1>3, <1>4, <1>5, <1>6, <1>7, <1>8, <1>9, <1>10, <1>11, <1>12,
       <1>13, <1>14, Zenon DEF AnyWay

\* A step of one thread, and of slots that no CPU executes.
LEMMA RunFrame ==
  ASSUME RunInv, NEW p \in Procs, UNCHANGED <<si, spc>>, si \in [CPUs -> Procs],
         state'[p] = StateAt(pc'[p]), pc'[p] # "zombie_exit",
         \A d \in CPUs : spc[d] = "run" /\ si[d] # p =>
           state'[si[d]] = state[si[d]] /\ pc'[si[d]] = pc[si[d]]
  PROVE  RunInv'
  BY Zenon DEF RunInv

\* The state of a process agrees with the step of its thread.
LEMMA RunStep ==
  ASSUME IInv, AnyWay
  PROVE  RunInv'
  <1>t. /\ state \in [Procs -> States] /\ spc \in [CPUs -> {"scan", "run", "back"}]
        /\ si \in [CPUs -> Procs] /\ pc \in [Procs -> PCs]
        /\ saved \in [Procs -> Interruptible]
        /\ CpuInv /\ RunInv
    BY Zenon DEF IInv, TypeOK, ProcType, CpuType, ThreadType
  <1>1. ASSUME NEW c \in CPUs, NEW p \in Procs, NEW to \in PCs,
               NEW k \in Nat, CallWay(p, c, to, k)
        PROVE  RunInv'
    BY <1>t, <1>1, SMTT(30) DEF CallWay, Hop, CallKill, CallSleep, On, Still,
       procVars, schedVars, threadVars, CpuInv, RunInv, StateAt, Interruptible
  <1>2. ASSUME NEW c \in CPUs, NEW p \in Procs, NEW q \in Procs, ScanWay(p, c, q)
        PROVE  RunInv'
    <2>1. CASE ScanNext(p, c) \/ ScanReturn(p, c)
      <3>1. /\ UNCHANGED <<si, spc>>
            /\ \A r \in Procs \ {p} : state'[r] = state[r] /\ pc'[r] = pc[r]
        BY <1>t, <2>1, Zenon DEF ScanNext, ScanReturn, Still, procVars, schedVars
      <3>2. state'[p] = StateAt(pc'[p]) /\ pc'[p] # "zombie_exit"
        BY <1>t, <2>1, Executing, Zenon DEF ScanNext, ScanReturn, On, procVars, StateAt
      <3> QED  BY <1>t, <3>1, <3>2, RunFrame, Zenon
    <2>2. CASE KillFound(p, c, q)
      <3>1. state[q] # "RUNNING" => \A d \in CPUs : spc[d] = "run" => si[d] # q
        BY <2>2, Parked, Zenon DEF KillFound
      <3>2. /\ UNCHANGED <<si, spc>>
            /\ \A r \in Procs \ {p} : pc'[r] = pc[r]
            /\ \A r \in Procs \ {q} : state'[r] = state[r]
            /\ state[q] = "RUNNING" => state'[q] = "RUNNING"
        BY <1>t, <2>2, Zenon DEF KillFound, Still, schedVars
      <3>3. state[p] = "RUNNING" /\ pc'[p] = "ret"
        BY <1>t, <2>2, Executing, Zenon DEF KillFound, On, StateAt
      <3>4. state'[p] = StateAt(pc'[p]) /\ pc'[p] # "zombie_exit"
        BY <3>2, <3>3, Zenon DEF StateAt
      <3>5. \A d \in CPUs : spc[d] = "run" /\ si[d] # p =>
              state'[si[d]] = state[si[d]] /\ pc'[si[d]] = pc[si[d]]
        <4> SUFFICES ASSUME NEW d \in CPUs, spc[d] = "run", si[d] # p
                     PROVE  state'[si[d]] = state[si[d]] /\ pc'[si[d]] = pc[si[d]]
          OBVIOUS
        <4>1. si[d] \in Procs
          BY <1>t, Zenon
        <4> QED  BY <4>1, <3>1, <3>2, Zenon
      <3> QED  BY <1>t, <3>2, <3>4, <3>5, RunFrame, Zenon
    <2> QED  BY <1>2, <2>1, <2>2, Zenon DEF ScanWay
  <1>3. ASSUME NEW c \in CPUs, NEW p \in Procs, NEW q \in Procs, ForkWay(p, c, q)
        PROVE  RunInv'
    BY <1>t, <1>3, Parked, Forked, SMTT(30) DEF ForkWay, AllocTake, AllocFail,
       freeproc, ParentSet, ChildRunnable, On, Still, procVars, schedVars,
       threadVars, CpuInv, RunInv, StateAt, Interruptible
  <1>4. ASSUME NEW c \in CPUs, NEW p \in Procs, NEW q \in Procs, ExitWay(p, c, q)
        PROVE  RunInv'
    <2>1. /\ UNCHANGED <<si, spc>>
          /\ \A r \in Procs \ {p} : state'[r] = state[r] /\ pc'[r] = pc[r]
      <3>1. UNCHANGED <<si, spc>>
        BY <1>4, Zenon DEF ExitWay, TakeWait, ReparentChild, ReparentDone,
           BecomeZombie, Still, schedVars
      <3>2. \A r \in Procs \ {p} : state'[r] = state[r]
        BY <1>t, <1>4, Zenon DEF ExitWay, TakeWait, ReparentChild, ReparentDone,
           BecomeZombie, procVars
      <3>3. \A r \in Procs \ {p} : pc'[r] = pc[r]
        BY <1>t, <1>4, Zenon DEF ExitWay, TakeWait, ReparentChild, ReparentDone,
           BecomeZombie
      <3> QED  BY <3>1, <3>2, <3>3, Zenon
    <2>2. state[p] = "RUNNING"
      BY <1>4, Executing, Zenon DEF ExitWay, TakeWait, ReparentChild, ReparentDone,
         BecomeZombie, On, StateAt
    <2>3. \/ pc'[p] \in {"reparent", "wait_scan", "wakeup"} /\ state' = state
          \/ pc'[p] = "sched_zombie" /\ state'[p] = "ZOMBIE"
      <3>1. CASE BecomeZombie(p, c)
        BY <1>t, <3>1, Zenon DEF BecomeZombie
      <3>2. CASE TakeWait(p, c)
        BY <1>t, <3>2, Zenon DEF TakeWait, procVars
      <3>3. CASE ReparentChild(p, c, q)
        BY <1>t, <3>3, Zenon DEF ReparentChild
      <3>4. CASE ReparentDone(p, c)
        BY <1>t, <3>4, Zenon DEF ReparentDone, procVars
      <3> QED  BY <1>4, <3>1, <3>2, <3>3, <3>4, Zenon DEF ExitWay
    <2>4. state'[p] = StateAt(pc'[p]) /\ pc'[p] # "zombie_exit"
      BY <2>2, <2>3, Zenon DEF StateAt
    <2> QED  BY <1>t, <2>1, <2>4, RunFrame, Zenon
  <1>5. ASSUME NEW c \in CPUs, NEW p \in Procs, NEW q \in Procs, WakeWay(p, c, q)
        PROVE  RunInv'
    <2>1. CASE WakeSlot(p, c, q)
      <3>1. /\ \A r \in Procs \ {q} : state'[r] = state[r]
            /\ state'[q] = state[q] \/ (q # p /\ \A d \in CPUs : spc[d] = "run" => si[d] # q)
        <4>1. \A r \in Procs \ {q} : state'[r] = state[r]
          BY <1>t, <2>1, Zenon DEF WakeSlot, Awaken
        <4>2. state'[q] = state[q] \/ (q # p /\ plock[q] = None /\ state[q] = "SLEEPING")
          BY <1>t, <2>1, Zenon DEF WakeSlot, Awaken
        <4> QED  BY <4>1, <4>2, Parked, Zenon
      <3>2. UNCHANGED <<si, spc, pc>> /\ state[p] = StateAt(pc[p]) /\ pc[p] # "zombie_exit"
        BY <2>1, Executing, Zenon DEF WakeSlot, On, Still, schedVars
      <3> QED  BY <1>t, <3>1, <3>2, RunFrame, Zenon
    <2>2. CASE WakeDone(p, c)
      <3>1. /\ UNCHANGED <<si, spc, state>> /\ pc'[p] \in {"zombie", "reparent"}
            /\ \A r \in Procs \ {p} : pc'[r] = pc[r]
            /\ state[p] = "RUNNING"
        BY <1>t, <2>2, Executing, Zenon DEF WakeDone, On, Still, procVars, schedVars, StateAt
      <3>2. state'[p] = StateAt(pc'[p]) /\ pc'[p] # "zombie_exit"
        BY <3>1, Zenon DEF StateAt
      <3> QED  BY <1>t, <3>1, <3>2, RunFrame, Zenon
    <2> QED  BY <1>5, <2>1, <2>2, Zenon DEF WakeWay
  <1>6. ASSUME NEW c \in CPUs, NEW p \in Procs, NEW q \in Procs, WaitWay(p, c, q)
        PROVE  RunInv'
    <2>1. CASE WaitReap(p, c, q)
      <3>1. \A d \in CPUs : spc[d] = "run" => si[d] # q
        BY <2>1, Parked, Zenon DEF WaitReap
      <3>2. /\ UNCHANGED <<si, spc>> /\ pc'[p] = "ret"
            /\ \A r \in Procs \ {p} : pc'[r] = pc[r]
            /\ \A r \in Procs \ {q} : state'[r] = state[r]
        BY <1>t, <2>1, Zenon DEF WaitReap, freeproc, Still, schedVars
      <3>3. state[p] = "RUNNING" /\ q # p
        BY <2>1, Executing, Zenon DEF WaitReap, On, StateAt
      <3>4. state'[p] = StateAt(pc'[p]) /\ pc'[p] # "zombie_exit"
        BY <3>2, <3>3, Zenon DEF StateAt
      <3>5. \A d \in CPUs : spc[d] = "run" /\ si[d] # p =>
              state'[si[d]] = state[si[d]] /\ pc'[si[d]] = pc[si[d]]
        <4> SUFFICES ASSUME NEW d \in CPUs, spc[d] = "run", si[d] # p
                     PROVE  state'[si[d]] = state[si[d]] /\ pc'[si[d]] = pc[si[d]]
          OBVIOUS
        <4>1. si[d] \in Procs
          BY <1>t, Zenon
        <4> QED  BY <4>1, <3>1, <3>2, Zenon
      <3> QED  BY <1>t, <3>2, <3>4, <3>5, RunFrame, Zenon
    <2>2. CASE WaitNext(p, c, q) \/ WaitReturn(p, c) \/ WaitSleep(p, c)
      <3>1. /\ UNCHANGED <<si, spc, state>> /\ pc'[p] \in {"wait_scan", "ret", "sleep"}
            /\ \A r \in Procs \ {p} : pc'[r] = pc[r]
        BY <1>t, <2>2, Zenon DEF WaitNext, WaitReturn, WaitSleep, On, Still, procVars,
           schedVars
      <3>2. state[p] = "RUNNING"
        BY <2>2, Executing, Zenon DEF WaitNext, WaitReturn, WaitSleep, On, StateAt
      <3>3. state'[p] = StateAt(pc'[p]) /\ pc'[p] # "zombie_exit"
        BY <3>1, <3>2, Zenon DEF StateAt
      <3> QED  BY <1>t, <3>1, <3>3, RunFrame, Zenon
    <2> QED  BY <1>6, <2>1, <2>2, Zenon DEF WaitWay
  <1>7. ASSUME NEW c \in CPUs, NEW p \in Procs, TimedWay(p, c) PROVE RunInv'
    <2>1. /\ UNCHANGED <<si, spc>>
          /\ \A r \in Procs \ {p} : state'[r] = state[r] /\ pc'[r] = pc[r]
      BY <1>t, <1>7, Zenon DEF TimedWay, SleepStart, SleepOver, SleepMore, Still,
         procVars, schedVars
    <2>2. state'[p] = StateAt(pc'[p]) /\ pc'[p] # "zombie_exit"
      BY <1>t, <1>7, Executing, Zenon DEF TimedWay, SleepStart, SleepOver,
         SleepMore, On, procVars, StateAt
    <2> QED  BY <1>t, <2>1, <2>2, RunFrame, Zenon
  <1>8. ASSUME NEW c \in CPUs, NEW p \in Procs, SleepWay(p, c) PROVE RunInv'
    <2>1. /\ UNCHANGED <<si, spc>>
          /\ \A r \in Procs \ {p} : state'[r] = state[r] /\ pc'[r] = pc[r]
      <3>1. UNCHANGED <<si, spc>>
        BY <1>8, Zenon DEF SleepWay, LockSelf, FallAsleep, Awake, RelockTicks,
           RelockWait, Still, schedVars
      <3>2. \A r \in Procs \ {p} : state'[r] = state[r]
        BY <1>t, <1>8, Zenon DEF SleepWay, LockSelf, FallAsleep, Awake,
           RelockTicks, RelockWait, procVars
      <3>3. \A r \in Procs \ {p} : pc'[r] = pc[r]
        BY <1>t, <1>8, Zenon DEF SleepWay, LockSelf, FallAsleep, Awake,
           RelockTicks, RelockWait
      <3> QED  BY <3>1, <3>2, <3>3, Zenon
    <2>2. state[p] = "RUNNING"
      BY <1>8, Executing, Zenon DEF SleepWay, LockSelf, FallAsleep, Awake, RelockTicks,
         RelockWait, On, StateAt
    <2>3. \/ /\ pc'[p] \in {"sleep_release", "reacquire", "sys_sleep_loop", "wait_scan"}
             /\ state' = state
          \/ pc'[p] = "sched_sleep" /\ state'[p] = "SLEEPING"
      <3>1. CASE FallAsleep(p, c)
        BY <1>t, <3>1, Zenon DEF FallAsleep
      <3>2. CASE LockSelf(p, c)
        BY <1>t, <3>2, Zenon DEF LockSelf, procVars
      <3>3. CASE Awake(p, c)
        BY <1>t, <3>3, Zenon DEF Awake
      <3>4. CASE RelockTicks(p, c)
        BY <1>t, <3>4, Zenon DEF RelockTicks, procVars
      <3>5. CASE RelockWait(p, c)
        BY <1>t, <3>5, Zenon DEF RelockWait, procVars
      <3> QED  BY <1>8, <3>1, <3>2, <3>3, <3>4, <3>5, Zenon DEF SleepWay
    <2>4. state'[p] = StateAt(pc'[p]) /\ pc'[p] # "zombie_exit"
      BY <2>2, <2>3, Zenon DEF StateAt
    <2> QED  BY <1>t, <2>1, <2>4, RunFrame, Zenon
  <1>9. ASSUME NEW c \in CPUs, NEW p \in Procs, SwitchWay(p, c) PROVE RunInv'
    <2>1. CASE YieldLock(p, c)
      BY <1>t, <2>1, Zenon DEF YieldLock, On, Still, procVars, schedVars,
         threadVars, CpuInv, RunInv, StateAt, Interruptible
    <2>2. CASE SwitchAway(p, c)
      <3>1. /\ UNCHANGED <<si, state>> /\ spc'[c] = "back" /\ si[c] = p
            /\ \A r \in Procs \ {p} : pc'[r] = pc[r]
            /\ \A d \in CPUs \ {c} : spc'[d] = spc[d]
        BY <1>t, <2>2, Zenon DEF SwitchAway, On, procVars
      <3>2. \A d \in CPUs \ {c} : spc[d] = "run" => si[d] # p
        BY <1>t, <2>2, Zenon DEF SwitchAway, On, CpuInv
      <3> QED  BY <1>t, <3>1, <3>2, Zenon DEF RunInv
    <2>3. CASE YieldReturn(p, c)
      <3>1. /\ UNCHANGED <<si, spc, state>> /\ pc'[p] = saved[p]
            /\ \A r \in Procs \ {p} : pc'[r] = pc[r]
        BY <1>t, <2>3, Zenon DEF YieldReturn, procVars, schedVars
      <3>2. state[p] = "RUNNING"
        BY <2>3, Executing, Zenon DEF YieldReturn, On, StateAt
      <3>3. saved[p] \notin {"sched_yield", "sched_sleep", "sched_zombie", "zombie_exit"}
        BY <1>t, Zenon DEF Interruptible
      <3>4. state'[p] = StateAt(pc'[p]) /\ pc'[p] # "zombie_exit"
        BY <3>1, <3>2, <3>3, Zenon DEF StateAt
      <3> QED  BY <1>t, <3>1, <3>4, RunFrame, Zenon
    <2>4. CASE FirstRun(p, c)
      BY <1>t, <2>4, Zenon DEF FirstRun, On, Still, procVars, schedVars,
         threadVars, CpuInv, RunInv, StateAt, Interruptible
    <2> QED  BY <1>9, <2>1, <2>2, <2>3, <2>4, Zenon DEF SwitchWay
  <1>10. ASSUME NEW c \in CPUs, NEW p \in Procs, SchedWay(c, p) PROVE RunInv'
    <2>1. CASE SwitchTo(c, p)
      <3>1. /\ spc[c] = "scan" /\ si[c] = p /\ state'[p] = "RUNNING" /\ UNCHANGED <<si, pc>>
            /\ \A r \in Procs \ {p} : state'[r] = state[r]
            /\ \A d \in CPUs \ {c} : spc'[d] = spc[d]
        BY <1>t, <2>1, Zenon DEF SwitchTo, threadVars
      <3>2. pc[p] \in {"forkret", "yielded", "slept"} /\ \A d \in CPUs : si[d] = p => spc[d] = "scan"
        BY <2>1, Parked, Zenon DEF SwitchTo, Off
      <3> QED  BY <1>t, <3>1, <3>2, Zenon DEF RunInv, StateAt
    <2>2. CASE NextSlotOf(c, p) \/ SwitchedBack(c, p)
      <3>1. /\ UNCHANGED <<state, pc>> /\ spc'[c] = "scan"
            /\ \A d \in CPUs \ {c} : si'[d] = si[d] /\ spc'[d] = spc[d]
        BY <1>t, <2>2, Zenon DEF NextSlotOf, SwitchedBack, procVars, threadVars
      <3> QED  BY <1>t, <3>1, Zenon DEF RunInv
    <2> QED  BY <1>10, <2>1, <2>2, Zenon DEF SchedWay
  <1>11. ASSUME NEW c \in CPUs, NEW q \in Procs, ClockWay(c, q) PROVE RunInv'
    <2>1. CASE TickSlot(c, q)
      <3>1. state' = state \/ (state[q] = "SLEEPING" /\ plock[q] = None)
        BY <2>1, <1>t, Zenon DEF TickSlot, Awaken
      <3>2. \A r \in Procs \ {q} : state'[r] = state[r]
        BY <2>1, <1>t, Zenon DEF TickSlot, Awaken
      <3>3. UNCHANGED <<spc, si, pc>>
        BY <2>1, Zenon DEF TickSlot, schedVars, threadVars
      <3>4. CASE state' = state
        BY <1>t, <3>3, <3>4, Zenon DEF RunInv
      <3>5. CASE state[q] = "SLEEPING" /\ plock[q] = None
        BY <1>t, <3>2, <3>3, <3>5, Parked, Zenon DEF RunInv
      <3> QED  BY <3>1, <3>4, <3>5, Zenon
    <2> QED
      BY <1>t, <1>11, <2>1, SMTT(30) DEF ClockWay, TimerTaken, Tick, TickDone, On,
         Still, procVars, schedVars, threadVars, CpuInv, RunInv, StateAt,
         Interruptible
  <1>12. ASSUME NEW c \in CPUs, NEW p \in Procs, TrapWay(c, p) PROVE RunInv'
    BY <1>t, <1>12, SMTT(30) DEF TrapWay, HandlerDone, HandlerExit, HandlerYield,
       On, Still, procVars, schedVars, threadVars, CpuInv, RunInv, StateAt,
       Interruptible
  <1>13. ASSUME UNCHANGED vars PROVE RunInv'
    BY <1>t, <1>13, Zenon DEF vars, procVars, schedVars, threadVars, CpuInv,
       RunInv, StateAt, Interruptible
  <1>14. ASSUME NEW c \in CPUs, NEW p \in Procs, NEW q \in Procs, IoWay(p, c, q)
         PROVE  RunInv'
    BY <1>t, <1>14, Parked, SMTT(30) DEF IoWay, TakeFault, StartIo, SetLocals,
       EndIo, ClearLocals, WakeIo, On, Still, procVars, schedVars, threadVars,
       CpuInv, RunInv, StateAt, Interruptible
  <1> QED
    BY <1>1, <1>2, <1>3, <1>4, <1>5, <1>6, <1>7, <1>8, <1>9, <1>10, <1>11, <1>12,
       <1>13, <1>14, Zenon DEF AnyWay

\* A thread off its CPU stopped in swtch, or has not started.
LEMMA OffStep ==
  ASSUME IInv, AnyWay
  PROVE  OffInv'
  <1>t. /\ state \in [Procs -> States] /\ cproc \in [CPUs -> Procs \cup {None}]
        /\ spc \in [CPUs -> {"scan", "run", "back"}] /\ si \in [CPUs -> Procs]
        /\ pc \in [Procs -> PCs]
        /\ CpuInv /\ OffInv
    BY Zenon DEF IInv, TypeOK, ProcType, CpuType, ThreadType
  <1>1. ASSUME NEW c \in CPUs, NEW p \in Procs, NEW to \in PCs,
               NEW k \in Nat, CallWay(p, c, to, k)
        PROVE  OffInv'
    BY <1>t, <1>1, SMTT(30) DEF CallWay, Hop, CallKill, CallSleep, On, Still,
       procVars, schedVars, threadVars, CpuInv, OffInv, Off, OnCpu
  <1>2. ASSUME NEW c \in CPUs, NEW p \in Procs, NEW q \in Procs, ScanWay(p, c, q)
        PROVE  OffInv'
    BY <1>t, <1>2, SMTT(30) DEF ScanWay, ScanNext, ScanReturn, KillFound, On,
       Still, procVars, schedVars, threadVars, CpuInv, OffInv, Off, OnCpu
  <1>3. ASSUME NEW c \in CPUs, NEW p \in Procs, NEW q \in Procs, ForkWay(p, c, q)
        PROVE  OffInv'
    BY <1>t, <1>3, Parked, Forked, SMTT(30) DEF ForkWay, AllocTake, AllocFail,
       freeproc, ParentSet, ChildRunnable, On, Still, procVars, schedVars,
       threadVars, CpuInv, OffInv, Off, OnCpu
  <1>4. ASSUME NEW c \in CPUs, NEW p \in Procs, NEW q \in Procs, ExitWay(p, c, q)
        PROVE  OffInv'
    BY <1>t, <1>4, SMTT(30) DEF ExitWay, TakeWait, ReparentChild, ReparentDone,
       BecomeZombie, On, Still, procVars, schedVars, threadVars, CpuInv, OffInv,
       Off, OnCpu
  <1>5. ASSUME NEW c \in CPUs, NEW p \in Procs, NEW q \in Procs, WakeWay(p, c, q)
        PROVE  OffInv'
    BY <1>t, <1>5, SMTT(30) DEF WakeWay, WakeSlot, Awaken, WakeDone, On, Still,
       procVars, schedVars, threadVars, CpuInv, OffInv, Off, OnCpu
  <1>6. ASSUME NEW c \in CPUs, NEW p \in Procs, NEW q \in Procs, WaitWay(p, c, q)
        PROVE  OffInv'
    BY <1>t, <1>6, SMTT(30) DEF WaitWay, WaitNext, WaitReap, freeproc, WaitReturn,
       WaitSleep, On, Still, procVars, schedVars, threadVars, CpuInv, OffInv, Off,
       OnCpu
  <1>7. ASSUME NEW c \in CPUs, NEW p \in Procs, TimedWay(p, c) PROVE OffInv'
    BY <1>t, <1>7, SMTT(30) DEF TimedWay, SleepStart, SleepOver, SleepMore, On,
       Still, procVars, schedVars, threadVars, CpuInv, OffInv, Off, OnCpu
  <1>8. ASSUME NEW c \in CPUs, NEW p \in Procs, SleepWay(p, c) PROVE OffInv'
    BY <1>t, <1>8, SMTT(30) DEF SleepWay, LockSelf, FallAsleep, Awake, RelockTicks,
       RelockWait, On, Still, procVars, schedVars, threadVars, CpuInv, OffInv, Off,
       OnCpu
  <1>9. ASSUME NEW c \in CPUs, NEW p \in Procs, SwitchWay(p, c) PROVE OffInv'
    BY <1>t, <1>9, SMTT(30) DEF SwitchWay, YieldLock, SwitchAway, YieldReturn,
       FirstRun, On, Still, procVars, schedVars, threadVars, CpuInv, OffInv, Off,
       OnCpu, IInv, RunInv, StateAt
  <1>10. ASSUME NEW c \in CPUs, NEW p \in Procs, SchedWay(c, p) PROVE OffInv'
    BY <1>t, <1>10, Parked, SMTT(30) DEF SchedWay, SwitchTo, NextSlotOf,
       SwitchedBack, On, Still, procVars, schedVars, threadVars, CpuInv, OffInv,
       Off, OnCpu
  <1>11. ASSUME NEW c \in CPUs, NEW q \in Procs, ClockWay(c, q) PROVE OffInv'
    BY <1>t, <1>11, SMTT(30) DEF ClockWay, TimerTaken, Tick, TickSlot, Awaken,
       TickDone, On, Still, procVars, schedVars, threadVars, CpuInv, OffInv, Off,
       OnCpu
  <1>12. ASSUME NEW c \in CPUs, NEW p \in Procs, TrapWay(c, p) PROVE OffInv'
    BY <1>t, <1>12, SMTT(30) DEF TrapWay, HandlerDone, HandlerExit, HandlerYield,
       On, Still, procVars, schedVars, threadVars, CpuInv, OffInv, Off, OnCpu
  <1>13. ASSUME UNCHANGED vars PROVE OffInv'
    BY <1>t, <1>13, Zenon DEF vars, procVars, schedVars, threadVars, CpuInv,
       OffInv, Off, OnCpu
  <1>14. ASSUME NEW c \in CPUs, NEW p \in Procs, NEW q \in Procs, IoWay(p, c, q)
         PROVE  OffInv'
    <2>1. CASE TakeFault(p, c) \/ StartIo(p, c) \/ EndIo(p, c)
      <3>1. /\ UNCHANGED <<state, spc, cproc>> /\ OnCpu(p, c)
            /\ \A r \in Procs \ {p} : pc'[r] = pc[r]
        BY <1>t, <2>1, Zenon DEF TakeFault, StartIo, EndIo, On, Still, procVars,
           schedVars, OnCpu
      <3>2. /\ \A r \in Procs, d \in CPUs : OnCpu(r, d)' <=> OnCpu(r, d)
            /\ \A r \in Procs \ {p} : Off(r) => Off(r)'
        BY <3>1, Zenon DEF OnCpu, Off
      <3> QED  BY <1>t, <3>1, <3>2, Zenon DEF OffInv
    <2>2. CASE WakeIo(q)
      <3>1. /\ UNCHANGED <<spc, cproc, pc>> /\ state[q] = "SLEEPING" /\ state'[q] = "RUNNABLE"
            /\ \A r \in Procs \ {q} : state'[r] = state[r]
        BY <1>t, <2>2, Zenon DEF WakeIo, schedVars, threadVars
      <3>2. /\ \A r \in Procs, d \in CPUs : OnCpu(r, d)' <=> OnCpu(r, d)
            /\ \A r \in Procs \ {q} : Off(r) => Off(r)'
            /\ Off(q) => Off(q)'
        BY <3>1, Zenon DEF OnCpu, Off
      <3> QED  BY <1>t, <3>2, Zenon DEF OffInv
    <2> QED  BY <1>14, <2>1, <2>2, Zenon DEF IoWay
  <1> QED
    BY <1>1, <1>2, <1>3, <1>4, <1>5, <1>6, <1>7, <1>8, <1>9, <1>10, <1>11, <1>12,
       <1>13, <1>14, Zenon DEF AnyWay
================================================================================
