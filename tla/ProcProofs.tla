------------------------------ MODULE ProcProofs ------------------------------
(***************************************************************************)
(* What module Proc promises, for any number of slots, cores and calls: no *)
(* kernel stack is used twice, sched's checks hold, no exit and no tick is *)
(* lost, no process loses its parent, and kill reaches the process that it *)
(* names and no other.  The proofs rest on the inductive invariant IInv.   *)
(***************************************************************************)
EXTENDS Proc, ProcFamily

\* exit wakes the parent before the state changes.
LEMMA AwakeStep ==
  ASSUME IInv, AnyWay
  PROVE  ParentAwake'
  <1>t. /\ state \in [Procs -> States] /\ parent \in [Procs -> Procs \cup {None}]
        /\ chan \in [Procs -> Nat \cup {None}] /\ pc \in [Procs -> PCs]
        /\ saved \in [Procs -> Interruptible] /\ loc \in [Procs -> Locals]
        /\ ParentAwake
    BY Zenon DEF IInv, TypeOK, ProcType, ThreadType
  <1>1. ASSUME NEW c \in CPUs, NEW p \in Procs, NEW to \in PCs,
               NEW k \in Nat, CallWay(p, c, to, k)
        PROVE  ParentAwake'
    BY <1>t, <1>1, SMTT(30) DEF CallWay, Hop, CallKill, SetLocals, CallSleep, On,
       Still, procVars, threadVars, ParentAwake, Asleep
  <1>2. ASSUME NEW c \in CPUs, NEW p \in Procs, NEW q \in Procs, ScanWay(p, c, q)
        PROVE  ParentAwake'
    BY <1>t, <1>2, SMTT(30) DEF ScanWay, ScanNext, SetLocals, ScanReturn,
       ClearLocals, KillFound, On, Still, procVars, threadVars, ParentAwake, Asleep
  <1>3. ASSUME NEW c \in CPUs, NEW p \in Procs, NEW q \in Procs, ForkWay(p, c, q)
        PROVE  ParentAwake'
    <2>1. CASE ParentSet(p, c)
      <3> DEFINE np == loc[p].arg
      <3>1. np \in Procs /\ pc[np] \notin {"zombie", "wakeup"} /\ np # p
        BY <2>1, Forked, Threadless, Zenon DEF ParentSet, On
      <3>2. /\ UNCHANGED <<state, chan, loc>>
            /\ \A r \in Procs \ {np} : parent'[r] = parent[r]
            /\ \A r \in Procs \ {p} : pc'[r] = pc[r]
            /\ pc'[p] = "fork_runnable"
        BY <2>1, <1>t, <3>1, Zenon DEF ParentSet
      <3> QED  BY <1>t, <3>1, <3>2 DEF ParentAwake, Asleep
    <2> QED
      BY <1>t, <1>3, <2>1, Numbers, SMTT(30) DEF ForkWay, AllocTake, SetLocals,
         AllocFail, freeproc, ClearLocals, ChildRunnable, On, Still, procVars,
         threadVars, ParentAwake, Asleep
  <1>4. ASSUME NEW c \in CPUs, NEW p \in Procs, NEW q \in Procs, ExitWay(p, c, q)
        PROVE  ParentAwake'
    <2>1. CASE ReparentChild(p, c, q)
      <3>1. HoldsWait(p) /\ ~loc[p].flag /\ p # q
        BY <2>1, Zenon DEF ReparentChild, On, HoldsWait, IInv, LocInv, NextChild,
           FamilyInv
      <3>2. \A r \in Procs \ {p} : pc[r] \notin {"wakeup", "zombie"}
        BY <2>1, <3>1, WaitHolder, Zenon DEF HoldsWait
      <3>3. /\ \A r \in Procs \ {p} : pc'[r] = pc[r]
            /\ pc'[p] = "wakeup" /\ ~loc'[p].flag
        BY <2>1, <1>t, <3>1, Zenon DEF ReparentChild, SetLocals
      <3> QED  BY <3>2, <3>3, Zenon DEF ParentAwake
    <2>2. CASE ReparentDone(p, c)
      <3>1. loc[p].w = 1
        BY <2>2, Zenon DEF ReparentDone, On, IInv, LocInv
      <3>2. /\ \A r \in Procs \ {p} : pc'[r] = pc[r] /\ loc'[r] = loc[r]
            /\ pc'[p] = "wakeup" /\ loc'[p].w = 1 /\ loc'[p].chan = parent[p]
            /\ UNCHANGED <<state, chan, parent>>
        BY <2>2, <1>t, <3>1, Zenon DEF ReparentDone, SetLocals, procVars
      <3> QED  BY <1>t, <3>2, Numbers DEF ParentAwake, Asleep
    <2> QED
      BY <1>t, <1>4, <2>1, <2>2, SMTT(30) DEF ExitWay, TakeWait, BecomeZombie,
         ClearLocals, SetLocals, On, Still, procVars, threadVars, ParentAwake,
         Asleep
  <1>5. ASSUME NEW c \in CPUs, NEW p \in Procs, NEW q \in Procs, WakeWay(p, c, q)
        PROVE  ParentAwake'
    <2>1. CASE WakeSlot(p, c, q)
      <3>1. /\ \A r \in Procs \ {p} : loc'[r] = loc[r]
            /\ loc'[p].chan = loc[p].chan /\ loc'[p].w = q + 1 /\ loc'[p].flag = loc[p].flag
            /\ pc[p] = "wakeup" /\ loc[p].w = q
            /\ UNCHANGED <<chan, parent, pc>>
        BY <2>1, Zenon DEF WakeSlot, SetLocals, On
      <3>2. \A r \in Procs : Asleep(r)' => Asleep(r)
        BY <2>1, <1>t, Zenon DEF WakeSlot, Awaken, Asleep
      <3>3. loc[p].chan = q /\ q # p => ~Asleep(q)'
        BY <2>1, <1>t, Zenon DEF WakeSlot, Awaken, Asleep
      <3>4. parent[p] # p
        BY <2>1, Zenon DEF IInv, FamilyInv
      <3>5. \A a \in Procs : a < q + 1 => a < q \/ a = q
        BY Numbers
      <3> QED  BY <1>t, <3>1, <3>2, <3>3, <3>4, <3>5 DEF ParentAwake
    <2>2. CASE WakeDone(p, c)
      <3>1. /\ UNCHANGED <<state, chan, parent>>
            /\ \A r \in Procs \ {p} : pc'[r] = pc[r] /\ loc'[r] = loc[r]
            /\ pc[p] = "wakeup"
            /\ pc'[p] = "reparent" \/ (pc'[p] = "zombie" /\ loc[p].flag)
        BY <2>2, <1>t, Zenon DEF WakeDone, On, procVars, SetLocals
      <3>2. \A a \in Procs : a < loc[p].w
        <4>1. loc[p].w > NPROC /\ loc[p].w \in Nat
          BY <2>2, <1>t, FieldTypes DEF WakeDone
        <4>2. NPROC \in Nat
          BY ProcAssumption
        <4> QED  BY <4>1, <4>2 DEF Procs
      <3> QED  BY <1>t, <3>1, <3>2 DEF ParentAwake, Asleep
    <2> QED  BY <1>5, <2>1, <2>2, Zenon DEF WakeWay
  <1>6. ASSUME NEW c \in CPUs, NEW p \in Procs, NEW q \in Procs, WaitWay(p, c, q)
        PROVE  ParentAwake'
    BY <1>t, <1>6, Numbers, SMTT(30) DEF WaitWay, WaitNext, SetLocals, WaitReap,
       freeproc, ClearLocals, WaitReturn, WaitSleep, On, Still, procVars,
       threadVars, ParentAwake, Asleep
  <1>7. ASSUME NEW c \in CPUs, NEW p \in Procs, TimedWay(p, c) PROVE ParentAwake'
    BY <1>t, <1>7, SMTT(30) DEF TimedWay, SleepStart, SetLocals, SleepOver,
       ClearLocals, SleepMore, On, Still, procVars, threadVars, ParentAwake, Asleep
  <1>8. ASSUME NEW c \in CPUs, NEW p \in Procs, SleepWay(p, c) PROVE ParentAwake'
    <2>1. CASE FallAsleep(p, c)
      <3>1. /\ UNCHANGED <<parent, loc>>
            /\ \A r \in Procs \ {p} : pc'[r] = pc[r] /\ state'[r] = state[r] /\ chan'[r] = chan[r]
            /\ pc'[p] = "sched_sleep" /\ chan'[p] = loc[p].chan
        BY <2>1, <1>t, Zenon DEF FallAsleep
      <3>2. loc[p].chan = p => HoldsWait(p)
        BY <2>1, Numbers, Zenon DEF FallAsleep, On, HoldsWait
      <3>3. loc[p].chan = p => \A r \in Procs \ {p} : pc[r] \notin {"wakeup", "zombie"}
        BY <3>2, WaitHolder, Zenon DEF HoldsWait
      <3> QED  BY <1>t, <3>1, <3>3 DEF ParentAwake, Asleep
    <2> QED
      BY <1>t, <1>8, <2>1, Numbers, SMTT(30) DEF SleepWay, LockSelf, Awake,
         RelockTicks, SetLocals, RelockWait, On, Still, procVars, threadVars,
         ParentAwake, Asleep
  <1>9. ASSUME NEW c \in CPUs, NEW p \in Procs, SwitchWay(p, c) PROVE ParentAwake'
    BY <1>t, <1>9, SMTT(30) DEF SwitchWay, YieldLock, SwitchAway, YieldReturn,
       FirstRun, On, Still, procVars, threadVars, ParentAwake, Asleep,
       Interruptible
  <1>10. ASSUME NEW c \in CPUs, NEW p \in Procs, SchedWay(c, p) PROVE ParentAwake'
    BY <1>t, <1>10, SMTT(30) DEF SchedWay, SwitchTo, NextSlotOf, SwitchedBack, On,
       Still, procVars, threadVars, ParentAwake, Asleep
  <1>11. ASSUME NEW c \in CPUs, NEW q \in Procs, ClockWay(c, q) PROVE ParentAwake'
    BY <1>t, <1>11, SMTT(30) DEF ClockWay, TimerTaken, Tick, TickSlot, Awaken,
       TickDone, On, Still, procVars, threadVars, ParentAwake, Asleep
  <1>12. ASSUME NEW c \in CPUs, NEW p \in Procs, TrapWay(c, p) PROVE ParentAwake'
    BY <1>t, <1>12, SMTT(30) DEF TrapWay, HandlerDone, HandlerExit, HandlerYield,
       On, Still, procVars, threadVars, ParentAwake, Asleep
  <1>13. ASSUME UNCHANGED vars PROVE ParentAwake'
    BY <1>t, <1>13, Zenon DEF vars, procVars, threadVars, ParentAwake, Asleep
  <1>14. ASSUME NEW c \in CPUs, NEW p \in Procs, NEW q \in Procs, IoWay(p, c, q)
         PROVE  ParentAwake'
    BY <1>t, <1>14, IoNumbers, SMTT(30) DEF IoWay, TakeFault, StartIo, SetLocals,
       EndIo, ClearLocals, WakeIo, On, Still, procVars, threadVars, ParentAwake,
       Asleep
  <1> QED
    BY <1>1, <1>2, <1>3, <1>4, <1>5, <1>6, <1>7, <1>8, <1>9, <1>10, <1>11, <1>12,
       <1>13, <1>14, Zenon DEF AnyWay

\* wait sleeps only after it has seen every child.
LEMMA MissedStep ==
  ASSUME IInv, AnyWay
  PROVE  NoneMissed'
  <1>t. /\ state \in [Procs -> States] /\ parent \in [Procs -> Procs \cup {None}]
        /\ pc \in [Procs -> PCs] /\ saved \in [Procs -> Interruptible]
        /\ loc \in [Procs -> Locals]
        /\ NoneMissed
    BY Zenon DEF IInv, TypeOK, ProcType, ThreadType
  <1>1. ASSUME NEW c \in CPUs, NEW p \in Procs, NEW to \in PCs,
               NEW k \in Nat, CallWay(p, c, to, k)
        PROVE  NoneMissed'
    BY <1>t, <1>1, SMTT(30) DEF CallWay, Hop, CallKill, SetLocals, CallSleep, On,
       Still, procVars, threadVars, NoneMissed
  <1>2. ASSUME NEW c \in CPUs, NEW p \in Procs, NEW q \in Procs, ScanWay(p, c, q)
        PROVE  NoneMissed'
    BY <1>t, <1>2, SMTT(30) DEF ScanWay, ScanNext, SetLocals, ScanReturn,
       ClearLocals, KillFound, On, Still, procVars, threadVars, NoneMissed
  <1>3. ASSUME NEW c \in CPUs, NEW p \in Procs, NEW q \in Procs, ForkWay(p, c, q)
        PROVE  NoneMissed'
    BY <1>t, <1>3, SMTT(30) DEF ForkWay, AllocTake, SetLocals, AllocFail, freeproc,
       ClearLocals, ParentSet, ChildRunnable, On, Still, procVars, threadVars,
       NoneMissed
  <1>4. ASSUME NEW c \in CPUs, NEW p \in Procs, NEW q \in Procs, ExitWay(p, c, q)
        PROVE  NoneMissed'
    <2>1. CASE ReparentChild(p, c, q)
      <3>1. HoldsWait(p)
        BY <2>1, Zenon DEF ReparentChild, On, HoldsWait
      <3>2. \A r \in Procs \ {p} : ~HoldsWait(r)
        BY <3>1, WaitHolder, Zenon
      <3>3. /\ \A r \in Procs \ {p} : pc'[r] = pc[r] /\ loc'[r] = loc[r]
            /\ pc'[p] = "wakeup"
        BY <2>1, <1>t, Zenon DEF ReparentChild, SetLocals
      <3> QED  BY <3>2, <3>3, Numbers DEF NoneMissed, HoldsWait
    <2>2. CASE BecomeZombie(p, c)
      <3>1. HoldsWait(p)
        BY <2>2, Zenon DEF BecomeZombie, On, HoldsWait
      <3>2. \A r \in Procs \ {p} : ~HoldsWait(r)
        BY <3>1, WaitHolder, Zenon
      <3>3. /\ \A r \in Procs \ {p} : pc'[r] = pc[r] /\ loc'[r] = loc[r]
            /\ pc'[p] = "sched_zombie"
        BY <2>2, <1>t, Zenon DEF BecomeZombie, ClearLocals, SetLocals
      <3> QED  BY <3>2, <3>3, Numbers DEF NoneMissed, HoldsWait
    <2>3. CASE TakeWait(p, c)
      <3>1. loc[p].i = 1
        BY <2>3, Fresh, Zenon DEF TakeWait, On
      <3>2. /\ UNCHANGED <<state, parent, loc>>
            /\ pc'[p] \in {"reparent", "wait_scan"}
            /\ \A r \in Procs \ {p} : pc'[r] = pc[r]
        BY <2>3, <1>t, Zenon DEF TakeWait, procVars
      <3>3. \A r \in Procs : ~(r < 1)
        BY DEF Procs
      <3> QED  BY <1>t, <3>1, <3>2, <3>3, Zenon DEF NoneMissed
    <2>4. CASE ReparentDone(p, c)
      <3>1. /\ UNCHANGED <<state, parent>> /\ pc'[p] = "wakeup"
            /\ \A r \in Procs \ {p} : pc'[r] = pc[r] /\ loc'[r] = loc[r]
        BY <2>4, <1>t, Zenon DEF ReparentDone, SetLocals, procVars
      <3> SUFFICES ASSUME NEW a \in Procs, NEW b \in Procs, parent[b] = a, a # p
                   PROVE  /\ pc[a] = "wait_scan" /\ b < loc[a].i => state[b] # "ZOMBIE"
                          /\ pc[a] \in {"sleep", "sleep_release"} /\ loc[a].chan = a =>
                               state[b] # "ZOMBIE"
        BY <3>1, Zenon DEF NoneMissed
      <3> QED  BY <1>t, Zenon DEF NoneMissed
    <2> QED  BY <1>4, <2>1, <2>2, <2>3, <2>4, Zenon DEF ExitWay
  <1>5. ASSUME NEW c \in CPUs, NEW p \in Procs, NEW q \in Procs, WakeWay(p, c, q)
        PROVE  NoneMissed'
    BY <1>t, <1>5, SMTT(30) DEF WakeWay, WakeSlot, Awaken, SetLocals, WakeDone, On,
       Still, procVars, threadVars, NoneMissed
  <1>6. ASSUME NEW c \in CPUs, NEW p \in Procs, NEW q \in Procs, WaitWay(p, c, q)
        PROVE  NoneMissed'
    <2>1. CASE WaitNext(p, c, q)
      <3>1. /\ \A r \in Procs \ {p} : loc'[r] = loc[r]
            /\ loc'[p].i = q + 1 /\ pc[p] = "wait_scan"
            /\ UNCHANGED <<state, parent, pc>>
        BY <2>1, Zenon DEF WaitNext, SetLocals, procVars, On
      <3>2. \A b \in Procs : parent[b] = p /\ b < q + 1 => b < loc[p].i \/ b = q
        BY <2>1, <1>t, Numbers, FieldTypes DEF WaitNext, NextChild
      <3>3. state[q] # "ZOMBIE"
        BY <2>1, Zenon DEF WaitNext
      <3> QED  BY <1>t, <3>1, <3>2, <3>3 DEF NoneMissed
    <2>2. CASE WaitSleep(p, c)
      <3>1. /\ \A r \in Procs \ {p} : pc'[r] = pc[r] /\ loc'[r] = loc[r]
            /\ pc[p] = "wait_scan" /\ pc'[p] = "sleep"
            /\ UNCHANGED <<state, parent>>
        BY <2>2, <1>t, Zenon DEF WaitSleep, SetLocals, procVars, On
      <3>2. \A b \in Procs : parent[b] = p => b < loc[p].i
        BY <2>2, <1>t, Numbers, FieldTypes DEF WaitSleep, NoChildLeft
      <3> QED  BY <1>t, <3>1, <3>2, Zenon DEF NoneMissed
    <2> QED
      BY <1>t, <1>6, <2>1, <2>2, SMTT(30) DEF WaitWay, WaitReap, freeproc,
         ClearLocals, SetLocals, WaitReturn, On, Still, procVars, threadVars,
         NoneMissed
  <1>7. ASSUME NEW c \in CPUs, NEW p \in Procs, TimedWay(p, c) PROVE NoneMissed'
    BY <1>t, <1>7, Numbers, SMTT(30) DEF TimedWay, SleepStart, SetLocals,
       SleepOver, ClearLocals, SleepMore, On, Still, procVars, threadVars,
       NoneMissed
  <1>8. ASSUME NEW c \in CPUs, NEW p \in Procs, SleepWay(p, c) PROVE NoneMissed'
    <2>1. CASE RelockWait(p, c)
      <3>1. /\ UNCHANGED <<state, parent>> /\ pc'[p] = "wait_scan" /\ loc'[p].i = loc[p].i
            /\ \A r \in Procs \ {p} : pc'[r] = pc[r] /\ loc'[r] = loc[r]
        BY <2>1, <1>t, Zenon DEF RelockWait, SetLocals, procVars
      <3>2. loc[p].i = 1
        BY <2>1, Fresh, Zenon DEF RelockWait, On
      <3>3. \A b \in Procs : ~(b < loc[p].i)
        BY <3>2 DEF Procs
      <3> QED  BY <1>t, <3>1, <3>3 DEF NoneMissed
    <2> QED
      BY <1>t, <1>8, <2>1, SMTT(30) DEF SleepWay, LockSelf, FallAsleep, Awake,
         RelockTicks, SetLocals, On, Still, procVars, threadVars, NoneMissed
  <1>9. ASSUME NEW c \in CPUs, NEW p \in Procs, SwitchWay(p, c) PROVE NoneMissed'
    BY <1>t, <1>9, SMTT(30) DEF SwitchWay, YieldLock, SwitchAway, YieldReturn,
       FirstRun, On, Still, procVars, threadVars, NoneMissed, Interruptible
  <1>10. ASSUME NEW c \in CPUs, NEW p \in Procs, SchedWay(c, p) PROVE NoneMissed'
    BY <1>t, <1>10, Zenon DEF SchedWay, SwitchTo, NextSlotOf, SwitchedBack, On,
       Still, procVars, threadVars, NoneMissed
  <1>11. ASSUME NEW c \in CPUs, NEW q \in Procs, ClockWay(c, q) PROVE NoneMissed'
    BY <1>t, <1>11, Zenon DEF ClockWay, TimerTaken, Tick, TickSlot, Awaken,
       TickDone, On, Still, procVars, threadVars, NoneMissed
  <1>12. ASSUME NEW c \in CPUs, NEW p \in Procs, TrapWay(c, p) PROVE NoneMissed'
    BY <1>t, <1>12, SMTT(30) DEF TrapWay, HandlerDone, HandlerExit, HandlerYield,
       On, Still, procVars, threadVars, NoneMissed
  <1>13. ASSUME UNCHANGED vars PROVE NoneMissed'
    BY <1>t, <1>13, Zenon DEF vars, procVars, threadVars, NoneMissed
  <1>14. ASSUME NEW c \in CPUs, NEW p \in Procs, NEW q \in Procs, IoWay(p, c, q)
         PROVE  NoneMissed'
    BY <1>t, <1>14, IoNumbers, SMTT(30) DEF IoWay, TakeFault, StartIo, SetLocals,
       EndIo, ClearLocals, WakeIo, On, Still, procVars, threadVars, NoneMissed
  <1> QED
    BY <1>1, <1>2, <1>3, <1>4, <1>5, <1>6, <1>7, <1>8, <1>9, <1>10, <1>11, <1>12,
       <1>13, <1>14, Zenon DEF AnyWay

\* A process whose time has come is about to be woken.
LEMMA TickStep ==
  ASSUME IInv, AnyWay
  PROVE  TickInv'
  <1>t. /\ state \in [Procs -> States] /\ chan \in [Procs -> Nat \cup {None}]
        /\ ticks \in Nat /\ hpc \in [CPUs -> {"none", "clockintr", "wakeup", "resched"}]
        /\ hi \in [CPUs -> Nat] /\ pc \in [Procs -> PCs]
        /\ saved \in [Procs -> Interruptible] /\ loc \in [Procs -> Locals]
        /\ TickInv /\ CpuInv /\ RunInv
    BY Zenon DEF IInv, TypeOK, ProcType, CpuType, ThreadType
  <1>1. ASSUME NEW c \in CPUs, NEW p \in Procs, NEW to \in PCs,
               NEW k \in Nat, CallWay(p, c, to, k)
        PROVE  TickInv'
    <2>1. CASE CallKill(p, c, k)
      <3>1. /\ UNCHANGED <<ticks, hpc, hi>>
            /\ state'[p] # "SLEEPING" /\ pc'[p] \notin {"sleep", "sleep_release"}
            /\ \A r \in Procs \ {p} :
                 /\ loc'[r] = loc[r]
                 /\ state'[r] = "SLEEPING" => state[r] = "SLEEPING"
                 /\ chan'[r] = TicksChan => chan[r] = TicksChan
                 /\ pc'[r] \in {"sleep", "sleep_release"} => pc[r] = pc'[r]
        BY <2>1, <1>t, Executing, Zenon DEF CallKill, SetLocals, On, Still,
           handlerVars, procVars, threadVars, StateAt
      <3> QED  BY <1>t, <3>1, TickFrame, Zenon
    <2>2. CASE CallSleep(p, c, k)
      <3>1. /\ UNCHANGED <<ticks, hpc, hi>>
            /\ state'[p] # "SLEEPING" /\ pc'[p] \notin {"sleep", "sleep_release"}
            /\ \A r \in Procs \ {p} :
                 /\ loc'[r] = loc[r]
                 /\ state'[r] = "SLEEPING" => state[r] = "SLEEPING"
                 /\ chan'[r] = TicksChan => chan[r] = TicksChan
                 /\ pc'[r] \in {"sleep", "sleep_release"} => pc[r] = pc'[r]
        BY <2>2, <1>t, Executing, Zenon DEF CallSleep, SetLocals, On, Still,
           handlerVars, procVars, threadVars, StateAt
      <3> QED  BY <1>t, <3>1, TickFrame, Zenon
    <2> QED
      BY <1>t, <1>1, <2>1, <2>2, Zenon DEF CallWay, Hop, On, Still, procVars,
         handlerVars, threadVars, TickInv, StillEarly
  <1>2. ASSUME NEW c \in CPUs, NEW p \in Procs, NEW q \in Procs, ScanWay(p, c, q)
        PROVE  TickInv'
    <2>1. CASE ScanReturn(p, c)
      <3>1. /\ UNCHANGED <<ticks, hpc, hi>>
            /\ state'[p] # "SLEEPING" /\ pc'[p] \notin {"sleep", "sleep_release"}
            /\ \A r \in Procs \ {p} :
                 /\ loc'[r] = loc[r]
                 /\ state'[r] = "SLEEPING" => state[r] = "SLEEPING"
                 /\ chan'[r] = TicksChan => chan[r] = TicksChan
                 /\ pc'[r] \in {"sleep", "sleep_release"} => pc[r] = pc'[r]
        BY <2>1, <1>t, Executing, Zenon DEF ScanReturn, ClearLocals, SetLocals, On,
           Still, handlerVars, procVars, threadVars, StateAt
      <3> QED  BY <1>t, <3>1, TickFrame, Zenon
    <2>2. CASE KillFound(p, c, q)
      <3>1. /\ UNCHANGED <<ticks, hpc, hi>>
            /\ state'[p] # "SLEEPING" /\ pc'[p] \notin {"sleep", "sleep_release"}
            /\ \A r \in Procs \ {p} :
                 /\ loc'[r] = loc[r]
                 /\ state'[r] = "SLEEPING" => state[r] = "SLEEPING"
                 /\ chan'[r] = TicksChan => chan[r] = TicksChan
                 /\ pc'[r] \in {"sleep", "sleep_release"} => pc[r] = pc'[r]
        BY <2>2, <1>t, Executing, Zenon DEF KillFound, ClearLocals, SetLocals, On,
           Still, handlerVars, procVars, threadVars, StateAt
      <3> QED  BY <1>t, <3>1, TickFrame, Zenon
    <2> QED
      BY <1>t, <1>2, <2>1, <2>2, Zenon DEF ScanWay, ScanNext, SetLocals, On, Still,
         procVars, handlerVars, threadVars, TickInv, StillEarly
  <1>3. ASSUME NEW c \in CPUs, NEW p \in Procs, NEW q \in Procs, ForkWay(p, c, q)
        PROVE  TickInv'
    <2>1. CASE AllocTake(p, c, q)
      <3>1. /\ UNCHANGED <<ticks, hpc, hi>>
            /\ state'[p] # "SLEEPING" /\ pc'[p] \notin {"sleep", "sleep_release"}
            /\ \A r \in Procs \ {p} :
                 /\ loc'[r] = loc[r]
                 /\ state'[r] = "SLEEPING" => state[r] = "SLEEPING"
                 /\ chan'[r] = TicksChan => chan[r] = TicksChan
                 /\ pc'[r] \in {"sleep", "sleep_release"} => pc[r] = pc'[r]
        BY <2>1, <1>t, Executing, Zenon DEF AllocTake, SetLocals, On, Still,
           handlerVars, procVars, threadVars, StateAt
      <3> QED  BY <1>t, <3>1, TickFrame, Zenon
    <2>2. CASE AllocFail(p, c, q)
      <3>1. /\ UNCHANGED <<ticks, hpc, hi>>
            /\ state'[p] # "SLEEPING" /\ pc'[p] \notin {"sleep", "sleep_release"}
            /\ \A r \in Procs \ {p} :
                 /\ loc'[r] = loc[r]
                 /\ state'[r] = "SLEEPING" => state[r] = "SLEEPING"
                 /\ chan'[r] = TicksChan => chan[r] = TicksChan
                 /\ pc'[r] \in {"sleep", "sleep_release"} => pc[r] = pc'[r]
        BY <2>2, <1>t, Executing, Numbers, Zenon DEF AllocFail, ClearLocals,
           SetLocals, freeproc, On, Still, handlerVars, procVars, threadVars,
           StateAt
      <3> QED  BY <1>t, <3>1, TickFrame, Zenon
    <2>3. CASE ChildRunnable(p, c)
      <3>1. /\ UNCHANGED <<ticks, hpc, hi>>
            /\ state'[p] # "SLEEPING" /\ pc'[p] \notin {"sleep", "sleep_release"}
            /\ \A r \in Procs \ {p} :
                 /\ loc'[r] = loc[r]
                 /\ state'[r] = "SLEEPING" => state[r] = "SLEEPING"
                 /\ chan'[r] = TicksChan => chan[r] = TicksChan
                 /\ pc'[r] \in {"sleep", "sleep_release"} => pc[r] = pc'[r]
        BY <2>3, <1>t, Executing, Forked, Zenon DEF ChildRunnable, ClearLocals,
           SetLocals, On, Still, handlerVars, procVars, threadVars, StateAt
      <3> QED  BY <1>t, <3>1, TickFrame, Zenon
    <2> QED
      BY <1>t, <1>3, <2>1, <2>2, <2>3, Zenon DEF ForkWay, ParentSet, On, Still,
         procVars, handlerVars, threadVars, TickInv, StillEarly
  <1>4. ASSUME NEW c \in CPUs, NEW p \in Procs, NEW q \in Procs, ExitWay(p, c, q)
        PROVE  TickInv'
    <2>1. CASE ReparentDone(p, c)
      <3>1. /\ UNCHANGED <<ticks, hpc, hi>>
            /\ state'[p] # "SLEEPING" /\ pc'[p] \notin {"sleep", "sleep_release"}
            /\ \A r \in Procs \ {p} :
                 /\ loc'[r] = loc[r]
                 /\ state'[r] = "SLEEPING" => state[r] = "SLEEPING"
                 /\ chan'[r] = TicksChan => chan[r] = TicksChan
                 /\ pc'[r] \in {"sleep", "sleep_release"} => pc[r] = pc'[r]
        BY <2>1, <1>t, Executing, Zenon DEF ReparentDone, SetLocals, On, Still,
           handlerVars, procVars, threadVars, StateAt
      <3> QED  BY <1>t, <3>1, TickFrame, Zenon
    <2>2. CASE TakeWait(p, c)
      BY <1>t, <2>2, Zenon DEF TakeWait, On, Still, procVars, handlerVars,
         threadVars, TickInv, StillEarly
    <2>3. CASE ReparentChild(p, c, q)
      BY <1>t, <2>3, Zenon DEF ReparentChild, SetLocals, On, Still, procVars,
         handlerVars, threadVars, TickInv, StillEarly
    <2>4. CASE BecomeZombie(p, c)
      BY <1>t, <2>4, Zenon DEF BecomeZombie, ClearLocals, SetLocals, On, Still,
         procVars, handlerVars, threadVars, TickInv, StillEarly
    <2> QED  BY <1>4, <2>1, <2>2, <2>3, <2>4, Zenon DEF ExitWay
  <1>5. ASSUME NEW c \in CPUs, NEW p \in Procs, NEW q \in Procs, WakeWay(p, c, q)
        PROVE  TickInv'
    BY <1>t, <1>5, SMTT(30) DEF WakeWay, WakeSlot, Awaken, SetLocals, WakeDone, On,
       Still, procVars, handlerVars, threadVars, TickInv, StillEarly
  <1>6. ASSUME NEW c \in CPUs, NEW p \in Procs, NEW q \in Procs, WaitWay(p, c, q)
        PROVE  TickInv'
    <2>1. CASE WaitReap(p, c, q)
      <3>1. /\ UNCHANGED <<ticks, hpc, hi>>
            /\ state'[p] # "SLEEPING" /\ pc'[p] \notin {"sleep", "sleep_release"}
            /\ \A r \in Procs \ {p} :
                 /\ loc'[r] = loc[r]
                 /\ state'[r] = "SLEEPING" => state[r] = "SLEEPING"
                 /\ chan'[r] = TicksChan => chan[r] = TicksChan
                 /\ pc'[r] \in {"sleep", "sleep_release"} => pc[r] = pc'[r]
        BY <2>1, <1>t, Executing, Numbers, Zenon DEF WaitReap, ClearLocals,
           SetLocals, freeproc, On, Still, handlerVars, procVars, threadVars,
           StateAt
      <3> QED  BY <1>t, <3>1, TickFrame, Zenon
    <2>2. CASE WaitReturn(p, c)
      <3>1. /\ UNCHANGED <<ticks, hpc, hi>>
            /\ state'[p] # "SLEEPING" /\ pc'[p] \notin {"sleep", "sleep_release"}
            /\ \A r \in Procs \ {p} :
                 /\ loc'[r] = loc[r]
                 /\ state'[r] = "SLEEPING" => state[r] = "SLEEPING"
                 /\ chan'[r] = TicksChan => chan[r] = TicksChan
                 /\ pc'[r] \in {"sleep", "sleep_release"} => pc[r] = pc'[r]
        BY <2>2, <1>t, Executing, Zenon DEF WaitReturn, ClearLocals, SetLocals, On,
           Still, handlerVars, procVars, threadVars, StateAt
      <3> QED  BY <1>t, <3>1, TickFrame, Zenon
    <2>3. CASE WaitSleep(p, c)
      <3>1. /\ UNCHANGED <<ticks, hpc, hi, state, chan>>
            /\ state[p] # "SLEEPING" /\ loc'[p].chan = p
            /\ \A r \in Procs \ {p} : loc'[r] = loc[r] /\ pc'[r] = pc[r]
        BY <2>3, <1>t, Executing, Zenon DEF WaitSleep, SetLocals, On, Still,
           handlerVars, procVars, StateAt
      <3>2. \A r \in Procs \ {p} : StillEarly(r)' <=> StillEarly(r)
        BY <3>1, Zenon DEF StillEarly
      <3> QED  BY <1>t, <3>1, <3>2, Numbers, Zenon DEF TickInv
    <2>4. CASE WaitNext(p, c, q)
      BY <1>t, <2>4, SMTT(30) DEF WaitNext, SetLocals, On, Still, procVars,
         handlerVars, threadVars, TickInv, StillEarly
    <2> QED  BY <1>6, <2>1, <2>2, <2>3, <2>4, Zenon DEF WaitWay
  <1>7. ASSUME NEW c \in CPUs, NEW p \in Procs, TimedWay(p, c) PROVE TickInv'
    <2>1. CASE SleepStart(p, c)
      <3>1. /\ UNCHANGED <<ticks, hpc, hi>>
            /\ state'[p] # "SLEEPING" /\ pc'[p] \notin {"sleep", "sleep_release"}
            /\ \A r \in Procs \ {p} :
                 /\ loc'[r] = loc[r]
                 /\ state'[r] = "SLEEPING" => state[r] = "SLEEPING"
                 /\ chan'[r] = TicksChan => chan[r] = TicksChan
                 /\ pc'[r] \in {"sleep", "sleep_release"} => pc[r] = pc'[r]
        BY <2>1, <1>t, Executing, Zenon DEF SleepStart, SetLocals, On, Still,
           handlerVars, procVars, threadVars, StateAt
      <3> QED  BY <1>t, <3>1, TickFrame, Zenon
    <2>2. CASE SleepOver(p, c)
      <3>1. /\ UNCHANGED <<ticks, hpc, hi>>
            /\ state'[p] # "SLEEPING" /\ pc'[p] \notin {"sleep", "sleep_release"}
            /\ \A r \in Procs \ {p} :
                 /\ loc'[r] = loc[r]
                 /\ state'[r] = "SLEEPING" => state[r] = "SLEEPING"
                 /\ chan'[r] = TicksChan => chan[r] = TicksChan
                 /\ pc'[r] \in {"sleep", "sleep_release"} => pc[r] = pc'[r]
        BY <2>2, <1>t, Executing, Zenon DEF SleepOver, ClearLocals, SetLocals, On,
           Still, handlerVars, procVars, threadVars, StateAt
      <3> QED  BY <1>t, <3>1, TickFrame, Zenon
    <2> QED
      BY <1>t, <1>7, <2>1, <2>2, SMTT(30) DEF TimedWay, SleepMore, SetLocals, On,
         Still, procVars, handlerVars, threadVars, TickInv, StillEarly
  <1>8. ASSUME NEW c \in CPUs, NEW p \in Procs, SleepWay(p, c) PROVE TickInv'
    <2>1. CASE Awake(p, c)
      <3>1. /\ UNCHANGED <<ticks, hpc, hi, state, loc>>
            /\ chan'[p] = NoChan /\ pc'[p] = "reacquire"
            /\ \A r \in Procs \ {p} : chan'[r] = chan[r] /\ pc'[r] = pc[r]
        BY <2>1, <1>t, Zenon DEF Awake, Still, handlerVars
      <3>2. \A r \in Procs : StillEarly(r)' <=> StillEarly(r)
        BY <3>1, Zenon DEF StillEarly
      <3> QED  BY <1>t, <3>1, <3>2, Numbers, Zenon DEF TickInv
    <2> QED
      BY <1>t, <1>8, <2>1, SMTT(30) DEF SleepWay, LockSelf, FallAsleep,
         RelockTicks, SetLocals, RelockWait, On, Still, procVars, handlerVars,
         threadVars, TickInv, StillEarly
  <1>9. ASSUME NEW c \in CPUs, NEW p \in Procs, SwitchWay(p, c) PROVE TickInv'
    <2>1. CASE YieldReturn(p, c)
      <3>1. /\ UNCHANGED <<ticks, hpc, hi>>
            /\ state'[p] # "SLEEPING" /\ pc'[p] \notin {"sleep", "sleep_release"}
            /\ \A r \in Procs \ {p} :
                 /\ loc'[r] = loc[r]
                 /\ state'[r] = "SLEEPING" => state[r] = "SLEEPING"
                 /\ chan'[r] = TicksChan => chan[r] = TicksChan
                 /\ pc'[r] \in {"sleep", "sleep_release"} => pc[r] = pc'[r]
        BY <2>1, <1>t, Executing, Zenon DEF YieldReturn, Interruptible, On, Still,
           handlerVars, procVars, threadVars, StateAt
      <3> QED  BY <1>t, <3>1, TickFrame, Zenon
    <2> QED
      BY <1>t, <1>9, <2>1, Zenon DEF SwitchWay, YieldLock, SwitchAway, FirstRun,
         On, Still, procVars, handlerVars, threadVars, TickInv, StillEarly
  <1>10. ASSUME NEW c \in CPUs, NEW p \in Procs, SchedWay(c, p) PROVE TickInv'
    BY <1>t, <1>10, Zenon DEF SchedWay, SwitchTo, NextSlotOf, SwitchedBack, On,
       Still, procVars, handlerVars, threadVars, TickInv, StillEarly
  <1>11. ASSUME NEW c \in CPUs, NEW q \in Procs, ClockWay(c, q) PROVE TickInv'
    <2>1. CASE Tick(c)
      <3>1. \A r \in Procs : ~HoldsTicks(r)
        BY <2>1, TicksHolder, Zenon DEF Tick
      <3>2. hi[c] = 1
        BY <2>1, <1>t, Zenon DEF Tick, TickInv
      <3>3. /\ UNCHANGED <<pc, loc, hi>> /\ hpc'[c] = "wakeup"
            /\ \A d \in CPUs \ {c} : hpc'[d] = hpc[d]
        BY <2>1, <1>t, Zenon DEF Tick, threadVars
      <3> QED  BY <1>t, <3>1, <3>2, <3>3, Numbers, Zenon DEF TickInv, HoldsTicks
    <2>2. CASE TickSlot(c, q)
      <3>1. /\ \A r \in Procs \ {q} : state'[r] = state[r]
            /\ state'[q] = "SLEEPING" => state[q] = "SLEEPING"
            /\ UNCHANGED <<chan, ticks, hpc, pc, loc>>
            /\ \A d \in CPUs \ {c} : hi'[d] = hi[d]
            /\ hi'[c] = q + 1 /\ hpc[c] = "wakeup" /\ hi[c] = q
        BY <2>2, <1>t, Zenon DEF TickSlot, Awaken, threadVars
      <3>2. \A r \in Procs : StillEarly(r)' <=> StillEarly(r)
        BY <3>1, Zenon DEF StillEarly
      <3>3. ~(state'[q] = "SLEEPING" /\ chan[q] = TicksChan)
        <4>1. CASE q = cproc[c]
          <5>1. spc[c] = "run" /\ si[c] = q /\ pc[q] \in Interruptible
            BY <1>t, <4>1, <3>1, Numbers DEF CpuInv
          <5> QED  BY <1>t, <3>1, <5>1, Zenon DEF RunInv, StateAt, Interruptible
        <4>2. CASE q # cproc[c]
          <5>1. Awaken(q, TicksChan)
            BY <2>2, <4>2, Zenon DEF TickSlot
          <5> QED  BY <1>t, <5>1, Zenon DEF Awaken
        <4> QED  BY <4>1, <4>2, Zenon
      <3>4. \A r \in Procs : q <= r /\ r # q => q + 1 <= r
        BY Numbers
      <3> QED  BY <1>t, <3>1, <3>2, <3>3, <3>4, Zenon DEF TickInv
    <2>3. CASE TickDone(c)
      <3>1. /\ UNCHANGED <<state, chan, ticks, pc, loc>>
            /\ \A d \in CPUs \ {c} : hi'[d] = hi[d] /\ hpc'[d] = hpc[d]
            /\ hi'[c] = 1 /\ hpc'[c] = "resched"
        BY <2>3, <1>t, Zenon DEF TickDone, procVars, threadVars
      <3>2. \A r \in Procs : StillEarly(r)' <=> StillEarly(r)
        BY <3>1, Zenon DEF StillEarly
      <3>3. \A r \in Procs : ~(hi[c] <= r)
        BY <2>3, <1>t, Numbers, ProcAssumption DEF TickDone
      <3> QED  BY <1>t, <3>1, <3>2, <3>3, Zenon DEF TickInv
    <2> QED
      BY <1>t, <1>11, <2>1, <2>2, <2>3, Zenon DEF ClockWay, TimerTaken, On, Still,
         procVars, handlerVars, threadVars, TickInv, StillEarly
  <1>12. ASSUME NEW c \in CPUs, NEW p \in Procs, TrapWay(c, p) PROVE TickInv'
    BY <1>t, <1>12, Zenon DEF TrapWay, HandlerDone, HandlerExit, HandlerYield, On,
       Still, procVars, handlerVars, threadVars, TickInv, StillEarly
  <1>13. ASSUME UNCHANGED vars PROVE TickInv'
    BY <1>t, <1>13, Zenon DEF vars, procVars, handlerVars, threadVars, TickInv,
       StillEarly
  <1>14. ASSUME NEW c \in CPUs, NEW p \in Procs, NEW q \in Procs, IoWay(p, c, q)
         PROVE  TickInv'
    <2>1. CASE TakeFault(p, c)
      <3>1. /\ UNCHANGED <<ticks, hpc, hi>>
            /\ state'[p] # "SLEEPING" /\ pc'[p] \notin {"sleep", "sleep_release"}
            /\ \A r \in Procs \ {p} :
                 /\ loc'[r] = loc[r]
                 /\ state'[r] = "SLEEPING" => state[r] = "SLEEPING"
                 /\ chan'[r] = TicksChan => chan[r] = TicksChan
                 /\ pc'[r] \in {"sleep", "sleep_release"} => pc[r] = pc'[r]
        BY <2>1, <1>t, Executing, Zenon DEF TakeFault, On, Still, handlerVars, procVars, StateAt
      <3> QED  BY <1>t, <3>1, TickFrame, Zenon
    <2>2. CASE StartIo(p, c)
      <3>1. /\ UNCHANGED <<ticks, hpc, hi, state, chan>> /\ state[p] # "SLEEPING"
            /\ loc'[p].chan # TicksChan
            /\ \A r \in Procs \ {p} : loc'[r] = loc[r] /\ pc'[r] = pc[r]
        BY <2>2, <1>t, Executing, IoNumbers, Zenon DEF StartIo, SetLocals, On, Still,
           handlerVars, procVars, StateAt
      <3>2. \A r \in Procs \ {p} : StillEarly(r)' <=> StillEarly(r)
        BY <3>1, Zenon DEF StillEarly
      <3> QED  BY <1>t, <3>1, <3>2, Zenon DEF TickInv
    <2>3. CASE EndIo(p, c)
      <3>1. /\ UNCHANGED <<ticks, hpc, hi>>
            /\ state'[p] # "SLEEPING" /\ pc'[p] \notin {"sleep", "sleep_release"}
            /\ \A r \in Procs \ {p} :
                 /\ loc'[r] = loc[r]
                 /\ state'[r] = "SLEEPING" => state[r] = "SLEEPING"
                 /\ chan'[r] = TicksChan => chan[r] = TicksChan
                 /\ pc'[r] \in {"sleep", "sleep_release"} => pc[r] = pc'[r]
        BY <2>3, <1>t, Executing, Zenon DEF EndIo, ClearLocals, SetLocals, On, Still, handlerVars, procVars, StateAt
      <3> QED  BY <1>t, <3>1, TickFrame, Zenon
    <2>4. CASE WakeIo(q)
      BY <1>t, <2>4, Zenon DEF WakeIo, handlerVars, threadVars, TickInv, StillEarly
    <2> QED  BY <1>14, <2>1, <2>2, <2>3, <2>4, Zenon DEF IoWay
  <1> QED
    BY <1>1, <1>2, <1>3, <1>4, <1>5, <1>6, <1>7, <1>8, <1>9, <1>10, <1>11, <1>12,
       <1>13, <1>14, Zenon DEF AnyWay

\* A step of one thread.
LEMMA IoFrame ==
  ASSUME IoInv, NEW p \in Procs,
         \A r \in Procs \ {p} : loc'[r] = loc[r] /\ pc'[r] = pc[r] /\ saved'[r] = saved[r],
         loc'[p].chan = IoChan =>
           /\ p # initproc
           /\ Where(p)' \in {"sleep", "sleep_release", "sched_sleep", "slept", "reacquire"}
  PROVE  IoInv'
  <1>1. \A r \in Procs \ {p} : Where(r)' = Where(r)
    BY Zenon DEF Where
  <1> QED  BY <1>1, Zenon DEF IoInv

\* sleep is called for the file system by a process other than init, and its
\* channel is cleared when sleep returns.
LEMMA IoStep ==
  ASSUME IInv, AnyWay
  PROVE  IoInv'
  <1>t. /\ parent \in [Procs -> Procs \cup {None}] /\ pc \in [Procs -> PCs]
        /\ saved \in [Procs -> Interruptible] /\ loc \in [Procs -> Locals]
        /\ IoInv /\ InitInv /\ CpuInv
        /\ NoChan # IoChan /\ TicksChan # IoChan /\ initproc # IoChan
        /\ IoChan \notin Procs /\ IoChan # None
    BY Numbers, IoNumbers, ProcAssumption, Zenon DEF IInv, TypeOK, ProcType, ThreadType
  <1>1. ASSUME NEW c \in CPUs, NEW p \in Procs, NEW to \in PCs,
               NEW k \in Nat, CallWay(p, c, to, k)
        PROVE  IoInv'
    <2>1. \A r \in Procs \ {p} : loc'[r] = loc[r] /\ pc'[r] = pc[r] /\ saved'[r] = saved[r]
      BY <1>t, <1>1, Zenon DEF CallWay, Hop, CallKill, CallSleep, SetLocals, Still
    <2>2. pc[p] \in {"user", "ret", "exit"}
      BY <1>1, Zenon DEF CallWay, Hop, CallKill, CallSleep, On
    <2>3. loc[p].chan # IoChan
      BY <1>t, <2>2, Zenon DEF IoInv, Where
    <2>4. loc'[p].chan # IoChan
      BY <1>t, <1>1, <2>3, Zenon DEF CallWay, Hop, CallKill, CallSleep, SetLocals
    <2> QED  BY <1>t, <2>1, <2>4, IoFrame, Zenon
  <1>2. ASSUME NEW c \in CPUs, NEW p \in Procs, NEW q \in Procs, ScanWay(p, c, q)
        PROVE  IoInv'
    <2>1. \A r \in Procs \ {p} : loc'[r] = loc[r] /\ pc'[r] = pc[r] /\ saved'[r] = saved[r]
      BY <1>t, <1>2, Zenon DEF ScanWay, ScanNext, ScanReturn, KillFound,
         ClearLocals, SetLocals, Still
    <2>2. pc[p] \in {"fork", "kill", "io"}
      BY <1>2, Zenon DEF ScanWay, ScanNext, ScanReturn, KillFound, On
    <2>3. loc[p].chan # IoChan
      BY <1>t, <2>2, Zenon DEF IoInv, Where
    <2>4. loc'[p].chan # IoChan
      BY <1>t, <1>2, <2>3, Zenon DEF ScanWay, ScanNext, ScanReturn, KillFound,
         ClearLocals, SetLocals
    <2> QED  BY <1>t, <2>1, <2>4, IoFrame, Zenon
  <1>3. ASSUME NEW c \in CPUs, NEW p \in Procs, NEW q \in Procs, ForkWay(p, c, q)
        PROVE  IoInv'
    <2>1. CASE AllocTake(p, c, q)
      <3>1. pc[q] \in {"forkret", "zombie_exit"}
        BY <2>1, Parked, Zenon DEF AllocTake, Off
      <3>2. \A r \in Procs \ {p} : loc'[r].chan = IoChan => Where(r)' = Where(r)
        BY <2>1, <3>1, <1>t, Zenon DEF AllocTake, SetLocals, Still, IoInv, Where
      <3>3. loc'[p].chan # IoChan /\ \A r \in Procs \ {p} : loc'[r] = loc[r]
        BY <2>1, <1>t, Zenon DEF AllocTake, SetLocals
      <3> QED  BY <1>t, <3>2, <3>3, Zenon DEF IoInv
    <2>2. CASE AllocFail(p, c, q) \/ ChildRunnable(p, c)
      <3>1. /\ \A r \in Procs \ {p} : loc'[r] = loc[r] /\ pc'[r] = pc[r] /\ saved'[r] = saved[r]
            /\ loc'[p].chan # IoChan
        BY <1>t, <2>2, Zenon DEF AllocFail, ChildRunnable, ClearLocals, SetLocals, Still
      <3> QED  BY <1>t, <3>1, IoFrame, Zenon
    <2>3. CASE ParentSet(p, c)
      <3>1. /\ \A r \in Procs \ {p} : loc'[r] = loc[r] /\ pc'[r] = pc[r] /\ saved'[r] = saved[r]
            /\ loc'[p] = loc[p] /\ pc[p] = "fork_parent"
        BY <1>t, <2>3, Zenon DEF ParentSet, On, Still
      <3>2. loc[p].chan # IoChan
        BY <1>t, <3>1, Zenon DEF IoInv, Where
      <3> QED  BY <1>t, <3>1, <3>2, IoFrame, Zenon
    <2> QED  BY <1>3, <2>1, <2>2, <2>3, Zenon DEF ForkWay
  <1>4. ASSUME NEW c \in CPUs, NEW p \in Procs, NEW q \in Procs, ExitWay(p, c, q)
        PROVE  IoInv'
    <2>1. \A r \in Procs \ {p} : loc'[r] = loc[r] /\ pc'[r] = pc[r] /\ saved'[r] = saved[r]
      BY <1>t, <1>4, Zenon DEF ExitWay, TakeWait, ReparentChild, ReparentDone,
         BecomeZombie, ClearLocals, SetLocals, Still
    <2>2. pc[p] \in {"exit", "wait", "reparent", "zombie"}
      BY <1>4, Zenon DEF ExitWay, TakeWait, ReparentChild, ReparentDone,
         BecomeZombie, On
    <2>3. loc[p].chan # IoChan
      BY <1>t, <2>2, Zenon DEF IoInv, Where
    <2>4. loc'[p].chan # IoChan
      <3>1. CASE TakeWait(p, c)
        BY <2>3, <3>1, Zenon DEF TakeWait
      <3>2. CASE ReparentChild(p, c, q)
        BY <1>t, <3>2, Zenon DEF ReparentChild, SetLocals
      <3>3. CASE ReparentDone(p, c)
        BY <1>t, <3>3, Zenon DEF ReparentDone, SetLocals
      <3>4. CASE BecomeZombie(p, c)
        BY <1>t, <3>4, Zenon DEF BecomeZombie, ClearLocals, SetLocals
      <3> QED  BY <1>4, <3>1, <3>2, <3>3, <3>4, Zenon DEF ExitWay
    <2> QED  BY <1>t, <2>1, <2>4, IoFrame, Zenon
  <1>5. ASSUME NEW c \in CPUs, NEW p \in Procs, NEW q \in Procs, WakeWay(p, c, q)
        PROVE  IoInv'
    <2>1. \A r \in Procs \ {p} : loc'[r] = loc[r] /\ pc'[r] = pc[r] /\ saved'[r] = saved[r]
      BY <1>t, <1>5, Zenon DEF WakeWay, WakeSlot, WakeDone, SetLocals, Still
    <2>2. pc[p] \in {"wakeup"}
      BY <1>5, Zenon DEF WakeWay, WakeSlot, WakeDone, On
    <2>3. loc[p].chan # IoChan
      BY <1>t, <2>2, Zenon DEF IoInv, Where
    <2>4. loc'[p].chan # IoChan
      BY <1>t, <1>5, <2>3, Zenon DEF WakeWay, WakeSlot, WakeDone, SetLocals
    <2> QED  BY <1>t, <2>1, <2>4, IoFrame, Zenon
  <1>6. ASSUME NEW c \in CPUs, NEW p \in Procs, NEW q \in Procs, WaitWay(p, c, q)
        PROVE  IoInv'
    <2>1. \A r \in Procs \ {p} : loc'[r] = loc[r] /\ pc'[r] = pc[r] /\ saved'[r] = saved[r]
      BY <1>t, <1>6, Zenon DEF WaitWay, WaitNext, WaitReap, WaitReturn, WaitSleep,
         ClearLocals, SetLocals, Still
    <2>2. pc[p] \in {"wait_scan"}
      BY <1>6, Zenon DEF WaitWay, WaitNext, WaitReap, WaitReturn, WaitSleep, On
    <2>3. loc[p].chan # IoChan
      BY <1>t, <2>2, Zenon DEF IoInv, Where
    <2>4. loc'[p].chan # IoChan
      BY <1>t, <1>6, <2>3, Zenon DEF WaitWay, WaitNext, WaitReap, WaitReturn,
         WaitSleep, ClearLocals, SetLocals
    <2> QED  BY <1>t, <2>1, <2>4, IoFrame, Zenon
  <1>7. ASSUME NEW c \in CPUs, NEW p \in Procs, TimedWay(p, c) PROVE IoInv'
    <2>1. \A r \in Procs \ {p} : loc'[r] = loc[r] /\ pc'[r] = pc[r] /\ saved'[r] = saved[r]
      BY <1>t, <1>7, Zenon DEF TimedWay, SleepStart, SleepOver, SleepMore,
         ClearLocals, SetLocals, Still
    <2>2. pc[p] \in {"sys_sleep", "sys_sleep_loop"}
      BY <1>7, Zenon DEF TimedWay, SleepStart, SleepOver, SleepMore, On
    <2>3. loc[p].chan # IoChan
      BY <1>t, <2>2, Zenon DEF IoInv, Where
    <2>4. loc'[p].chan # IoChan
      BY <1>t, <1>7, <2>3, Zenon DEF TimedWay, SleepStart, SleepOver, SleepMore,
         ClearLocals, SetLocals
    <2> QED  BY <1>t, <2>1, <2>4, IoFrame, Zenon
  <1>8. ASSUME NEW c \in CPUs, NEW p \in Procs, SleepWay(p, c) PROVE IoInv'
    <2>1. \A r \in Procs \ {p} : loc'[r] = loc[r] /\ pc'[r] = pc[r] /\ saved'[r] = saved[r]
      BY <1>t, <1>8, Zenon DEF SleepWay, LockSelf, FallAsleep, Awake, RelockTicks,
         RelockWait, SetLocals, Still
    <2>2. \/ loc'[p].chan # IoChan
          \/ loc' = loc /\ pc'[p] \in {"sleep_release", "sched_sleep", "reacquire"}
      BY <1>t, <1>8, Zenon DEF SleepWay, LockSelf, FallAsleep, Awake, RelockTicks,
         RelockWait, SetLocals
    <2>3. loc'[p].chan = IoChan => p # initproc /\ Where(p)' \in {"sleep_release", "sched_sleep", "reacquire"}
      BY <1>t, <2>2, Zenon DEF IoInv, Where
    <2> QED  BY <1>t, <2>1, <2>3, IoFrame, Zenon
  <1>9. ASSUME NEW c \in CPUs, NEW p \in Procs, SwitchWay(p, c) PROVE IoInv'
    <2>1. /\ loc' = loc
          /\ \A r \in Procs \ {p} : pc'[r] = pc[r] /\ saved'[r] = saved[r]
      BY <1>t, <1>9, Zenon DEF SwitchWay, YieldLock, SwitchAway, YieldReturn, FirstRun,
         Still
    <2>2. CASE YieldLock(p, c) \/ SwitchAway(p, c) \/ FirstRun(p, c)
      <3>1. /\ saved' = saved
            /\ \/ pc[p] \in {"yield", "sched_yield"} /\ pc'[p] \in {"sched_yield", "yielded"}
               \/ pc[p] = "sched_sleep" /\ pc'[p] = "slept"
               \/ pc[p] \in {"sched_zombie", "forkret"}
        BY <1>t, <2>2, Zenon DEF YieldLock, SwitchAway, FirstRun, On, Still
      <3>2. loc'[p].chan = IoChan =>
              p # initproc /\ (Where(p)' = Where(p) \/ Where(p)' = "slept")
        BY <1>t, <2>1, <3>1, Zenon DEF IoInv, Where
      <3> QED  BY <1>t, <2>1, <3>2, IoFrame, Zenon DEF IoInv
    <2>3. CASE YieldReturn(p, c)
      <3>1. pc[p] = "yielded" /\ pc'[p] = saved[p]
        BY <1>t, <2>3, Zenon DEF YieldReturn, On
      <3>2. saved[p] \notin {"yield", "sched_yield", "yielded"}
        BY <1>t, Zenon DEF Interruptible
      <3>3. Where(p)' = Where(p)
        BY <3>1, <3>2, Zenon DEF Where
      <3> QED  BY <1>t, <2>1, <3>3, IoFrame, Zenon DEF IoInv
    <2> QED  BY <1>9, <2>2, <2>3, Zenon DEF SwitchWay
  <1>10. ASSUME NEW c \in CPUs, NEW p \in Procs, SchedWay(c, p) PROVE IoInv'
    BY <1>t, <1>10, Zenon DEF SchedWay, SwitchTo, NextSlotOf, SwitchedBack, threadVars,
       IoInv, Where
  <1>11. ASSUME NEW c \in CPUs, NEW q \in Procs, ClockWay(c, q) PROVE IoInv'
    BY <1>t, <1>11, Zenon DEF ClockWay, TimerTaken, Tick, TickSlot, TickDone, threadVars,
       IoInv, Where
  <1>12. ASSUME NEW c \in CPUs, NEW p \in Procs, TrapWay(c, p) PROVE IoInv'
    <2>1. CASE HandlerDone(c)
      BY <1>t, <2>1, Zenon DEF HandlerDone, threadVars, IoInv, Where
    <2>2. CASE HandlerExit(c, p) \/ HandlerYield(c, p)
      <3>1. /\ loc' = loc
            /\ \A r \in Procs \ {p} : pc'[r] = pc[r] /\ saved'[r] = saved[r]
            /\ \/ pc[p] = "user"
               \/ pc[p] \in Interruptible /\ pc'[p] = "yield" /\ saved'[p] = pc[p]
        BY <1>t, <2>2, Zenon DEF HandlerExit, HandlerYield, CpuInv
      <3>2. loc[p].chan = IoChan => Where(p)' = Where(p)
        BY <1>t, <3>1, Zenon DEF Interruptible, IoInv, Where
      <3> QED  BY <1>t, <3>1, <3>2, IoFrame, Zenon DEF IoInv
    <2> QED  BY <1>12, <2>1, <2>2, Zenon DEF TrapWay
  <1>13. ASSUME UNCHANGED vars PROVE IoInv'
    BY <1>t, <1>13, Zenon DEF vars, threadVars, IoInv, Where
  <1>14. ASSUME NEW c \in CPUs, NEW p \in Procs, NEW q \in Procs, IoWay(p, c, q)
         PROVE  IoInv'
    <2>1. CASE TakeFault(p, c) \/ StartIo(p, c) \/ EndIo(p, c)
      <3>1. \A r \in Procs \ {p} : loc'[r] = loc[r] /\ pc'[r] = pc[r] /\ saved'[r] = saved[r]
        BY <1>t, <2>1, Zenon DEF TakeFault, StartIo, EndIo, ClearLocals, SetLocals, Still
      <3>2. \/ pc[p] = "user" /\ loc' = loc
            \/ p # initproc /\ pc'[p] = "sleep"
            \/ loc'[p].chan # IoChan
        BY <1>t, <2>1, Zenon DEF TakeFault, StartIo, EndIo, ClearLocals, SetLocals, On
      <3>3. loc'[p].chan = IoChan => p # initproc /\ Where(p)' = "sleep"
        BY <1>t, <3>2, Zenon DEF IoInv, Where
      <3> QED  BY <1>t, <3>1, <3>3, IoFrame, Zenon
    <2>2. CASE WakeIo(q)
      BY <1>t, <2>2, Zenon DEF WakeIo, threadVars, IoInv, Where
    <2> QED  BY <1>14, <2>1, <2>2, Zenon DEF IoWay
  <1> QED
    BY <1>1, <1>2, <1>3, <1>4, <1>5, <1>6, <1>7, <1>8, <1>9, <1>10, <1>11, <1>12,
       <1>13, <1>14, Zenon DEF AnyWay

\* Locals that are reset are cleared, field by field.
LEMMA Cleared ==
  ASSUME loc \in [Procs -> Locals], NEW p \in Procs, loc' = [loc EXCEPT ![p] = NoLocals]
  PROVE  ClearLocals(p)
  BY DEF ClearLocals, SetLocals, Locals, NoLocals, NoChan

\* A call that returns clears its locals.
LEMMA ReturnClears ==
  ASSUME loc \in [Procs -> Locals], NEW p \in Procs, Return(p)
  PROVE  ClearLocals(p)
  BY Cleared, Zenon DEF Return

\* The scheduler's next slot is a slot.
LEMMA SlotNext ==
  ASSUME NEW p \in Procs
  PROVE  NextSlot(p) \in Procs
  <1>1. p % NPROC \in 0 .. NPROC - 1
    BY ProcAssumption DEF Procs
  <1> QED  BY <1>1, ProcAssumption DEF NextSlot, Procs

\* sched's checks: the thread holds p->lock and nothing else, and its state is
\* no longer RUNNING.
LEMMA SchedChecks ==
  ASSUME IInv, NEW c \in CPUs, NEW p \in Procs,
         pc[p] \in {"sched_yield", "sched_sleep", "sched_zombie"}, At(p, c, pc[p])
  PROVE  plock[p] = c /\ ~OtherLocks(p, c) /\ state[p] # "RUNNING"
  <1>1. si[c] = p /\ spc[c] = "run" /\ hpc[c] = "none"
    BY Zenon DEF IInv, CpuInv, At
  <1>2. plock[p] = c /\ wait_lock # c /\ tickslock # c
    BY <1>1 DEF IInv, LockInv, HoldsProc, HoldsWait, HoldsTicks
  <1>4. ~OtherLocks(p, c)
    BY <1>1, <1>2, Zenon DEF IInv, LockInv, OtherLocks
  <1>5. state[p] # "RUNNING"
    BY <1>1, Zenon DEF IInv, RunInv, StateAt
  <1> QED  BY <1>2, <1>4, <1>5, Zenon

\* Every step of the system goes one of these ways.
LEMMA StepWays ==
  ASSUME IInv, [Next]_vars
  PROVE  AnyWay
  <1>t. TypeOK /\ CpuInv
    BY Zenon DEF IInv
  <1>l. loc \in [Procs -> Locals] /\ pc \in [Procs -> PCs]
    BY <1>t, Zenon DEF TypeOK, ThreadType
  <1>n. 0 \in Nat /\ "user" \in PCs /\ initproc \in Procs
    BY Numbers, Zenon DEF PCs, Interruptible
  <1>1. ASSUME NEW c \in CPUs, NEW p \in Procs, NEW call \in Syscalls, Syscall(p, c, call)
        PROVE  AnyWay
    <2> SUFFICES \/ \E to \in PCs : Hop(p, c, to)
                 \/ \E k \in Nat : CallKill(p, c, k)
                 \/ \E k \in Nat : CallSleep(p, c, k)
      BY <1>n, Zenon DEF AnyWay, CallWay
    <2>1. On(p, c, "user")
      BY <1>t, <1>1, Zenon DEF Syscall, At, On, CpuInv
    <2>2. CASE call \in {"fork", "exit", "wait", "io"}
      <3>1. Hop(p, c, call)
        BY <2>1, <2>2, <1>1, Zenon DEF Syscall, Goto, Hop, Still, On
      <3> QED  BY <2>2, <3>1, Zenon DEF PCs, Interruptible
    <2>3. CASE call = "kill"
      <3>1. PICK k \in KillPids : loc' = [loc EXCEPT ![p].arg = k]
        BY <2>3, <1>1, Zenon DEF Syscall
      <3>2. /\ SetLocals(p, loc[p].i, loc[p].w, loc[p].chan, k, loc[p].n)
            /\ loc'[p].flag = loc[p].flag
        BY <3>1, <1>l, ProcAssumption, Zenon DEF Locals, SetLocals
      <3>3. CallKill(p, c, k)
        BY <2>1, <2>3, <3>2, <1>1, Zenon DEF Syscall, Goto, CallKill, Still
      <3> QED  BY <3>3, ProcAssumption, Zenon
    <2>4. CASE call = "sleep"
      <3>1. PICK n \in SleepTicks : loc' = [loc EXCEPT ![p].n = n]
        BY <2>4, <1>1, Zenon DEF Syscall
      <3>0. n \in Nat
        BY ProcAssumption
      <3>2. /\ SetLocals(p, loc[p].i, loc[p].w, loc[p].chan, loc[p].arg, n)
            /\ loc'[p].flag = loc[p].flag
        BY <3>0, <3>1, <1>l, Zenon DEF Locals, SetLocals
      <3>3. CallSleep(p, c, n)
        BY <2>1, <2>4, <3>0, <3>2, <1>1, Zenon DEF Syscall, Goto, CallSleep, Still
      <3> QED  BY <3>0, <3>3, Zenon
    <2> QED
      BY <2>2, <2>3, <2>4, <1>1, Zenon DEF Syscall
  <1>2. ASSUME NEW c \in CPUs, NEW p \in Procs, KilledAtEntry(p, c) PROVE AnyWay
    <2> SUFFICES \E to \in PCs : Hop(p, c, to)
      BY <1>n, Zenon DEF AnyWay, CallWay
    <2>1. Hop(p, c, "exit")
      BY <1>t, <1>2, Zenon DEF KilledAtEntry, At, On, Goto, Hop, Still, CpuInv
    <2> QED  BY <2>1, Zenon DEF PCs, Interruptible
  <1>3. ASSUME NEW c \in CPUs, NEW p \in Procs, UserTrapRet(p, c) PROVE AnyWay
    <2> SUFFICES \E to \in PCs : Hop(p, c, to)
      BY <1>n, Zenon DEF AnyWay, CallWay
    <2>1. Hop(p, c, "exit") \/ Hop(p, c, "user")
      BY <1>t, <1>3, Zenon DEF UserTrapRet, At, On, Goto, Hop, Still, CpuInv
    <2> QED  BY <2>1, Zenon DEF PCs, Interruptible
  <1>4. ASSUME NEW c \in CPUs, NEW p \in Procs, AllocProc(p, c) PROVE AnyWay
    <2> SUFFICES \/ ScanNext(p, c)
                 \/ \E q \in Procs : AllocTake(p, c, q) \/ AllocFail(p, c, q)
      BY Zenon DEF AnyWay, ScanWay, ForkWay
    <2> DEFINE np == loc[p].i
    <2>1. On(p, c, "fork") /\ np \in Procs /\ plock[np] = None
      BY <1>t, <1>4, Zenon DEF AllocProc, At, On, CpuInv
    <2>2. CASE state[np] # "UNUSED"
      <3>1. loc' = [loc EXCEPT ![p].i = loc[p].i + 1]
        BY <2>2, <1>4, Zenon DEF AllocProc
      <3>2. /\ SetLocals(p, loc[p].i + 1, loc[p].w, loc[p].chan, loc[p].arg, loc[p].n)
            /\ loc'[p].flag = loc[p].flag
        BY <3>1, <1>l DEF Locals, SetLocals
      <3>3. ScanNext(p, c)
        BY <2>1, <2>2, <3>2, <1>4, Zenon DEF AllocProc, On, ScanNext, Still
      <3> QED  BY <3>3, Zenon
    <2>3. CASE state[np] = "UNUSED" /\ freeproc(np) /\ Return(p)
      <3>1. ClearLocals(p)
        BY <2>3, <1>l, ReturnClears, Zenon
      <3>2. AllocFail(p, c, np)
        BY <2>1, <2>3, <3>1, <1>4, Zenon DEF AllocProc, AllocFail, Return, Goto,
           Still
      <3> QED  BY <2>1, <3>2, Zenon
    <2>4. CASE state[np] = "UNUSED" /\ ~(freeproc(np) /\ Return(p))
      <3>1. loc' = [loc EXCEPT ![p] = [NoLocals EXCEPT !.arg = np]]
        BY <2>4, <1>4, Zenon DEF AllocProc
      <3>2. SetLocals(p, 1, 1, NoChan, np, 0) /\ ~loc'[p].flag
        BY <2>1, <3>1, <1>l, ProcAssumption, Zenon DEF Locals, SetLocals, NoLocals,
           NoChan, Procs
      <3>3. AllocTake(p, c, np)
        BY <2>1, <2>4, <3>2, <1>4, Zenon DEF AllocProc, AllocTake, Still
      <3> QED  BY <2>1, <3>3, Zenon
    <2> QED  BY <2>2, <2>3, <2>4, Zenon
  <1>5. ASSUME NEW c \in CPUs, NEW p \in Procs, NoFreeProc(p, c) PROVE AnyWay
    <2> SUFFICES ScanReturn(p, c)
      BY Zenon DEF AnyWay, ScanWay
    <2>1. ClearLocals(p)
      BY <1>l, <1>5, ReturnClears, Zenon DEF NoFreeProc
    <2>2. ScanReturn(p, c)
      BY <1>t, <2>1, <1>5, Zenon DEF NoFreeProc, At, On, CpuInv, Return, Goto,
         ScanReturn, Still
    <2> QED  BY <2>2, Zenon
  <1>6. ASSUME NEW c \in CPUs, NEW p \in Procs, ForkParent(p, c) PROVE AnyWay
    <2> SUFFICES ParentSet(p, c)
      BY Zenon DEF AnyWay, ForkWay
    <2>1. ParentSet(p, c)
      BY <1>t, <1>6, Zenon DEF ForkParent, At, On, CpuInv, Goto, ParentSet, Still
    <2> QED  BY <2>1, Zenon
  <1>7. ASSUME NEW c \in CPUs, NEW p \in Procs, ForkRunnable(p, c) PROVE AnyWay
    <2> SUFFICES ChildRunnable(p, c)
      BY Zenon DEF AnyWay, ForkWay
    <2>1. ClearLocals(p)
      BY <1>l, <1>7, ReturnClears, Zenon DEF ForkRunnable
    <2>2. ChildRunnable(p, c)
      BY <1>t, <2>1, <1>7, Zenon DEF ForkRunnable, At, On, CpuInv, Return, Goto,
         ChildRunnable, Still
    <2> QED  BY <2>2, Zenon
  <1>8. ASSUME NEW c \in CPUs, NEW p \in Procs, Exit(p, c) PROVE AnyWay
    <2> SUFFICES \/ \E to \in PCs : Hop(p, c, to)
                 \/ TakeWait(p, c)
      BY <1>n, Zenon DEF AnyWay, CallWay, ExitWay
    <2>1. On(p, c, "exit")
      BY <1>t, <1>8, Zenon DEF Exit, At, On, CpuInv
    <2>2. CASE p = initproc
      <3>1. Hop(p, c, "panic")
        BY <2>1, <2>2, <1>8, Zenon DEF Exit, Goto, Hop, Still, On, lockVars
      <3> QED  BY <3>1, Zenon DEF PCs, Interruptible
    <2>3. CASE p # initproc
      <3>1. TakeWait(p, c)
        BY <2>1, <2>3, <1>8, Zenon DEF Exit, Goto, TakeWait, Still
      <3> QED  BY <3>1, Zenon DEF PCs, Interruptible
    <2> QED  BY <2>2, <2>3, Zenon
  <1>9. ASSUME NEW c \in CPUs, NEW p \in Procs, Reparent(p, c) PROVE AnyWay
    <2> SUFFICES (\E q \in Procs : ReparentChild(p, c, q)) \/ ReparentDone(p, c)
      BY Zenon DEF AnyWay, ExitWay
    <2>1. On(p, c, "reparent")
      BY <1>t, <1>9, Zenon DEF Reparent, At, On, CpuInv
    <2>2. ASSUME NEW q \in Procs, NextChild(p, q), parent' = [parent EXCEPT ![q] = initproc],
                 loc' = [loc EXCEPT ![p].i = q + 1, ![p].chan = initproc]
          PROVE  ReparentChild(p, c, q)
      <3>1. q + 1 \in Nat /\ initproc \in Nat
        BY DEF Procs, initproc
      <3>2. /\ SetLocals(p, q + 1, loc[p].w, initproc, loc[p].arg, loc[p].n)
            /\ loc'[p].flag = loc[p].flag
        BY <2>2, <3>1, <1>l, Zenon DEF Locals, SetLocals
      <3> QED
        BY <2>1, <2>2, <3>2, <1>9, Zenon DEF Reparent, Goto, ReparentChild, Still
    <2>3. ASSUME NoChildLeft(p), UNCHANGED parent,
                 loc' = [loc EXCEPT ![p].flag = TRUE, ![p].chan = parent[p]]
          PROVE  ReparentDone(p, c)
      <3>1. parent[p] \in Nat \cup {None}
        BY <1>t DEF TypeOK, ProcType, Procs
      <3>2. SetLocals(p, loc[p].i, loc[p].w, parent[p], loc[p].arg, loc[p].n) /\ loc'[p].flag
        BY <2>3, <3>1, <1>l, Zenon DEF Locals, SetLocals
      <3> QED
        BY <2>1, <2>3, <3>2, <1>9, Zenon DEF Reparent, Goto, ReparentDone, Still,
           procVars
    <2> QED  BY <2>2, <2>3, <1>9, Zenon DEF Reparent
  <1>10. ASSUME NEW c \in CPUs, NEW p \in Procs, Wakeup(p, c) PROVE AnyWay
    <2> SUFFICES (\E q \in Procs : WakeSlot(p, c, q)) \/ WakeDone(p, c)
      BY Zenon DEF AnyWay, WakeWay
    <2> DEFINE q == loc[p].w
    <2>1. On(p, c, "wakeup") /\ q \in Nat
      BY <1>t, <1>l, <1>10, Zenon DEF Wakeup, At, On, CpuInv, Locals
    <2>2. CASE q \in Procs
      <3>0. ~(q > NPROC)
        BY <2>2, ProcAssumption DEF Procs
      <3>1. loc' = [loc EXCEPT ![p].w = q + 1] /\ UNCHANGED pc
        BY <3>0, <1>10, Zenon DEF Wakeup
      <3>2. /\ SetLocals(p, loc[p].i, q + 1, loc[p].chan, loc[p].arg, loc[p].n)
            /\ loc'[p].flag = loc[p].flag
        BY <2>1, <3>1, <1>l DEF Locals, SetLocals
      <3>3. WakeSlot(p, c, q)
        BY <2>1, <2>2, <3>0, <3>1, <3>2, <1>10, Zenon DEF Wakeup, WakeSlot, Still
      <3> QED  BY <2>2, <3>3, Zenon
    <2>3. CASE q \notin Procs
      <3>1. loc' = [loc EXCEPT ![p].w = 1, ![p].chan = NoChan]
        BY <2>3, <1>10, Zenon DEF Wakeup
      <3>2. /\ SetLocals(p, loc[p].i, 1, NoChan, loc[p].arg, loc[p].n)
            /\ loc'[p].flag = loc[p].flag
        BY <3>1, <1>l, Zenon DEF Locals, SetLocals, NoChan
      <3>3. WakeDone(p, c)
        BY <2>1, <2>3, <3>2, <1>10, Zenon DEF Wakeup, Goto, WakeDone, Still,
           procVars
      <3> QED  BY <3>3, Zenon
    <2> QED  BY <2>2, <2>3, Zenon
  <1>11. ASSUME NEW c \in CPUs, NEW p \in Procs, Zombie(p, c) PROVE AnyWay
    <2> SUFFICES BecomeZombie(p, c)
      BY Zenon DEF AnyWay, ExitWay
    <2>1. ClearLocals(p)
      BY <1>l, <1>11, Cleared, Zenon DEF Zombie
    <2>2. BecomeZombie(p, c)
      BY <1>t, <2>1, <1>11, Zenon DEF Zombie, At, On, CpuInv, Goto, BecomeZombie,
         Still
    <2> QED  BY <2>2, Zenon
  <1>12. ASSUME NEW c \in CPUs, NEW p \in Procs, Wait(p, c) PROVE AnyWay
    <2> SUFFICES TakeWait(p, c)
      BY Zenon DEF AnyWay, ExitWay
    <2>1. TakeWait(p, c)
      BY <1>t, <1>12, Zenon DEF Wait, At, On, CpuInv, Goto, TakeWait, Still
    <2> QED  BY <2>1, Zenon DEF PCs
  <1>13. ASSUME NEW c \in CPUs, NEW p \in Procs, WaitScan(p, c) PROVE AnyWay
    <2> SUFFICES (\E q \in Procs : WaitNext(p, c, q) \/ WaitReap(p, c, q)) \/ WaitReturn(p, c)
      BY Zenon DEF AnyWay, WaitWay
    <2>1. On(p, c, "wait_scan")
      BY <1>t, <1>13, Zenon DEF WaitScan, At, On, CpuInv
    <2>2. PICK q \in Procs :
            /\ NextChild(p, q)
            /\ plock[q] = None
            /\ \/ /\ state[q] # "ZOMBIE"
                  /\ loc' = [loc EXCEPT ![p].i = q + 1, ![p].flag = TRUE]
                  /\ UNCHANGED <<procVars, wait_lock, pc>>
               \/ /\ state[q] = "ZOMBIE"
                  /\ freeproc(q) \/ UNCHANGED procVars
                  /\ wait_lock' = None
                  /\ Return(p)
      BY <1>13, Zenon DEF WaitScan
    <2>3. CASE state[q] # "ZOMBIE"
      <3>1. q + 1 \in Nat
        BY DEF Procs
      <3>2. SetLocals(p, q + 1, loc[p].w, loc[p].chan, loc[p].arg, loc[p].n) /\ loc'[p].flag
        BY <2>2, <2>3, <3>1, <1>l DEF Locals, SetLocals
      <3>3. WaitNext(p, c, q)
        BY <2>1, <2>2, <2>3, <3>2, <1>13, Zenon DEF WaitScan, WaitNext, Still,
           lockVars
      <3> QED  BY <3>3, Zenon
    <2>4. CASE state[q] = "ZOMBIE"
      <3>1. ClearLocals(p)
        BY <2>2, <2>4, <1>l, ReturnClears, Zenon
      <3>2. WaitReap(p, c, q) \/ WaitReturn(p, c)
        BY <2>1, <2>2, <2>4, <3>1, <1>13, Zenon DEF WaitScan, WaitReap, WaitReturn,
           Return, Goto, Still
      <3> QED  BY <3>2, Zenon
    <2> QED  BY <2>3, <2>4, Zenon
  <1>14. ASSUME NEW c \in CPUs, NEW p \in Procs, WaitEnd(p, c) PROVE AnyWay
    <2> SUFFICES WaitReturn(p, c) \/ WaitSleep(p, c)
      BY Zenon DEF AnyWay, WaitWay
    <2>1. On(p, c, "wait_scan") /\ NoChildLeft(p)
      BY <1>t, <1>14, Zenon DEF WaitEnd, At, On, CpuInv
    <2>2. CASE ~loc[p].flag \/ killed[p]
      <3>1. wait_lock' = None /\ Return(p)
        BY <2>2, <1>14, Zenon DEF WaitEnd
      <3>2. ClearLocals(p)
        BY <3>1, <1>l, ReturnClears, Zenon
      <3>3. WaitReturn(p, c)
        BY <2>1, <3>1, <3>2, <1>14, Zenon DEF WaitEnd, WaitReturn, Return, Goto,
           Still
      <3> QED  BY <3>3, Zenon
    <2>3. CASE ~(~loc[p].flag \/ killed[p])
      <3>1. loc' = [loc EXCEPT ![p] = [NoLocals EXCEPT !.chan = p]]
        BY <2>3, <1>14, Zenon DEF WaitEnd
      <3>0. p \in Nat
        BY DEF Procs
      <3>2. SetLocals(p, 1, 1, p, 0, 0) /\ ~loc'[p].flag
        BY <3>0, <3>1, <1>l, Zenon DEF Locals, SetLocals, NoLocals
      <3>3. WaitSleep(p, c)
        BY <2>1, <2>3, <3>2, <1>14, Zenon DEF WaitEnd, Goto, WaitSleep, Still,
           lockVars
      <3> QED  BY <3>3, Zenon
    <2> QED  BY <2>2, <2>3, Zenon
  <1>15. ASSUME NEW c \in CPUs, NEW p \in Procs, Kill(p, c) PROVE AnyWay
    <2> SUFFICES ScanNext(p, c) \/ ScanReturn(p, c) \/ \E q \in Procs : KillFound(p, c, q)
      BY Zenon DEF AnyWay, ScanWay
    <2> DEFINE q == loc[p].i
    <2>1. On(p, c, "kill")
      BY <1>t, <1>15, Zenon DEF Kill, At, On, CpuInv
    <2>2. CASE q > NPROC /\ Return(p) /\ UNCHANGED <<state, killed>>
      <3>1. ClearLocals(p)
        BY <2>2, <1>l, ReturnClears, Zenon
      <3>2. ScanReturn(p, c)
        BY <2>1, <2>2, <3>1, <1>15, Zenon DEF Kill, On, ScanReturn, Return, Goto,
           Still, procVars
      <3> QED  BY <3>2, Zenon
    <2>3. CASE UNCHANGED <<state, killed, pc>> /\ loc' = [loc EXCEPT ![p].i = q + 1]
      <3>1. /\ SetLocals(p, loc[p].i + 1, loc[p].w, loc[p].chan, loc[p].arg, loc[p].n)
            /\ loc'[p].flag = loc[p].flag
        BY <2>3, <1>l DEF Locals, SetLocals
      <3>2. ScanNext(p, c)
        BY <2>1, <2>3, <3>1, <1>15, Zenon DEF Kill, On, ScanNext, Still, procVars
      <3> QED  BY <3>2, Zenon
    <2>4. CASE /\ q \in Procs /\ plock[q] = None /\ pid[q] = loc[p].arg
               /\ killed' = [killed EXCEPT ![q] = TRUE]
               /\ state' = [state EXCEPT ![q] = IF @ = "SLEEPING" THEN "RUNNABLE" ELSE @]
               /\ Return(p)
      <3>1. ClearLocals(p)
        BY <2>4, <1>l, ReturnClears, Zenon
      <3>2. KillFound(p, c, q)
        BY <2>1, <2>4, <3>1, <1>15, Zenon DEF Kill, KillFound, Return, Goto, Still
      <3> QED  BY <2>4, <3>2, Zenon
    <2> QED  BY <2>2, <2>3, <2>4, <1>15, Zenon DEF Kill
  <1>16. ASSUME NEW c \in CPUs, NEW p \in Procs, SysSleep(p, c) PROVE AnyWay
    <2> SUFFICES SleepStart(p, c)
      BY Zenon DEF AnyWay, TimedWay
    <2>1. loc' = [loc EXCEPT ![p].arg = ticks] /\ ticks \in Nat
      BY <1>t, <1>16, Zenon DEF SysSleep, TypeOK, ProcType
    <2>2. /\ SetLocals(p, loc[p].i, loc[p].w, loc[p].chan, ticks, loc[p].n)
          /\ loc'[p].flag = loc[p].flag
      BY <2>1, <1>l, Zenon DEF Locals, SetLocals
    <2>3. SleepStart(p, c)
      BY <1>t, <2>2, <1>16, Zenon DEF SysSleep, At, On, CpuInv, Goto, SleepStart,
         Still
    <2> QED  BY <2>3, Zenon
  <1>17. ASSUME NEW c \in CPUs, NEW p \in Procs, SysSleepLoop(p, c) PROVE AnyWay
    <2> SUFFICES SleepOver(p, c) \/ SleepMore(p, c)
      BY Zenon DEF AnyWay, TimedWay
    <2>1. On(p, c, "sys_sleep_loop")
      BY <1>t, <1>17, Zenon DEF SysSleepLoop, At, On, CpuInv
    <2>2. CASE ~StillEarly(p) \/ killed[p]
      <3>1. tickslock' = None /\ Return(p)
        BY <2>2, <1>17, Zenon DEF SysSleepLoop
      <3>2. ClearLocals(p)
        BY <3>1, <1>l, ReturnClears, Zenon
      <3>3. SleepOver(p, c)
        BY <2>1, <3>1, <3>2, <1>17, Zenon DEF SysSleepLoop, SleepOver, Return,
           Goto, Still
      <3> QED  BY <3>3, Zenon
    <2>3. CASE ~(~StillEarly(p) \/ killed[p])
      <3>1. loc' = [loc EXCEPT ![p].chan = TicksChan]
        BY <2>3, <1>17, Zenon DEF SysSleepLoop
      <3>2. /\ SetLocals(p, loc[p].i, loc[p].w, TicksChan, loc[p].arg, loc[p].n)
            /\ loc'[p].flag = loc[p].flag
        BY <3>1, <1>l, ProcAssumption DEF Locals, SetLocals, TicksChan
      <3>3. SleepMore(p, c)
        BY <2>1, <2>3, <3>2, <1>17, Zenon DEF SysSleepLoop, Goto, SleepMore, Still,
           lockVars
      <3> QED  BY <3>3, Zenon
    <2> QED  BY <2>2, <2>3, Zenon
  <1>18. ASSUME NEW c \in CPUs, NEW p \in Procs, SleepLockProc(p, c) PROVE AnyWay
    <2> SUFFICES LockSelf(p, c)
      BY Zenon DEF AnyWay, SleepWay
    <2>1. LockSelf(p, c)
      BY <1>t, <1>18, Zenon DEF SleepLockProc, At, On, CpuInv, Goto, LockSelf,
         Still
    <2> QED  BY <2>1, Zenon
  <1>19. ASSUME NEW c \in CPUs, NEW p \in Procs, SleepRelease(p, c) PROVE AnyWay
    <2> SUFFICES FallAsleep(p, c)
      BY Zenon DEF AnyWay, SleepWay
    <2>1. \/ loc[p].chan = TicksChan /\ tickslock' = None /\ wait_lock' = wait_lock
          \/ loc[p].chan = p /\ wait_lock' = None /\ tickslock' = tickslock
          \/ loc[p].chan \notin {TicksChan, p} /\ UNCHANGED <<wait_lock, tickslock>>
      BY <1>19, IoNumbers, SMT DEF SleepRelease
    <2>2. FallAsleep(p, c)
      BY <1>t, <1>19, <2>1, Zenon DEF SleepRelease, At, On, CpuInv, Goto, FallAsleep,
         Still
    <2> QED  BY <2>2, Zenon
  <1>20. ASSUME NEW c \in CPUs, NEW p \in Procs, Slept(p, c) PROVE AnyWay
    <2> SUFFICES Awake(p, c)
      BY Zenon DEF AnyWay, SleepWay
    <2>1. Awake(p, c)
      BY <1>t, <1>20, Zenon DEF Slept, At, On, CpuInv, Goto, Awake, Still
    <2> QED  BY <2>1, Zenon
  <1>21. ASSUME NEW c \in CPUs, NEW p \in Procs, Reacquire(p, c) PROVE AnyWay
    <2> SUFFICES RelockTicks(p, c) \/ RelockWait(p, c) \/ EndIo(p, c)
      BY Zenon DEF AnyWay, SleepWay, IoWay
    <2>1. On(p, c, "reacquire")
      BY <1>t, <1>21, Zenon DEF Reacquire, At, On, CpuInv
    <2>2. CASE loc[p].chan = IoChan
      <3>1. loc' = [loc EXCEPT ![p] = NoLocals]
        BY <2>2, <1>21, IoNumbers, Zenon DEF Reacquire
      <3>2. ClearLocals(p)
        BY <3>1, <1>l, Cleared, Zenon
      <3>3. EndIo(p, c)
        BY <2>1, <2>2, <3>2, <1>21, IoNumbers, Zenon DEF Reacquire, Goto, EndIo, Still,
           lockVars
      <3> QED  BY <3>3, Zenon
    <2>3. CASE loc[p].chan # IoChan
      <3>1. loc' = [loc EXCEPT ![p].chan = NoChan]
        BY <2>3, <1>21, Zenon DEF Reacquire
      <3>2. /\ SetLocals(p, loc[p].i, loc[p].w, NoChan, loc[p].arg, loc[p].n)
            /\ loc'[p].flag = loc[p].flag
        BY <3>1, <1>l, Zenon DEF Locals, SetLocals, NoChan
      <3>3. RelockTicks(p, c) \/ RelockWait(p, c)
        BY <2>1, <2>3, <3>2, <1>21, Zenon DEF Reacquire, Goto, RelockTicks, RelockWait,
           Still
      <3> QED  BY <3>3, Zenon
    <2> QED  BY <2>2, <2>3, Zenon
  <1>22. ASSUME NEW c \in CPUs, NEW p \in Procs, Yield(p, c) PROVE AnyWay
    <2> SUFFICES YieldLock(p, c)
      BY Zenon DEF AnyWay, SwitchWay
    <2>1. YieldLock(p, c)
      BY <1>t, <1>22, Zenon DEF Yield, At, On, CpuInv, Goto, YieldLock, Still
    <2> QED  BY <2>1, Zenon
  <1>23. ASSUME NEW c \in CPUs, NEW p \in Procs, Sched(p, c) PROVE AnyWay
    <2> SUFFICES SwitchAway(p, c)
      BY Zenon DEF AnyWay, SwitchWay
    <2>1. SwitchAway(p, c)
      BY <1>t, <1>l, <1>23, SchedChecks DEF Sched, At, On, CpuInv, Goto, SwitchAway
    <2> QED  BY <2>1, Zenon DEF PCs
  <1>24. ASSUME NEW c \in CPUs, NEW p \in Procs, Yielded(p, c) PROVE AnyWay
    <2> SUFFICES YieldReturn(p, c)
      BY Zenon DEF AnyWay, SwitchWay
    <2>1. YieldReturn(p, c)
      BY <1>t, <1>24, Zenon DEF Yielded, At, On, CpuInv, Goto, YieldReturn, Still
    <2> QED  BY <2>1, Zenon
  <1>25. ASSUME NEW c \in CPUs, NEW p \in Procs, ForkRet(p, c) PROVE AnyWay
    <2> SUFFICES FirstRun(p, c)
      BY Zenon DEF AnyWay, SwitchWay
    <2>1. FirstRun(p, c)
      BY <1>t, <1>25, Zenon DEF ForkRet, At, On, CpuInv, Goto, FirstRun, Still
    <2> QED  BY <2>1, Zenon
  <1>26. ASSUME NEW c \in CPUs, Scheduler(c) PROVE AnyWay
    <2> SUFFICES \E p \in Procs : SwitchTo(c, p) \/ NextSlotOf(c, p)
      BY Zenon DEF AnyWay, SchedWay
    <2>1. si[c] \in Procs /\ NextSlot(si[c]) \in Procs
      BY <1>t, SlotNext, Zenon DEF TypeOK, CpuType
    <2>2. SwitchTo(c, si[c]) \/ NextSlotOf(c, NextSlot(si[c]))
      BY <2>1, <1>26, Zenon DEF Scheduler, SwitchTo, NextSlotOf, procVars, lockVars
    <2> QED  BY <2>1, <2>2, Zenon
  <1>27. ASSUME NEW c \in CPUs, SchedulerBack(c) PROVE AnyWay
    <2> SUFFICES \E p \in Procs : SwitchedBack(c, p)
      BY Zenon DEF AnyWay, SchedWay
    <2>1. si[c] \in Procs /\ NextSlot(si[c]) \in Procs /\ si \in [CPUs -> Procs]
      BY <1>t, SlotNext, Zenon DEF TypeOK, CpuType
    <2>2. SwitchedBack(c, NextSlot(si[c]))
      BY <2>1, <1>27, Zenon DEF SchedulerBack, SwitchedBack
    <2> QED  BY <2>1, <2>2, Zenon
  <1>28. ASSUME NEW c \in CPUs, Timer(c) PROVE AnyWay
    <2> SUFFICES TimerTaken(c)
      BY <1>n, Zenon DEF AnyWay, ClockWay
    <2>1. TimerTaken(c)
      BY <1>t, <1>28, Zenon DEF Timer, InterruptsOn, TimerTaken, CpuInv
    <2> QED  BY <2>1, Zenon
  <1>29. ASSUME NEW c \in CPUs, ClockIntr(c) PROVE AnyWay
    <2> SUFFICES Tick(c)
      BY <1>n, Zenon DEF AnyWay, ClockWay
    <2>1. (ticks + 1) % TickMod \in Nat
      BY <1>t, ProcAssumption DEF TypeOK, ProcType
    <2>2. Tick(c)
      BY <2>1, <1>29, Zenon DEF ClockIntr, Tick
    <2> QED  BY <2>1, <2>2, Zenon
  <1>30. ASSUME NEW c \in CPUs, ClockWakeup(c) PROVE AnyWay
    <2> SUFFICES (\E q \in Procs : TickSlot(c, q)) \/ TickDone(c)
      BY <1>n, Zenon DEF AnyWay, ClockWay
    <2>1. CASE hi[c] \in Procs
      <3>0. ~(hi[c] > NPROC)
        BY <2>1, ProcAssumption DEF Procs
      <3>1. TickSlot(c, hi[c])
        BY <2>1, <3>0, <1>30, Zenon DEF ClockWakeup, TickSlot, lockVars
      <3> QED  BY <2>1, <3>1, Zenon
    <2>2. CASE hi[c] \notin Procs
      <3>1. TickDone(c)
        BY <2>2, <1>30, Zenon DEF ClockWakeup, TickDone, procVars
      <3> QED  BY <3>1, Zenon
    <2> QED  BY <2>1, <2>2, Zenon
  <1>31. ASSUME NEW c \in CPUs, Resched(c) PROVE AnyWay
    <2> SUFFICES HandlerDone(c) \/ \E p \in Procs : HandlerExit(c, p) \/ HandlerYield(c, p)
      BY <1>n, Zenon DEF AnyWay, TrapWay
    <2>1. cproc[c] = None => HandlerDone(c)
      BY <1>31, Zenon DEF Resched, HandlerDone, threadVars
    <2>2. CASE cproc[c] # None
      <3> DEFINE p == si[c]
      <3>1. p \in Procs /\ spc[c] = "run" /\ cproc[c] = p
        BY <1>t, <2>2, <1>31, Zenon DEF TypeOK, CpuType, CpuInv, Resched
      <3>2. HandlerDone(c) \/ HandlerExit(c, p) \/ HandlerYield(c, p)
        BY <2>2, <3>1, <1>31, Zenon DEF Resched, Goto, HandlerDone, HandlerExit,
           HandlerYield, threadVars
      <3> QED  BY <3>1, <3>2, Zenon
    <2> QED  BY <2>1, <2>2, Zenon
  <1>32. UNCHANGED vars => AnyWay
    BY Zenon DEF AnyWay
  <1>33. ASSUME NEW c \in CPUs, NEW p \in Procs, Fault(p, c) PROVE AnyWay
    <2> SUFFICES TakeFault(p, c)
      BY Zenon DEF AnyWay, IoWay
    <2> QED  BY <1>t, <1>33, Zenon DEF Fault, At, On, CpuInv, Goto, TakeFault, Still
  <1>34. ASSUME NEW c \in CPUs, NEW p \in Procs, IoSleep(p, c) PROVE AnyWay
    <2> SUFFICES StartIo(p, c)
      BY Zenon DEF AnyWay, IoWay
    <2> DEFINE a == IF pc[p] = "exit" THEN 1 ELSE 0
    <2>1. loc' = [loc EXCEPT ![p].chan = IoChan, ![p].arg = a]
      BY <1>34, Zenon DEF IoSleep
    <2>2. IoChan \in Nat /\ a \in Nat
      BY IoNumbers
    <2>3. /\ SetLocals(p, loc[p].i, loc[p].w, IoChan, a, loc[p].n)
          /\ loc'[p].flag = loc[p].flag
      <3> HIDE DEF a
      <3> QED  BY <2>1, <2>2, <1>l, Zenon DEF Locals, SetLocals
    <2> QED  BY <1>t, <1>34, <2>3, Zenon DEF IoSleep, At, On, CpuInv, Goto, StartIo, Still
  <1>35. ASSUME NEW c \in CPUs, NEW p \in Procs, IoReturn(p, c) PROVE AnyWay
    <2> SUFFICES ScanReturn(p, c)
      BY Zenon DEF AnyWay, ScanWay
    <2>1. ClearLocals(p)
      BY <1>l, <1>35, ReturnClears, Zenon DEF IoReturn
    <2> QED  BY <1>t, <2>1, <1>35, Zenon DEF IoReturn, At, On, CpuInv, Return, Goto,
                ScanReturn, Still
  <1>36. ASSUME NEW c \in CPUs, IoWakeup(c) PROVE AnyWay
    <2> SUFFICES \E q \in Procs : WakeIo(q)
      BY <1>n, Zenon DEF AnyWay, IoWay
    <2> QED  BY <1>36, Zenon DEF IoWakeup, Awaken, WakeIo
  <1> QED
    BY <1>1, <1>2, <1>3, <1>4, <1>5, <1>6, <1>7, <1>8, <1>9, <1>10, <1>11, <1>12,
       <1>13, <1>14, <1>15, <1>16, <1>17, <1>18, <1>19, <1>20, <1>21, <1>22, <1>23,
       <1>24, <1>25, <1>26, <1>27, <1>28, <1>29, <1>30, <1>31, <1>32, <1>33,
       <1>34, <1>35, <1>36, Zenon DEF Next, CpuStep, Work, Switch, HandlerStep

\* IInv holds at boot ...
LEMMA ProcInit == Init => IInv
  <1> SUFFICES ASSUME Init PROVE IInv
    OBVIOUS
  <1>1. initproc \in Procs /\ 1 \in Procs /\ NoChan \in Nat
    BY Numbers, Zenon DEF initproc, NoChan
  <1>2. TypeOK
    <2>1. NoLocals \in Locals
      BY Zenon DEF NoLocals, Locals, NoChan
    <2> QED  BY <1>1, <2>1, Zenon DEF Init, TypeOK, ProcType, LockType, CpuType,
                ThreadType, States, PCs, Interruptible
  <1>3. \A p \in Procs : loc[p].i = 1 /\ loc[p].w = 1 /\ ~loc[p].flag
    BY Zenon DEF Init, NoLocals
  <1>4. \A p \in Procs : pc[p] = "forkret" /\ parent[p] = None
    BY Zenon DEF Init
  <1>5. CpuInv /\ RunInv
    BY Zenon DEF Init, CpuInv, RunInv
  <1>6. LockInv
    BY ProcAssumption, Zenon DEF Init, LockInv
  <1>7. OffInv /\ ForkInv
    BY Zenon DEF Init, OffInv, Off, ForkInv, Forking, Where
  <1>8. InitInv
    BY <1>1 DEF Init, InitInv, initproc
  <1>9. LocInv
    BY <1>3, <1>4, Zenon DEF LocInv, FirstRound, Where
  <1>10. FamilyInv /\ WokenInv /\ ParentAwake /\ NoneMissed
    <2>1. \A p \in Procs \ {initproc} : state[p] = "UNUSED"
      BY Zenon DEF Init
    <2> QED  BY <1>4, <2>1, Numbers, Zenon DEF FamilyInv, WokenInv, ParentAwake,
                NoneMissed
  <1>11. TickInv
    BY Zenon DEF Init, TickInv
  <1>12. IoInv
    BY IoNumbers, Zenon DEF Init, NoLocals, IoInv
  <1> QED  BY <1>2, <1>5, <1>6, <1>7, <1>8, <1>9, <1>10, <1>11, <1>12, Zenon DEF IInv

\* ... every step keeps it ...
LEMMA ProcStep == ASSUME IInv, [Next]_vars PROVE IInv'
  <1>0. AnyWay
    BY StepWays, Zenon
  <1>1. TypeOK' /\ CpuInv' /\ LockInv' /\ RunInv' /\ OffInv'
    BY <1>0, TypeStep, CpuInvStep, LockStep, RunStep, OffStep, Zenon
  <1>2. ForkInv' /\ InitInv' /\ LocInv' /\ FamilyInv'
    BY <1>0, ForkStep, InitStep, LocStep, FamilyStep, Zenon
  <1>3. WokenInv' /\ ParentAwake' /\ NoneMissed' /\ TickInv'
    BY <1>0, WokenStep, AwakeStep, MissedStep, TickStep, Zenon
  <1>4. IoInv'
    BY <1>0, IoStep, Zenon
  <1> QED  BY <1>1, <1>2, <1>3, <1>4, Zenon DEF IInv

\* The inductive invariant: the process table, the locks and the threads agree
\* in every reachable state, whatever NPROC, the cores and the calls.
THEOREM ProcInvariant == Spec => []IInv
  BY ProcInit, ProcStep, PTL DEF Spec

\* No two CPUs are ever on one kernel stack, and no slot is freed or allocated
\* while its thread is on a CPU.
THEOREM ProcStackInUse == Spec => []StackInUse
  <1>1. IInv => StackInUse
    <2> SUFFICES ASSUME IInv, NEW c \in CPUs, NEW p \in Procs, OnCpu(p, c)
                 PROVE  /\ state[p] \notin {"UNUSED", "USED"}
                        /\ \A d \in CPUs : OnCpu(p, d) => c = d
      BY Zenon DEF StackInUse
    <2>1. \A d \in CPUs : OnCpu(p, d) => spc[d] = "run" /\ si[d] = p
      BY Zenon DEF OnCpu, IInv, CpuInv
    <2> QED  BY <2>1 DEF IInv, CpuInv, RunInv, StateAt
  <1> QED  BY <1>1, ProcInvariant, PTL

\* No exit is lost: while wait_lock is free, no parent sleeps in wait with a
\* zombie child.
THEOREM ProcNoLostExit == Spec => []NoLostExit
  <1>1. IInv => NoLostExit
    <2> SUFFICES ASSUME IInv, wait_lock = None, NEW p \in Procs, NEW q \in Procs,
                        state[p] = "SLEEPING", chan[p] = p, parent[q] = p, state[q] = "ZOMBIE"
                 PROVE  FALSE
      BY Zenon DEF NoLostExit
    <2>1. PICK r \in Procs : pc[r] = "wakeup"
      BY Zenon DEF IInv, WokenInv, Asleep, WakeComing
    <2> QED  BY <2>1, WaitHolder, Zenon DEF HoldsWait
  <1> QED  BY <1>1, ProcInvariant, PTL

\* No tick is lost: while tickslock is free, nobody sleeps in sys_sleep past the
\* end of the time.
THEOREM ProcNoLostTick == Spec => []NoLostTick
  <1>1. IInv => NoLostTick
    <2> SUFFICES ASSUME IInv, tickslock = None, NEW p \in Procs,
                        state[p] = "SLEEPING", chan[p] = TicksChan, ~StillEarly(p)
                 PROVE  FALSE
      BY Zenon DEF NoLostTick
    <2>1. PICK c \in CPUs : hpc[c] = "wakeup"
      BY Zenon DEF IInv, TickInv
    <2> QED  BY <2>1, ProcAssumption DEF IInv, LockInv
  <1> QED  BY <1>1, ProcInvariant, PTL

\* A process that ran has a parent that can still wait for it.
THEOREM ProcLiveParent == Spec => []LiveParent
  <1>1. IInv => LiveParent
    BY Numbers, Zenon DEF IInv, FamilyInv, LiveParent
  <1> QED  BY <1>1, ProcInvariant, PTL

\* init is never killed and never calls exit.
LEMMA LivesStep ==
  ASSUME IInv, InitLives, 1 \notin KillPids, AnyWay
  PROVE  InitLives'
  <1>t. /\ state \in [Procs -> States] /\ pid \in [Procs -> Nat]
        /\ killed \in [Procs -> BOOLEAN] /\ pc \in [Procs -> PCs]
        /\ saved \in [Procs -> Interruptible] /\ loc \in [Procs -> Locals]
        /\ nextpid \in Nat
        /\ InitLives /\ InitInv /\ LocInv /\ IoInv /\ initproc \in Procs
    BY Numbers, Zenon DEF IInv, TypeOK, ProcType, ThreadType
  <1>1. ASSUME NEW c \in CPUs, NEW p \in Procs, NEW to \in PCs,
               NEW k \in Nat, CallWay(p, c, to, k)
        PROVE  InitLives'
    BY <1>t, <1>1, Zenon DEF CallWay, Hop, CallKill, SetLocals, CallSleep, On,
       Still, procVars, threadVars, InitLives, Where
  <1>2. ASSUME NEW c \in CPUs, NEW p \in Procs, NEW q \in Procs, ScanWay(p, c, q)
        PROVE  InitLives'
    BY <1>t, <1>2, SMTT(30) DEF ScanWay, ScanNext, SetLocals, ScanReturn,
       ClearLocals, KillFound, On, Still, procVars, threadVars, InitLives, Where,
       InitInv, LocInv
  <1>3. ASSUME NEW c \in CPUs, NEW p \in Procs, NEW q \in Procs, ForkWay(p, c, q)
        PROVE  InitLives'
    BY <1>t, <1>3, SMTT(30) DEF ForkWay, AllocTake, SetLocals, AllocFail, freeproc,
       ClearLocals, ParentSet, ChildRunnable, On, Still, procVars, threadVars,
       InitLives, Where, InitInv
  <1>4. ASSUME NEW c \in CPUs, NEW p \in Procs, NEW q \in Procs, ExitWay(p, c, q)
        PROVE  InitLives'
    BY <1>t, <1>4, Zenon DEF ExitWay, TakeWait, ReparentChild, SetLocals,
       ReparentDone, BecomeZombie, ClearLocals, On, Still, procVars, threadVars,
       InitLives, Where
  <1>5. ASSUME NEW c \in CPUs, NEW p \in Procs, NEW q \in Procs, WakeWay(p, c, q)
        PROVE  InitLives'
    BY <1>t, <1>5, SMTT(30) DEF WakeWay, WakeSlot, Awaken, SetLocals, WakeDone, On,
       Still, procVars, threadVars, InitLives, Where
  <1>6. ASSUME NEW c \in CPUs, NEW p \in Procs, NEW q \in Procs, WaitWay(p, c, q)
        PROVE  InitLives'
    BY <1>t, <1>6, Zenon DEF WaitWay, WaitNext, SetLocals, WaitReap, freeproc,
       ClearLocals, WaitReturn, WaitSleep, On, Still, procVars, threadVars,
       InitLives, Where
  <1>7. ASSUME NEW c \in CPUs, NEW p \in Procs, TimedWay(p, c) PROVE InitLives'
    BY <1>t, <1>7, Zenon DEF TimedWay, SleepStart, SetLocals, SleepOver,
       ClearLocals, SleepMore, On, Still, procVars, threadVars, InitLives, Where
  <1>8. ASSUME NEW c \in CPUs, NEW p \in Procs, SleepWay(p, c) PROVE InitLives'
    BY <1>t, <1>8, Zenon DEF SleepWay, LockSelf, FallAsleep, Awake, RelockTicks,
       SetLocals, RelockWait, On, Still, procVars, threadVars, InitLives, Where
  <1>9. ASSUME NEW c \in CPUs, NEW p \in Procs, SwitchWay(p, c) PROVE InitLives'
    BY <1>t, <1>9, Zenon DEF SwitchWay, YieldLock, SwitchAway, YieldReturn,
       FirstRun, On, Still, procVars, threadVars, InitLives, Where, Interruptible
  <1>10. ASSUME NEW c \in CPUs, NEW p \in Procs, SchedWay(c, p) PROVE InitLives'
    BY <1>t, <1>10, Zenon DEF SchedWay, SwitchTo, NextSlotOf, SwitchedBack, On,
       Still, procVars, threadVars, InitLives, Where
  <1>11. ASSUME NEW c \in CPUs, NEW q \in Procs, ClockWay(c, q) PROVE InitLives'
    BY <1>t, <1>11, Zenon DEF ClockWay, TimerTaken, Tick, TickSlot, Awaken,
       TickDone, On, Still, procVars, threadVars, InitLives, Where
  <1>12. ASSUME NEW c \in CPUs, NEW p \in Procs, TrapWay(c, p) PROVE InitLives'
    BY <1>t, <1>12, Zenon DEF TrapWay, HandlerDone, HandlerExit, HandlerYield, On,
       Still, procVars, threadVars, InitLives, Where
  <1>13. ASSUME UNCHANGED vars PROVE InitLives'
    BY <1>t, <1>13, Zenon DEF vars, procVars, threadVars, InitLives, Where
  <1>14. ASSUME NEW c \in CPUs, NEW p \in Procs, NEW q \in Procs, IoWay(p, c, q)
         PROVE  InitLives'
    BY <1>t, <1>14, IoNumbers, SMTT(30) DEF IoWay, TakeFault, StartIo, SetLocals,
       EndIo, ClearLocals, WakeIo, On, Still, procVars, threadVars, InitLives,
       Where, IoInv
  <1> QED
    BY <1>1, <1>2, <1>3, <1>4, <1>5, <1>6, <1>7, <1>8, <1>9, <1>10, <1>11, <1>12,
       <1>13, <1>14, Zenon DEF AnyWay

\* The processes that are marked killed, as KilledWasNamed has them; no free slot
\* is marked.
NamedInv ==
  \A p \in Procs : killed[p] =>
    /\ state[p] # "UNUSED"
    /\ pid[p] \in KillPids \/ (p # initproc /\ InExit(p))

\* A step of one thread that marks nobody.
LEMMA NamedFrame ==
  ASSUME NamedInv, NEW p \in Procs, UNCHANGED <<killed, pid>>,
         \A r \in Procs : state'[r] = "UNUSED" => state[r] = "UNUSED",
         \A r \in Procs \ {p} : pc'[r] = pc[r] /\ saved'[r] = saved[r] /\ loc'[r] = loc[r],
         p # initproc /\ InExit(p) => InExit(p)'
  PROVE  NamedInv'
  <1>1. \A r \in Procs \ {p} : InExit(r) => InExit(r)'
    BY Zenon DEF InExit
  <1> QED  BY <1>1, Zenon DEF NamedInv

\* Only kill marks a process, the one it names, and a fault the one that exits.
LEMMA NamedStep ==
  ASSUME IInv, NamedInv, 0 \notin KillPids, AnyWay
  PROVE  NamedInv'
  <1>t. /\ state \in [Procs -> States] /\ pid \in [Procs -> Nat]
        /\ killed \in [Procs -> BOOLEAN] /\ nextpid \in Nat /\ pc \in [Procs -> PCs]
        /\ saved \in [Procs -> Interruptible] /\ loc \in [Procs -> Locals]
        /\ NamedInv /\ InitInv /\ LocInv /\ IoInv /\ RunInv /\ CpuInv
    BY Zenon DEF IInv, TypeOK, ProcType, ThreadType
  <1>1. ASSUME NEW c \in CPUs, NEW p \in Procs, NEW to \in PCs,
               NEW k \in Nat, CallWay(p, c, to, k)
        PROVE  NamedInv'
    <2>1. /\ UNCHANGED <<killed, pid, state, saved>>
          /\ \A r \in Procs \ {p} : pc'[r] = pc[r] /\ loc'[r] = loc[r]
      BY <1>t, <1>1, Zenon DEF CallWay, Hop, CallKill, CallSleep, SetLocals, Still,
         procVars
    <2>2. pc[p] \in {"user", "ret"} \/ p = initproc
      BY <1>1, Zenon DEF CallWay, Hop, CallKill, CallSleep, On
    <2>3. pc[p] \in {"user", "ret"} => ~InExit(p)
      BY <1>t, Zenon DEF InExit, IoInv, Where
    <2> QED  BY <1>t, <2>1, <2>2, <2>3, NamedFrame, Zenon
  <1>2. ASSUME NEW c \in CPUs, NEW p \in Procs, NEW q \in Procs, ScanWay(p, c, q)
        PROVE  NamedInv'
    <2>0. pc[p] \in {"fork", "kill", "io"}
      BY <1>2, Zenon DEF ScanWay, ScanNext, ScanReturn, KillFound, On
    <2>1. /\ UNCHANGED <<pid, saved>> /\ ~InExit(p)
          /\ \A r \in Procs \ {p} : pc'[r] = pc[r] /\ loc'[r] = loc[r]
      <3>1. ~InExit(p)
        BY <1>t, <2>0, Zenon DEF InExit, IoInv, Where
      <3> QED  BY <1>t, <3>1, <1>2, Zenon DEF ScanWay, ScanNext, SetLocals, ScanReturn,
                  ClearLocals, KillFound, Still, procVars
    <2>2. CASE KillFound(p, c, q)
      <3>1. pid[q] \in KillPids /\ pid[q] # 0
        BY <2>2, <1>t, Zenon DEF KillFound, On, LocInv, Where
      <3>2. state[q] # "UNUSED"
        BY <3>1, <1>t, Zenon DEF InitInv
      <3>3. \A r \in Procs \ {p} : InExit(r) => InExit(r)'
        BY <2>1, Zenon DEF InExit
      <3>4. /\ \A r \in Procs : state'[r] = "UNUSED" => state[r] = "UNUSED"
            /\ \A r \in Procs \ {q} : killed'[r] = killed[r]
        BY <2>2, <1>t, Zenon DEF KillFound
      <3> QED  BY <1>t, <2>1, <3>1, <3>2, <3>3, <3>4, Zenon DEF NamedInv
    <2>3. CASE ScanNext(p, c) \/ ScanReturn(p, c)
      <3>1. UNCHANGED <<killed, state>>
        BY <2>3, Zenon DEF ScanNext, ScanReturn, procVars
      <3> QED  BY <1>t, <2>1, <3>1, NamedFrame, Zenon
    <2> QED  BY <1>2, <2>2, <2>3, Zenon DEF ScanWay
  <1>3. ASSUME NEW c \in CPUs, NEW p \in Procs, NEW q \in Procs, ForkWay(p, c, q)
        PROVE  NamedInv'
    <2>1. pc[p] \in {"fork", "fork_parent", "fork_runnable"}
      BY <1>3, Zenon DEF ForkWay, AllocTake, AllocFail, ParentSet, ChildRunnable, On
    <2>2. ~InExit(p)
      BY <1>t, <2>1, Zenon DEF InExit, IoInv, Where
    <2>3. CASE AllocTake(p, c, q) \/ AllocFail(p, c, q)
      <3>1. ~killed[q]
        BY <1>t, <2>3, Zenon DEF AllocTake, AllocFail, NamedInv
      <3>2. /\ ~killed'[q] /\ UNCHANGED saved
            /\ \A r \in Procs \ {q} : state'[r] = state[r] /\ pid'[r] = pid[r] /\ killed'[r] = killed[r]
            /\ \A r \in Procs \ {p, q} : pc'[r] = pc[r]
            /\ \A r \in Procs \ {p} : loc'[r] = loc[r]
        BY <1>t, <2>3, <3>1, Zenon DEF AllocTake, AllocFail, freeproc, ClearLocals,
           SetLocals, Still
      <3>3. \A r \in Procs \ {p, q} : InExit(r) => InExit(r)'
        BY <3>2, Zenon DEF InExit
      <3> QED  BY <1>t, <2>2, <3>2, <3>3, Zenon DEF NamedInv
    <2>4. CASE ParentSet(p, c) \/ ChildRunnable(p, c)
      <3>1. /\ UNCHANGED <<killed, pid, saved>>
            /\ \A r \in Procs : state'[r] = "UNUSED" => state[r] = "UNUSED"
            /\ \A r \in Procs \ {p} : pc'[r] = pc[r] /\ loc'[r] = loc[r]
        BY <1>t, <2>4, Zenon DEF ParentSet, ChildRunnable, ClearLocals, SetLocals, Still
      <3> QED  BY <1>t, <2>2, <3>1, NamedFrame, Zenon
    <2> QED  BY <1>3, <2>3, <2>4, Zenon DEF ForkWay
  <1>4. ASSUME NEW c \in CPUs, NEW p \in Procs, NEW q \in Procs, ExitWay(p, c, q)
        PROVE  NamedInv'
    <2>1. /\ UNCHANGED <<killed, pid, saved>>
          /\ \A r \in Procs : state'[r] = "UNUSED" => state[r] = "UNUSED"
          /\ \A r \in Procs \ {p} : pc'[r] = pc[r] /\ loc'[r] = loc[r]
      BY <1>t, <1>4, Zenon DEF ExitWay, TakeWait, ReparentChild, ReparentDone,
         BecomeZombie, ClearLocals, SetLocals, Still, procVars
    <2>2. pc[p] = "wait" \/ pc'[p] \in {"reparent", "wakeup", "sched_zombie"}
      BY <1>t, <1>4, Zenon DEF ExitWay, TakeWait, ReparentChild, ReparentDone,
         BecomeZombie, On
    <2>3. InExit(p) => InExit(p)'
      BY <1>t, <2>2, Zenon DEF InExit, IoInv, Where
    <2> QED  BY <1>t, <2>1, <2>3, NamedFrame, Zenon
  <1>5. ASSUME NEW c \in CPUs, NEW p \in Procs, NEW q \in Procs, WakeWay(p, c, q)
        PROVE  NamedInv'
    <2>1. /\ UNCHANGED <<killed, pid, saved>>
          /\ \A r \in Procs : state'[r] = "UNUSED" => state[r] = "UNUSED"
          /\ \A r \in Procs \ {p} : pc'[r] = pc[r] /\ loc'[r] = loc[r]
      BY <1>t, <1>5, Zenon DEF WakeWay, WakeSlot, Awaken, WakeDone, SetLocals, Still,
         procVars
    <2>2. pc'[p] \in {"reparent", "wakeup", "zombie"}
      BY <1>t, <1>5, Zenon DEF WakeWay, WakeSlot, WakeDone, On
    <2>3. InExit(p)'
      BY <2>2, Zenon DEF InExit
    <2> QED  BY <1>t, <2>1, <2>3, NamedFrame, Zenon
  <1>6. ASSUME NEW c \in CPUs, NEW p \in Procs, NEW q \in Procs, WaitWay(p, c, q)
        PROVE  NamedInv'
    <2>1. /\ UNCHANGED saved
          /\ \A r \in Procs \ {p} : pc'[r] = pc[r] /\ loc'[r] = loc[r]
          /\ pc[p] = "wait_scan"
      BY <1>t, <1>6, Zenon DEF WaitWay, WaitNext, WaitReap, WaitReturn, WaitSleep,
         ClearLocals, SetLocals, On, Still
    <2>2. ~InExit(p)
      BY <1>t, <2>1, Zenon DEF InExit, IoInv, Where
    <2>3. CASE WaitReap(p, c, q)
      <3>1. /\ ~killed'[q]
            /\ \A r \in Procs \ {q} : state'[r] = state[r] /\ pid'[r] = pid[r] /\ killed'[r] = killed[r]
        BY <1>t, <2>3, Zenon DEF WaitReap, freeproc
      <3>2. \A r \in Procs \ {p} : InExit(r) => InExit(r)'
        BY <2>1, Zenon DEF InExit
      <3> QED  BY <1>t, <2>2, <3>1, <3>2, Zenon DEF NamedInv
    <2>4. CASE ~WaitReap(p, c, q)
      <3>1. UNCHANGED <<killed, pid, state>>
        BY <1>6, <2>4, Zenon DEF WaitWay, WaitNext, WaitReturn, WaitSleep, procVars
      <3> QED  BY <1>t, <2>1, <2>2, <3>1, NamedFrame, Zenon
    <2> QED  BY <2>3, <2>4, Zenon
  <1>7. ASSUME NEW c \in CPUs, NEW p \in Procs, TimedWay(p, c) PROVE NamedInv'
    <2>1. /\ UNCHANGED <<killed, pid, state, saved>>
          /\ \A r \in Procs \ {p} : pc'[r] = pc[r] /\ loc'[r] = loc[r]
      BY <1>t, <1>7, Zenon DEF TimedWay, SleepStart, SleepOver, ClearLocals, SleepMore,
         SetLocals, Still, procVars
    <2>2. pc[p] \in {"sys_sleep", "sys_sleep_loop"}
      BY <1>7, Zenon DEF TimedWay, SleepStart, SleepOver, SleepMore, On
    <2>3. ~InExit(p)
      BY <1>t, <2>2, Zenon DEF InExit, IoInv, Where
    <2> QED  BY <1>t, <2>1, <2>3, NamedFrame, Zenon
  <1>8. ASSUME NEW c \in CPUs, NEW p \in Procs, SleepWay(p, c) PROVE NamedInv'
    <2>1. /\ UNCHANGED <<killed, pid, saved>>
          /\ \A r \in Procs : state'[r] = "UNUSED" => state[r] = "UNUSED"
          /\ \A r \in Procs \ {p} : pc'[r] = pc[r] /\ loc'[r] = loc[r]
      BY <1>t, <1>8, Zenon DEF SleepWay, LockSelf, FallAsleep, Awake, RelockTicks,
         SetLocals, RelockWait, Still, procVars
    <2>2. InExit(p) => InExit(p)'
      <3>1. pc[p] \in {"sleep", "sleep_release", "slept", "reacquire"}
        BY <1>8, Zenon DEF SleepWay, LockSelf, FallAsleep, Awake, RelockTicks,
           RelockWait, On
      <3>2. CASE loc' = loc
        BY <3>1, <3>2, Zenon DEF InExit
      <3>3. CASE RelockTicks(p, c) \/ RelockWait(p, c)
        BY <3>1, <3>3, IoNumbers, Zenon DEF RelockTicks, RelockWait, InExit
      <3> QED  BY <1>8, <3>2, <3>3, Zenon DEF SleepWay, LockSelf, FallAsleep, Awake
    <2> QED  BY <1>t, <2>1, <2>2, NamedFrame, Zenon
  <1>9. ASSUME NEW c \in CPUs, NEW p \in Procs, SwitchWay(p, c) PROVE NamedInv'
    <2>1. /\ UNCHANGED <<killed, pid, loc>>
          /\ \A r \in Procs : state'[r] = "UNUSED" => state[r] = "UNUSED"
          /\ \A r \in Procs \ {p} : pc'[r] = pc[r] /\ saved'[r] = saved[r]
      BY <1>t, <1>9, Zenon DEF SwitchWay, YieldLock, SwitchAway, YieldReturn, FirstRun,
         Still, procVars
    <2>2. CASE FirstRun(p, c)
      <3>1. ~InExit(p)
        BY <1>t, <2>2, Zenon DEF FirstRun, On, InExit, IoInv, Where
      <3> QED  BY <1>t, <2>1, <3>1, NamedFrame, Zenon
    <2>3. CASE YieldReturn(p, c)
      <3>1. InExit(p) => InExit(p)'
        <4>1. saved[p] \notin {"yield", "sched_yield", "yielded"}
          BY <1>t, Zenon DEF Interruptible
        <4>2. pc[p] = "yielded" /\ pc'[p] = saved[p]
          BY <1>t, <2>3, Zenon DEF YieldReturn, On
        <4> QED  BY <2>1, <4>1, <4>2, Zenon DEF InExit
      <3> QED  BY <1>t, <2>1, <3>1, NamedFrame, Zenon
    <2>4. CASE YieldLock(p, c) \/ SwitchAway(p, c)
      <3>1. InExit(p) => InExit(p)'
        BY <1>t, <2>4, Zenon DEF YieldLock, SwitchAway, On, Still, InExit
      <3> QED  BY <1>t, <2>1, <3>1, NamedFrame, Zenon
    <2> QED  BY <1>9, <2>2, <2>3, <2>4, Zenon DEF SwitchWay
  <1>10. ASSUME NEW c \in CPUs, NEW p \in Procs, SchedWay(c, p) PROVE NamedInv'
    <2>1. /\ UNCHANGED <<killed, pid, pc, saved, loc>>
          /\ \A r \in Procs : state'[r] = "UNUSED" => state[r] = "UNUSED"
      BY <1>t, <1>10, Zenon DEF SchedWay, SwitchTo, NextSlotOf, SwitchedBack, procVars,
         threadVars
    <2>2. InExit(p) => InExit(p)'
      BY <2>1, Zenon DEF InExit
    <2> QED  BY <1>t, <2>1, <2>2, NamedFrame, Zenon
  <1>11. ASSUME NEW c \in CPUs, NEW q \in Procs, ClockWay(c, q) PROVE NamedInv'
    <2>1. /\ UNCHANGED <<killed, pid, pc, saved, loc>>
          /\ \A r \in Procs : state'[r] = "UNUSED" => state[r] = "UNUSED"
      BY <1>t, <1>11, Zenon DEF ClockWay, TimerTaken, Tick, TickSlot, Awaken, TickDone, procVars,
         threadVars
    <2>2. InExit(q) => InExit(q)'
      BY <2>1, Zenon DEF InExit
    <2> QED  BY <1>t, <2>1, <2>2, NamedFrame, Zenon
  <1>12. ASSUME NEW c \in CPUs, NEW p \in Procs, TrapWay(c, p) PROVE NamedInv'
    <2>1. CASE HandlerDone(c)
      BY <1>t, <2>1, Zenon DEF HandlerDone, procVars, threadVars, NamedInv, InExit
    <2>2. CASE HandlerExit(c, p) \/ HandlerYield(c, p)
      <3>1. /\ UNCHANGED <<killed, pid, state>>
            /\ \A r \in Procs \ {p} : pc'[r] = pc[r] /\ loc'[r] = loc[r] /\ saved'[r] = saved[r]
        BY <1>t, <2>2, Zenon DEF HandlerExit, HandlerYield, procVars
      <3>2. pc[p] \in Interruptible
        BY <1>t, <2>2, Zenon DEF HandlerExit, HandlerYield, CpuInv
      <3>3. InExit(p) => InExit(p)'
        BY <1>t, <2>2, <3>2 DEF HandlerExit, HandlerYield, Interruptible, InExit
      <3> QED  BY <1>t, <3>1, <3>3, NamedFrame, Zenon
    <2> QED  BY <1>12, <2>1, <2>2, Zenon DEF TrapWay
  <1>13. ASSUME UNCHANGED vars PROVE NamedInv'
    BY <1>t, <1>13, SMTT(30) DEF vars, procVars, threadVars, NamedInv, InExit, IoInv, Where
  <1>14. ASSUME NEW c \in CPUs, NEW p \in Procs, NEW q \in Procs, IoWay(p, c, q)
         PROVE  NamedInv'
    <2>1. CASE TakeFault(p, c)
      BY <1>t, <2>1, SMTT(30) DEF TakeFault, On, Still, procVars, threadVars,
         NamedInv, InExit, IoInv, Where, RunInv, StateAt
    <2>2. CASE StartIo(p, c)
      BY <1>t, <2>2, SMTT(30) DEF StartIo, SetLocals, On, Still, procVars,
         threadVars, NamedInv, InExit, IoInv, Where
    <2>3. CASE EndIo(p, c)
      BY <1>t, <2>3, SMTT(30) DEF EndIo, ClearLocals, SetLocals, On, Still,
         procVars, threadVars, NamedInv, InExit, IoInv, Where
    <2>4. CASE WakeIo(q)
      BY <1>t, <2>4, SMTT(30) DEF WakeIo, procVars, threadVars, NamedInv, InExit,
         IoInv
    <2> QED  BY <1>14, <2>1, <2>2, <2>3, <2>4, Zenon DEF IoWay
  <1> QED
    BY <1>1, <1>2, <1>3, <1>4, <1>5, <1>6, <1>7, <1>8, <1>9, <1>10, <1>11, <1>12,
       <1>13, <1>14, Zenon DEF AnyWay

\* A step of one thread that marks nobody and puts nobody to sleep.
LEMMA AwakeFrame ==
  ASSUME AwakeInv, NEW p \in Procs, pc'[p] \notin {"sleep", "sleep_release"},
         \A r \in Procs :
           /\ killed'[r] => killed[r]
           /\ state'[r] = "SLEEPING" => state[r] = "SLEEPING" /\ chan'[r] = chan[r],
         \A r \in Procs \ {p} :
           /\ pc'[r] \in {"sleep", "sleep_release"} => pc[r] = pc'[r]
           /\ loc'[r] = loc[r]
  PROVE  AwakeInv'
  BY Zenon DEF AwakeInv

\* A kill finds its target asleep, and wakes it, or outside sleep.
LEMMA OneCpuStep ==
  ASSUME IInv, AwakeInv, CPUs = {CPU0}, AnyWay
  PROVE  AwakeInv'
  <1>t. /\ state \in [Procs -> States] /\ chan \in [Procs -> Nat \cup {None}]
        /\ pid \in [Procs -> Nat] /\ killed \in [Procs -> BOOLEAN] /\ pc \in [Procs -> PCs]
        /\ saved \in [Procs -> Interruptible] /\ loc \in [Procs -> Locals]
        /\ AwakeInv /\ RunInv /\ IoChan # NoChan
    BY IoNumbers, Zenon DEF IInv, TypeOK, ProcType, ThreadType
  <1>1. ASSUME NEW c \in CPUs, NEW p \in Procs, NEW to \in PCs,
               NEW k \in Nat, CallWay(p, c, to, k)
        PROVE  AwakeInv'
    BY <1>t, <1>1, Zenon DEF CallWay, Hop, CallKill, SetLocals, ClearLocals,
       CallSleep, On, Still, procVars, threadVars, AwakeInv
  <1>2. ASSUME NEW c \in CPUs, NEW p \in Procs, NEW q \in Procs, ScanWay(p, c, q)
        PROVE  AwakeInv'
    <2>1. CASE KillFound(p, c, q)
      <3>1. \A r \in Procs \ {p} : pc[r] \notin {"sleep", "sleep_release"}
        <4> SUFFICES ASSUME NEW r \in Procs, pc[r] \in {"sleep", "sleep_release"}
                     PROVE  r = p
          OBVIOUS
        <4>1. PICK d \in CPUs : OnCpu(r, d)
          BY Zenon DEF IInv, OffInv, Off
        <4> QED  BY <2>1, <4>1, Zenon DEF KillFound, On, OnCpu, IInv, CpuInv
      <3>2. /\ \A r \in Procs \ {q} : killed'[r] = killed[r] /\ state'[r] = state[r]
            /\ state'[q] # "SLEEPING"
            /\ \A r \in Procs \ {p} : pc'[r] = pc[r]
            /\ pc'[p] = "ret"
            /\ chan' = chan /\ \A r \in Procs \ {p} : loc'[r] = loc[r]
        BY <2>1, <1>t, Zenon DEF KillFound, ClearLocals, SetLocals
      <3> QED  BY <1>t, <3>1, <3>2, Zenon DEF AwakeInv
    <2> QED
            BY <1>t, <1>2, <2>1, Zenon DEF ScanWay, ScanNext, SetLocals,
         ClearLocals, ScanReturn, On, Still, procVars, threadVars, AwakeInv
  <1>3. ASSUME NEW c \in CPUs, NEW p \in Procs, NEW q \in Procs, ForkWay(p, c, q)
        PROVE  AwakeInv'
    <2>1. CASE AllocTake(p, c, q)
      <3>1. /\ pc'[p] \notin {"sleep", "sleep_release"}
            /\ \A r \in Procs : killed'[r] => killed[r]
            /\ \A r \in Procs : state'[r] = "SLEEPING" => state[r] = "SLEEPING" /\ chan'[r] = chan[r]
            /\ \A r \in Procs \ {p} : loc'[r] = loc[r]
            /\ \A r \in Procs \ {p} : pc'[r] \in {"sleep", "sleep_release"} => pc[r] = pc'[r]
        BY <2>1, <1>t, Zenon DEF AllocTake, SetLocals, On
      <3> QED  BY <1>t, <3>1, AwakeFrame, Zenon
    <2>2. CASE AllocFail(p, c, q)
      <3>1. /\ pc'[p] \notin {"sleep", "sleep_release"}
            /\ \A r \in Procs : killed'[r] => killed[r]
            /\ \A r \in Procs : state'[r] = "SLEEPING" => state[r] = "SLEEPING" /\ chan'[r] = chan[r]
            /\ \A r \in Procs \ {p} : loc'[r] = loc[r]
            /\ \A r \in Procs \ {p} : pc'[r] \in {"sleep", "sleep_release"} => pc[r] = pc'[r]
        BY <2>2, <1>t, Zenon DEF AllocFail, freeproc, ClearLocals, SetLocals
      <3> QED  BY <1>t, <3>1, AwakeFrame, Zenon
    <2>3. CASE ParentSet(p, c)
      <3>1. /\ pc'[p] \notin {"sleep", "sleep_release"}
            /\ \A r \in Procs : killed'[r] => killed[r]
            /\ \A r \in Procs : state'[r] = "SLEEPING" => state[r] = "SLEEPING" /\ chan'[r] = chan[r]
            /\ \A r \in Procs \ {p} : loc'[r] = loc[r]
            /\ \A r \in Procs \ {p} : pc'[r] \in {"sleep", "sleep_release"} => pc[r] = pc'[r]
        BY <2>3, <1>t, Zenon DEF ParentSet
      <3> QED  BY <1>t, <3>1, AwakeFrame, Zenon
    <2>4. CASE ChildRunnable(p, c)
      <3>1. /\ pc'[p] \notin {"sleep", "sleep_release"}
            /\ \A r \in Procs : killed'[r] => killed[r]
            /\ \A r \in Procs : state'[r] = "SLEEPING" => state[r] = "SLEEPING" /\ chan'[r] = chan[r]
            /\ \A r \in Procs \ {p} : loc'[r] = loc[r]
            /\ \A r \in Procs \ {p} : pc'[r] \in {"sleep", "sleep_release"} => pc[r] = pc'[r]
        BY <2>4, <1>t, Zenon DEF ChildRunnable, ClearLocals, SetLocals
      <3> QED  BY <1>t, <3>1, AwakeFrame, Zenon
    <2> QED  BY <1>3, <2>1, <2>2, <2>3, <2>4, Zenon DEF ForkWay
  <1>4. ASSUME NEW c \in CPUs, NEW p \in Procs, NEW q \in Procs, ExitWay(p, c, q)
        PROVE  AwakeInv'
    <2>1. CASE TakeWait(p, c)
      <3>1. /\ pc'[p] \notin {"sleep", "sleep_release"}
            /\ \A r \in Procs : killed'[r] => killed[r]
            /\ \A r \in Procs : state'[r] = "SLEEPING" => state[r] = "SLEEPING" /\ chan'[r] = chan[r]
            /\ \A r \in Procs \ {p} : loc'[r] = loc[r]
            /\ \A r \in Procs \ {p} : pc'[r] \in {"sleep", "sleep_release"} => pc[r] = pc'[r]
        BY <2>1, <1>t, Zenon DEF TakeWait, procVars
      <3> QED  BY <1>t, <3>1, AwakeFrame, Zenon
    <2>2. CASE ReparentChild(p, c, q)
      <3>1. /\ pc'[p] \notin {"sleep", "sleep_release"}
            /\ \A r \in Procs : killed'[r] => killed[r]
            /\ \A r \in Procs : state'[r] = "SLEEPING" => state[r] = "SLEEPING" /\ chan'[r] = chan[r]
            /\ \A r \in Procs \ {p} : loc'[r] = loc[r]
            /\ \A r \in Procs \ {p} : pc'[r] \in {"sleep", "sleep_release"} => pc[r] = pc'[r]
        BY <2>2, <1>t, Zenon DEF ReparentChild, SetLocals
      <3> QED  BY <1>t, <3>1, AwakeFrame, Zenon
    <2>3. CASE ReparentDone(p, c)
      <3>1. /\ pc'[p] \notin {"sleep", "sleep_release"}
            /\ \A r \in Procs : killed'[r] => killed[r]
            /\ \A r \in Procs : state'[r] = "SLEEPING" => state[r] = "SLEEPING" /\ chan'[r] = chan[r]
            /\ \A r \in Procs \ {p} : loc'[r] = loc[r]
            /\ \A r \in Procs \ {p} : pc'[r] \in {"sleep", "sleep_release"} => pc[r] = pc'[r]
        BY <2>3, <1>t, Zenon DEF ReparentDone, SetLocals, procVars
      <3> QED  BY <1>t, <3>1, AwakeFrame, Zenon
    <2>4. CASE BecomeZombie(p, c)
      <3>1. /\ pc'[p] \notin {"sleep", "sleep_release"}
            /\ \A r \in Procs : killed'[r] => killed[r]
            /\ \A r \in Procs : state'[r] = "SLEEPING" => state[r] = "SLEEPING" /\ chan'[r] = chan[r]
            /\ \A r \in Procs \ {p} : loc'[r] = loc[r]
            /\ \A r \in Procs \ {p} : pc'[r] \in {"sleep", "sleep_release"} => pc[r] = pc'[r]
        BY <2>4, <1>t, Zenon DEF BecomeZombie, ClearLocals, SetLocals
      <3> QED  BY <1>t, <3>1, AwakeFrame, Zenon
    <2> QED  BY <1>4, <2>1, <2>2, <2>3, <2>4, Zenon DEF ExitWay
  <1>5. ASSUME NEW c \in CPUs, NEW p \in Procs, NEW q \in Procs, WakeWay(p, c, q)
        PROVE  AwakeInv'
    <2>1. CASE WakeSlot(p, c, q)
      <3>1. /\ pc'[p] \notin {"sleep", "sleep_release"}
            /\ \A r \in Procs : killed'[r] => killed[r]
            /\ \A r \in Procs : state'[r] = "SLEEPING" => state[r] = "SLEEPING" /\ chan'[r] = chan[r]
            /\ \A r \in Procs \ {p} : loc'[r] = loc[r]
            /\ \A r \in Procs \ {p} : pc'[r] \in {"sleep", "sleep_release"} => pc[r] = pc'[r]
        BY <2>1, <1>t, Zenon DEF WakeSlot, Awaken, SetLocals, On
      <3> QED  BY <1>t, <3>1, AwakeFrame, Zenon
    <2>2. CASE WakeDone(p, c)
      <3>1. /\ pc'[p] \notin {"sleep", "sleep_release"}
            /\ \A r \in Procs : killed'[r] => killed[r]
            /\ \A r \in Procs : state'[r] = "SLEEPING" => state[r] = "SLEEPING" /\ chan'[r] = chan[r]
            /\ \A r \in Procs \ {p} : loc'[r] = loc[r]
            /\ \A r \in Procs \ {p} : pc'[r] \in {"sleep", "sleep_release"} => pc[r] = pc'[r]
        BY <2>2, <1>t, Zenon DEF WakeDone, SetLocals, procVars
      <3> QED  BY <1>t, <3>1, AwakeFrame, Zenon
    <2> QED  BY <1>5, <2>1, <2>2, Zenon DEF WakeWay
  <1>6. ASSUME NEW c \in CPUs, NEW p \in Procs, NEW q \in Procs, WaitWay(p, c, q)
        PROVE  AwakeInv'
    BY <1>t, <1>6, SMTT(30) DEF WaitWay, WaitNext, WaitReap, freeproc, WaitReturn,
       WaitSleep, ClearLocals, SetLocals, On, Still, procVars, threadVars, AwakeInv
  <1>7. ASSUME NEW c \in CPUs, NEW p \in Procs, TimedWay(p, c) PROVE AwakeInv'
    BY <1>t, <1>7, Zenon DEF TimedWay, SleepStart, SetLocals, ClearLocals,
       SleepOver, SleepMore, On, Still, procVars, threadVars, AwakeInv
  <1>8. ASSUME NEW c \in CPUs, NEW p \in Procs, SleepWay(p, c) PROVE AwakeInv'
    <2>1. CASE LockSelf(p, c)
      BY <1>t, <2>1, Zenon DEF LockSelf, On, Still, procVars, AwakeInv
    <2>2. CASE FallAsleep(p, c)
      <3>1. pc[p] = "sleep_release" /\ chan'[p] = loc[p].chan /\ pc'[p] = "sched_sleep"
        BY <1>t, <2>2, Zenon DEF FallAsleep, On
      <3>2. /\ \A r \in Procs \ {p} : state'[r] = state[r] /\ chan'[r] = chan[r] /\ pc'[r] = pc[r]
            /\ UNCHANGED <<killed, loc>>
        BY <1>t, <2>2, Zenon DEF FallAsleep
      <3> QED  BY <1>t, <3>1, <3>2, Zenon DEF AwakeInv
    <2>3. CASE Awake(p, c)
      BY <1>t, <2>3, SMTT(30) DEF Awake, On, Still, AwakeInv, RunInv, StateAt
    <2>4. CASE RelockTicks(p, c) \/ RelockWait(p, c)
      BY <1>t, <2>4, Zenon DEF RelockTicks, RelockWait, SetLocals, procVars, AwakeInv
    <2> QED  BY <1>8, <2>1, <2>2, <2>3, <2>4, Zenon DEF SleepWay
  <1>9. ASSUME NEW c \in CPUs, NEW p \in Procs, SwitchWay(p, c) PROVE AwakeInv'
    <2>1. CASE YieldLock(p, c)
      <3>1. /\ pc'[p] \notin {"sleep", "sleep_release"}
            /\ \A r \in Procs : killed'[r] => killed[r]
            /\ \A r \in Procs : state'[r] = "SLEEPING" => state[r] = "SLEEPING" /\ chan'[r] = chan[r]
            /\ \A r \in Procs \ {p} : loc'[r] = loc[r]
            /\ \A r \in Procs \ {p} : pc'[r] \in {"sleep", "sleep_release"} => pc[r] = pc'[r]
        BY <2>1, <1>t, Zenon DEF YieldLock
      <3> QED  BY <1>t, <3>1, AwakeFrame, Zenon
    <2>2. CASE SwitchAway(p, c)
      <3>1. /\ pc'[p] \notin {"sleep", "sleep_release"}
            /\ \A r \in Procs : killed'[r] => killed[r]
            /\ \A r \in Procs : state'[r] = "SLEEPING" => state[r] = "SLEEPING" /\ chan'[r] = chan[r]
            /\ \A r \in Procs \ {p} : loc'[r] = loc[r]
            /\ \A r \in Procs \ {p} : pc'[r] \in {"sleep", "sleep_release"} => pc[r] = pc'[r]
        BY <2>2, <1>t, Zenon DEF SwitchAway, procVars
      <3> QED  BY <1>t, <3>1, AwakeFrame, Zenon
    <2>3. CASE YieldReturn(p, c)
      <3>1. /\ pc'[p] \notin {"sleep", "sleep_release"}
            /\ \A r \in Procs : killed'[r] => killed[r]
            /\ \A r \in Procs : state'[r] = "SLEEPING" => state[r] = "SLEEPING" /\ chan'[r] = chan[r]
            /\ \A r \in Procs \ {p} : loc'[r] = loc[r]
            /\ \A r \in Procs \ {p} : pc'[r] \in {"sleep", "sleep_release"} => pc[r] = pc'[r]
        BY <2>3, <1>t, Zenon DEF YieldReturn, Interruptible, procVars
      <3> QED  BY <1>t, <3>1, AwakeFrame, Zenon
    <2>4. CASE FirstRun(p, c)
      <3>1. /\ pc'[p] \notin {"sleep", "sleep_release"}
            /\ \A r \in Procs : killed'[r] => killed[r]
            /\ \A r \in Procs : state'[r] = "SLEEPING" => state[r] = "SLEEPING" /\ chan'[r] = chan[r]
            /\ \A r \in Procs \ {p} : loc'[r] = loc[r]
            /\ \A r \in Procs \ {p} : pc'[r] \in {"sleep", "sleep_release"} => pc[r] = pc'[r]
        BY <2>4, <1>t, Zenon DEF FirstRun, procVars
      <3> QED  BY <1>t, <3>1, AwakeFrame, Zenon
    <2> QED  BY <1>9, <2>1, <2>2, <2>3, <2>4, Zenon DEF SwitchWay
  <1>10. ASSUME NEW c \in CPUs, NEW p \in Procs, SchedWay(c, p) PROVE AwakeInv'
    BY <1>t, <1>10, Zenon DEF SchedWay, SwitchTo, NextSlotOf, SwitchedBack,
       On, Still, procVars, threadVars, AwakeInv
  <1>11. ASSUME NEW c \in CPUs, NEW q \in Procs, ClockWay(c, q) PROVE AwakeInv'
    BY <1>t, <1>11, Zenon DEF ClockWay, TimerTaken, Tick, TickSlot, Awaken,
       TickDone, On, Still, procVars, threadVars, AwakeInv
  <1>12. ASSUME NEW c \in CPUs, NEW p \in Procs, TrapWay(c, p) PROVE AwakeInv'
    BY <1>t, <1>12, Zenon DEF TrapWay, HandlerDone, HandlerExit, HandlerYield,
       On, Still, procVars, threadVars, AwakeInv
  <1>13. ASSUME UNCHANGED vars PROVE AwakeInv'
    BY <1>t, <1>13, Zenon DEF vars, procVars, threadVars, AwakeInv
  <1>14. ASSUME NEW c \in CPUs, NEW p \in Procs, NEW q \in Procs, IoWay(p, c, q)
         PROVE  AwakeInv'
    <2>1. CASE TakeFault(p, c)
      BY <1>t, <2>1, Zenon DEF TakeFault, On, Still, procVars, threadVars,
         AwakeInv, RunInv, StateAt
    <2>2. CASE StartIo(p, c)
      BY <1>t, <2>2, Zenon DEF StartIo, SetLocals, On, Still, procVars,
         threadVars, AwakeInv
    <2>3. CASE EndIo(p, c)
      BY <1>t, <2>3, Zenon DEF EndIo, ClearLocals, SetLocals, On, Still, procVars,
         threadVars, AwakeInv
    <2>4. CASE WakeIo(q)
      BY <1>t, <2>4, Zenon DEF WakeIo, threadVars, AwakeInv
    <2> QED  BY <1>14, <2>1, <2>2, <2>3, <2>4, Zenon DEF IoWay
  <1> QED
    BY <1>1, <1>2, <1>3, <1>4, <1>5, <1>6, <1>7, <1>8, <1>9, <1>10, <1>11, <1>12,
       <1>13, <1>14, Zenon DEF AnyWay

\* sched's checks hold at every call and no zombie is resumed; exit's check
\* too ("init exiting"), as long as no kill names init.
THEOREM ProcNoPanic ==
  ASSUME 1 \notin KillPids
  PROVE  Spec => []NoPanic
  <1>1. Init => InitLives
    BY Numbers, Zenon DEF Init, InitLives, Where
  <1>2. IInv /\ InitLives /\ [Next]_vars => InitLives'
    BY StepWays, LivesStep, Zenon
  <1>3. IInv /\ InitLives => NoPanic
    <2> SUFFICES ASSUME IInv, InitLives, NEW p \in Procs, NEW c \in CPUs, OnCpu(p, c)
                 PROVE  pc[p] # "zombie_exit"
      BY Zenon DEF NoPanic, InitLives
    <2> QED  BY Zenon DEF IInv, CpuInv, RunInv, OnCpu
  <1> QED  BY <1>1, <1>2, <1>3, ProcInvariant, PTL DEF Spec

\* A mark never reaches a process it was not meant for: the marked process was
\* named to kill, or it took a fault and is in exit. This needs that no program
\* calls kill(0), which is the pid of the free slots.
THEOREM ProcKilledWasNamed ==
  ASSUME 0 \notin KillPids
  PROVE  Spec => []KilledWasNamed
  <1>1. Init => NamedInv
    BY Zenon DEF Init, NamedInv
  <1>2. IInv /\ NamedInv /\ [Next]_vars => NamedInv'
    BY StepWays, NamedStep, Zenon
  <1>3. NamedInv => KilledWasNamed
    BY Zenon DEF NamedInv, KilledWasNamed
  <1> QED  BY <1>1, <1>2, <1>3, ProcInvariant, PTL DEF Spec

\* On one CPU (NCPU is 1), a killed process does not sleep in wait or sys_sleep;
\* only the sleeps of the file system, which do not look at the mark, hold it.
THEOREM ProcKilledIsAwake ==
  ASSUME CPUs = {CPU0}
  PROVE  Spec => []KilledIsAwake
  <1>1. Init => AwakeInv
    BY Zenon DEF Init, AwakeInv
  <1>2. IInv /\ AwakeInv /\ [Next]_vars => AwakeInv'
    BY StepWays, OneCpuStep, Zenon
  <1>3. AwakeInv => KilledIsAwake
    BY Zenon DEF AwakeInv, KilledIsAwake
  <1> QED  BY <1>1, <1>2, <1>3, ProcInvariant, PTL DEF Spec
=============================================================================
