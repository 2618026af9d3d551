------------------------------- MODULE SpinLock -------------------------------
(***************************************************************************)
(* kernel/spinlock.c: acquire, release, holding, push_off and pop_off, run *)
(* by the kernel thread of every CPU and by the interrupt handler that may *)
(* run on top of it (kernel/trap.c:kerneltrap).                            *)
(*                                                                         *)
(* A context is a pair <<c, "thread">> or <<c, "handler">>.  pc says where *)
(* in acquire or release it is ("run" outside both).  Accesses to the lock *)
(* word and to lk->cpu are one step each, because other CPUs race with     *)
(* them; struct cpu is private to its CPU and only touched with interrupts *)
(* off, so the accesses of one push_off or pop_off to it are one step.     *)
(***************************************************************************)
EXTENDS Integers, FiniteSets

CONSTANTS CPUs,    \* the cores
          Locks,   \* the spin locks: numbers, in the order they nest
          None     \* the 0 of lk->cpu

Contexts == CPUs \X {"thread", "handler"}

ASSUME NoneAssumption == None \notin CPUs \cup Locks \cup Contexts
ASSUME LocksAssumption == Locks \subseteq Nat /\ IsFiniteSet(Locks)

VARIABLES locked,     \* lk->locked
          cpu,        \* lk->cpu
          intr,       \* CRMD.IE of each core: interrupts are on
          noff,       \* struct cpu: depth of push_off nesting
          intena,     \* struct cpu: were interrupts on before push_off()?
          inhandler,  \* the core runs its interrupt handler
          pc, lk, old,\* of each context: step, argument, push_off's local
          held,       \* of each context: the locks its code holds
          want        \* auxiliary: what the thread last set interrupts to

lockVars == <<locked, cpu>>
cpuVars  == <<intr, noff, intena, inhandler, want>>
ctxVars  == <<pc, lk, old, held>>
vars     == <<lockVars, cpuVars, ctxVars>>

Thread(c)  == <<c, "thread">>
Handler(c) == <<c, "handler">>

PCs == {"run", "intr_off", "holding", "holding_cpu", "test_and_set", "set_cpu",
        "rel_holding", "rel_holding_cpu", "clear_cpu", "unlock", "pop_off",
        "panic"}

\* The context that executes on its core.
Active(x) == x[2] = IF inhandler[x[1]] THEN "handler" ELSE "thread"

At(x, label) == Active(x) /\ pc[x] = label
Goto(x, label) == pc' = [pc EXCEPT ![x] = label]

\* x got the lock word and has not given it back.
Owns(x, l) == l \in held[x] \/ (pc[x] = "set_cpu" /\ lk[x] = l)

Init ==
  /\ locked = [l \in Locks |-> FALSE]
  /\ cpu = [l \in Locks |-> None]
  /\ intr = [c \in CPUs |-> FALSE]
  /\ noff = [c \in CPUs |-> 0]
  /\ intena = [c \in CPUs |-> FALSE]
  /\ inhandler = [c \in CPUs |-> FALSE]
  /\ want = [c \in CPUs |-> FALSE]
  /\ pc = [x \in Contexts |-> "run"]
  /\ lk = [x \in Contexts |-> None]
  /\ old = [x \in Contexts |-> FALSE]
  /\ held = [x \in Contexts |-> {}]
-----------------------------------------------------------------------------
(* acquire() *)

\* The kernel nests its locks in one order.  The call's first step is
\* push_off's  old = intr_get().
CallAcquire(x, l) ==
  /\ At(x, "run")
  /\ \A m \in held[x] : m < l
  /\ lk' = [lk EXCEPT ![x] = l]
  /\ old' = [old EXCEPT ![x] = intr[x[1]]]
  /\ Goto(x, "intr_off")
  /\ UNCHANGED <<lockVars, cpuVars, held>>

\* Mutant: intr_off() is not called.
PushOffIntrOn(x) ==
  LET c == x[1] IN
  /\ At(x, "intr_off")
  /\ intena' = [intena EXCEPT ![c] = IF noff[c] = 0 THEN old[x] ELSE @]
  /\ noff' = [noff EXCEPT ![c] = @ + 1]
  /\ old' = [old EXCEPT ![x] = FALSE]
  /\ Goto(x, "holding")
  /\ UNCHANGED <<intr, lockVars, inhandler, want, lk, held>>

\* Mutant: intena is saved at every depth.
PushOffNested(x) ==
  LET c == x[1] IN
  /\ At(x, "intr_off")
  /\ intr' = [intr EXCEPT ![c] = FALSE]
  /\ intena' = [intena EXCEPT ![c] = old[x]]
  /\ noff' = [noff EXCEPT ![c] = @ + 1]
  /\ old' = [old EXCEPT ![x] = FALSE]
  /\ Goto(x, "holding")
  /\ UNCHANGED <<lockVars, inhandler, want, lk, held>>

\* The rest of push_off.
PushOff(x) ==
  LET c == x[1] IN
  /\ At(x, "intr_off")
  /\ intr' = [intr EXCEPT ![c] = FALSE]
  /\ intena' = [intena EXCEPT ![c] = IF noff[c] = 0 THEN old[x] ELSE @]
  /\ noff' = [noff EXCEPT ![c] = @ + 1]
  /\ old' = [old EXCEPT ![x] = FALSE]
  /\ Goto(x, "holding")
  /\ UNCHANGED <<lockVars, inhandler, want, lk, held>>

\* holding(lk): lk->locked is read, and lk->cpu only when it was set.
Holding(x) ==
  /\ At(x, "holding")
  /\ Goto(x, IF locked[lk[x]] THEN "holding_cpu" ELSE "test_and_set")
  /\ UNCHANGED <<lockVars, cpuVars, lk, old, held>>

HoldingCpu(x) ==
  /\ At(x, "holding_cpu")
  /\ Goto(x, IF cpu[lk[x]] = x[1] THEN "panic" ELSE "test_and_set")
  /\ UNCHANGED <<lockVars, cpuVars, lk, old, held>>

\* Mutant: a load and a store instead of the exchange; the load was earlier.
TestThenSet(x) ==
  /\ At(x, "test_and_set")
  /\ locked' = [locked EXCEPT ![lk[x]] = TRUE]
  /\ Goto(x, "set_cpu")
  /\ UNCHANGED <<cpu, cpuVars, lk, old, held>>

\* The exchange that ends the loop; one that finds the word set changes
\* nothing.
TestAndSet(x) ==
  /\ At(x, "test_and_set")
  /\ ~locked[lk[x]]
  /\ locked' = [locked EXCEPT ![lk[x]] = TRUE]
  /\ Goto(x, "set_cpu")
  /\ UNCHANGED <<cpu, cpuVars, lk, old, held>>

SetCpu(x) ==
  /\ At(x, "set_cpu")
  /\ cpu' = [cpu EXCEPT ![lk[x]] = x[1]]
  /\ held' = [held EXCEPT ![x] = @ \cup {lk[x]}]
  /\ Goto(x, "run")
  /\ lk' = [lk EXCEPT ![x] = None]
  /\ UNCHANGED <<locked, cpuVars, old>>
-----------------------------------------------------------------------------
(* release() *)

CallRelease(x, l) ==
  /\ At(x, "run")
  /\ l \in held[x]
  /\ lk' = [lk EXCEPT ![x] = l]
  /\ Goto(x, "rel_holding")
  /\ UNCHANGED <<lockVars, cpuVars, old, held>>

RelHolding(x) ==
  /\ At(x, "rel_holding")
  /\ Goto(x, IF locked[lk[x]] THEN "rel_holding_cpu" ELSE "panic")
  /\ UNCHANGED <<lockVars, cpuVars, lk, old, held>>

RelHoldingCpu(x) ==
  /\ At(x, "rel_holding_cpu")
  /\ Goto(x, IF cpu[lk[x]] = x[1] THEN "clear_cpu" ELSE "panic")
  /\ UNCHANGED <<lockVars, cpuVars, lk, old, held>>

\* Mutant: lk->cpu keeps the last holder.
ClearCpuNot(x) ==
  /\ At(x, "clear_cpu")
  /\ Goto(x, "unlock")
  /\ UNCHANGED <<lockVars, cpuVars, lk, old, held>>

ClearCpu(x) ==
  /\ At(x, "clear_cpu")
  /\ cpu' = [cpu EXCEPT ![lk[x]] = None]
  /\ Goto(x, "unlock")
  /\ UNCHANGED <<locked, cpuVars, lk, old, held>>

Unlock(x) ==
  /\ At(x, "unlock")
  /\ locked' = [locked EXCEPT ![lk[x]] = FALSE]
  /\ held' = [held EXCEPT ![x] = @ \ {lk[x]}]
  /\ Goto(x, "pop_off")
  /\ UNCHANGED <<cpu, cpuVars, lk, old>>

PopOff(x) ==
  LET c == x[1] IN
  /\ At(x, "pop_off")
  /\ IF intr[c] \/ noff[c] < 1
       THEN /\ Goto(x, "panic")
            /\ UNCHANGED <<intr, noff, lk>>
       ELSE /\ noff' = [noff EXCEPT ![c] = @ - 1]
            /\ intr' = [intr EXCEPT ![c] = noff[c] = 1 /\ intena[c]]
            /\ Goto(x, "run")
            /\ lk' = [lk EXCEPT ![x] = None]
  /\ UNCHANGED <<lockVars, intena, inhandler, want, old, held>>
-----------------------------------------------------------------------------
(* The core *)

\* A device or timer interrupt, taken when interrupts are on: the hardware
\* turns them off and enters kerneltrap.
Interrupt(c) ==
  /\ intr[c]
  /\ ~inhandler[c]
  /\ inhandler' = [inhandler EXCEPT ![c] = TRUE]
  /\ intr' = [intr EXCEPT ![c] = FALSE]
  /\ UNCHANGED <<lockVars, noff, intena, want, ctxVars>>

\* kerneltrap returns; ertn restores the interrupt enable bit of PRMD.
InterruptReturn(c) ==
  /\ At(Handler(c), "run")
  /\ held[Handler(c)] = {}
  /\ inhandler' = [inhandler EXCEPT ![c] = FALSE]
  /\ intr' = [intr EXCEPT ![c] = TRUE]
  /\ UNCHANGED <<lockVars, noff, intena, want, ctxVars>>

\* intr_on() and intr_off() of scheduler(), usertrap() and usertrapret(),
\* which hold no lock.
SetIntr(c, on) ==
  /\ At(Thread(c), "run")
  /\ held[Thread(c)] = {}
  /\ intr' = [intr EXCEPT ![c] = on]
  /\ want' = [want EXCEPT ![c] = on]
  /\ UNCHANGED <<lockVars, noff, intena, inhandler, ctxVars>>
-----------------------------------------------------------------------------
AcquireStep(x) == PushOff(x) \/ Holding(x) \/ HoldingCpu(x) \/ TestAndSet(x) \/ SetCpu(x)
ReleaseStep(x) == RelHolding(x) \/ RelHoldingCpu(x) \/ ClearCpu(x) \/ Unlock(x) \/ PopOff(x)

Next ==
  \/ \E x \in Contexts, l \in Locks : CallAcquire(x, l) \/ CallRelease(x, l)
  \/ \E x \in Contexts : AcquireStep(x) \/ ReleaseStep(x)
  \/ \E c \in CPUs : Interrupt(c) \/ InterruptReturn(c)
  \/ \E c \in CPUs, on \in BOOLEAN : SetIntr(c, on)

Spec == Init /\ [][Next]_vars

\* A core keeps executing: a call that can go on goes on, a critical section
\* ends, a handler returns.  Nothing makes a caller acquire.
Fairness ==
  /\ \A x \in Contexts : WF_vars(AcquireStep(x)) /\ WF_vars(ReleaseStep(x))
  /\ \A x \in Contexts, l \in Locks : WF_vars(CallRelease(x, l))
  /\ \A c \in CPUs : WF_vars(InterruptReturn(c))

FairSpec == Spec /\ Fairness
-----------------------------------------------------------------------------
TypeOK ==
  /\ locked \in [Locks -> BOOLEAN]
  /\ cpu \in [Locks -> CPUs \cup {None}]
  /\ intr \in [CPUs -> BOOLEAN]
  /\ noff \in [CPUs -> Nat]
  /\ intena \in [CPUs -> BOOLEAN]
  /\ inhandler \in [CPUs -> BOOLEAN]
  /\ want \in [CPUs -> BOOLEAN]
  /\ pc \in [Contexts -> PCs]
  /\ lk \in [Contexts -> Locks \cup {None}]
  /\ old \in [Contexts -> BOOLEAN]
  /\ held \in [Contexts -> SUBSET Locks]

\* Mutual exclusion: between acquire's successful exchange and release's
\* clearing store, no second context - on another core, or the handler that
\* interrupted the owner - is inside the same lock.
MutualExclusion ==
  \A x, y \in Contexts, l \in Locks : Owns(x, l) /\ Owns(y, l) => x = y

\* None of the checks of acquire, release and pop_off fires for callers that
\* nest locks in order and release what they hold, although holding() reads
\* the two words of a lock that other cores write.
NoPanic == \A x \in Contexts : pc[x] # "panic"

\* A core that owns a lock has interrupts off, so its handler never spins for
\* a lock of the thread it interrupted ("disable interrupts to avoid
\* deadlock", acquire).
InterruptsOffWhileOwning ==
  \A x \in Contexts, l \in Locks : Owns(x, l) => ~intr[x[1]]

\* push_off and pop_off are matched and restore what they found: a core with
\* no push_off outstanding has interrupts on exactly when its thread last
\* turned them on and no handler runs - also when an interrupt came in the
\* middle of push_off and the handler's own calls overwrote intena.
InterruptsRestored ==
  \A c \in CPUs : intr[c] <=> (want[c] /\ ~inhandler[c] /\ noff[c] = 0)

\* A lock under which no other is acquired is released again: no core spins
\* for a lock of the thread that its own handler interrupted.  (The holder of
\* an outer lock may lose every race for the inner one: the exchange of
\* acquire is not fair.)
Released ==
  \A l \in Locks : (\A m \in Locks : m <= l) => (locked[l] ~> ~locked[l])

OwnerOf(l) == IF \E x \in Contexts : Owns(x, l)
                THEN CHOOSE x \in Contexts : Owns(x, l)
                ELSE None

Table == INSTANCE LockTable WITH
           Owners <- Contexts, owner <- [l \in Locks |-> OwnerOf(l)]

\* SpinLock implements LockTable: ownership passes from one context to
\* another only through a free lock.
ImplementsLockTable == Table!Spec
=============================================================================
