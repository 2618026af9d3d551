# TLA+ specification of xv6-loongarch

This directory specifies xv6-loongarch in TLA+: the kernel (`src/kernel`) from the
spin lock to the file system and virtual memory, the image that `mkfs` builds, and
the shell with the console under it. TLC checks each module on small instances.
TLAPS proves the theorems about locks, processes, pipes, the buffer cache and the
log for every number of cores, processes, buffers and blocks.
`PROJECT.json` lists the runs, the source lines that each definition models, the
hazards and the theorems.

## The system

| Part | Source | State it owns | Operations |
|---|---|---|---|
| Spin locks | `spinlock.c` | lock words, `noff`, `intena` | acquire, release, holding, push_off, pop_off |
| Sleep locks | `sleeplock.c` | `locked`, `pid` | acquiresleep, releasesleep, holdingsleep |
| Processes | `proc.c`, `swtch.S` | process table, per-CPU scheduler | fork, exit, wait, kill, sleep, wakeup, yield, sched, scheduler |
| Traps | `trap.c`, `*.S` | `ticks` | usertrap, kerneltrap, clockintr, devintr |
| Buffer cache | `bio.c`, `ramdisk.c` | LRU list of buffers, disk | bget, bread, bwrite, brelse, bpin, bunpin |
| Log | `log.c` | log header in memory and on disk | begin_op, log_write, end_op, commit, recovery |
| Inodes, directories | `fs.c` | inode table, bitmap, directory entries | iget, ilock, iput, balloc, bmap, namex, ... |
| Files | `file.c`, `sysfile.c` | file table, descriptors | filealloc, fileclose, the file system calls |
| Pipes | `pipe.c` | ring buffer | pipewrite, piperead, pipeclose |
| Memory | `kalloc.c`, `vm.c`, `exec.c` | free list, page tables | kalloc, uvmalloc, uvmcopy, exec, ... |
| Console | `console.c`, `uart.c` | input and transmit rings | consoleread, consoleintr, uartputc, uartintr |
| Shell | `user/init.c`, `user/sh.c` | a command line | getcmd, parsecmd, runcmd |
| Image builder | `mkfs/mkfs.c` | the disk image | ialloc, iappend |
| Glue | `syscall.c`, `printf.c`, `string.c`, `main.c`, `apic.c`, `extioi.c` | none after boot | dispatch, formatting, initialisation |

How they interact: every part is guarded by spin locks; `sleep` and `wakeup` are
used by wait, sys_sleep, sleep locks, the log, pipes and the console. The file
system runs on the log, and the log on the buffer cache. A file may be a pipe.
fork, exec, sbrk and wait move pages between the free list, page tables and the
process table. The shell reaches all of it from a line typed at the console.

## Modules

| Module | Models | Abstract specification | Proofs |
|---|---|---|---|
| `SpinLock` | `spinlock.c`, and kerneltrap as the handler that runs on top of a thread | `LockTable` | `SpinLockProofs` |
| `ProcTable`, `Proc` | `proc.c`, the timer and the faults of `trap.c`, `sys_sleep`: the state of the table, and the operations | (uses locks as `LockTable` promises them) | `ProcThreads`, `ProcFamily`, `ProcProofs` |
| `Pipe` | `pipe.c`, and `fileclose` for the two files of a pipe | `BoundedFifo` | `PipeProofs` |
| `Bio` | `bio.c`, `sleeplock.c`, `ramdisk.c` | `BlockStore` | `BioProofs` |
| `Log` | `log.c` on what `Bio` promises | `AtomicDisk` | `LogProofs` |
| `Fs` | `fs.c`, `file.c`, `sysfile.c`, on the image of `mkfs.c` | | |
| `Vm` | `kalloc.c`, `vm.c`, `exec.c`, the memory part of `proc.c`, the TLB in `uservec` and `userret` | `AddressSpaces` | |
| `Console` | `console.c`, `uart.c`, the UART part of devintr | `Tty` | |
| `Parser` | the parser of `sh.c` | `Grammar` (a reference definition) | |
| `Shell` | `init.c`, `sh.c`, `cat.c`, `echo.c` on `Console` and `Parser` | | |
| `MCBio`, `MCLog`, `MCFs`, `MCVm`, `MCShell` | symmetry sets and inputs for TLC | | |

Variables and actions keep the names of the C code. A definition whose comment
starts with "Mutant" is a deliberately wrong variant of the definition below it;
no specification uses it. It shows that a property notices that error.

**The levels.** `SpinLock` is at the grain of single memory accesses: the exchange
in acquire, the two reads of `holding`, the store of release. It implements
`LockTable`, in which acquire and release are one step each. `Proc` uses locks in
that form, and interrupts come exactly where `SpinLock` shows them to be on: at
steps without a lock. `Proc` in turn shows that no wakeup is lost between the
release of the condition lock and the change of state in `sleep`
(`NoLostExit`, `NoLostTick`), and that is why `Bio`, `Log` and `Pipe` may treat
"release the lock and sleep" and `wakeup` as one step of a caller that holds the
condition lock. `Log` uses the cache through `bread`, `Evict` and the pins, as `Bio` shows
it: the contents of a block survive the recycling of its buffer as long as a
modified one is pinned. `Fs` uses the log as `AtomicDisk` promises it: what a
crash can expose is the disk at a moment without active calls. `Shell` uses
processes, pipes and files as `Proc`, `Pipe` and `Fs` provide them.

**SpinLock.** A context is the thread or the handler of a core. `pc` is its place
in acquire or release, `held` the locks its code holds. Callers take locks in
one order and release what they hold, in any order. `want` remembers what the
thread last set the interrupt bit to.

**Proc.** Per CPU: `cproc`, the scheduler's place `spc` and slot `si`, and the
handler's place `hpc`. Per process: the fields of `struct proc`, the place `pc` of
its kernel thread, the place `saved` at which the timer preempted it, and its
locals `loc`. Each lock that is kept from one step to the next (`p->lock`,
`wait_lock`, `tickslock`) is a variable with the CPU that holds it. Scans of the
table are one slot at a time wherever the code takes and drops `p->lock`
(allocproc, wakeup, kill, scheduler, wait). init forks and waits and never exits,
as in `init.c` while its own fork succeeds, unless it is killed. A call of the file
system or the console is the place `io`, where a process sleeps any number of times
(`IoSleep`) without a test of `p->killed` and is woken by `IoWakeup`; the fileclose and iput of
exit do the same. `Fault` is the trap for which usertrap kills its own process.

**Bio.** `list` is the LRU list, `pins` and `dirty` are auxiliary. A process gets a
block (`Bget`, `AcquireSleep`, `Bread`), may modify, write, pin or unpin it, and
releases it in the two steps of brelse. Callers release no modified buffer
unless it is written or pinned, which is what `log_write` guarantees.
When bget finds no free buffer the model stops, as the kernel does.

**Log.** `home`, `dhead` and `dlog` are on disk; everything else is lost in a
`Crash`, which may come between any two block writes and during recovery.
`Load` and `Evict` are reads by other processes and the recycling of a buffer. In this build
the ramdisk image is part of the kernel, so a reboot starts from the image;
the log is checked for a disk that keeps its blocks, which is what log.c is for.

**Pipe.** The counters wrap at `UintMod`, as `uint` does. `left` is n - i of the call in
progress. `fd` is the set of open descriptors; `FileClose` calls pipeclose for the
last one of an end.

**Fs.** `fs` holds the disk (`dinode`, `content`, the bitmap `used`, indirect blocks) and the
inode table; the operators of `fs.c` map one value of it to the next. A step ends
where another process can see or change what the next one uses: at each ilock and
each use of `itable.lock`. `tx` is the set of processes between begin_op and end_op.
`loc` holds the locals of a call, and `ret` where namex, iput or create return to. Init
is the image of mkfs with one or more directories that an earlier run made. Content
is counted in directory entries, and offsets and counts wrap at `UintMod`. `fs.panic` names the
function that has stopped the kernel.

**Vm.** `mem` is the free list, which counts how often a page is on it, and a tag per
page. A page table is the chain of its directories, the last-level entries and the
set of those a user may use. A step holds at most one kalloc, which may fail; `pc` and
`loc` keep the place and the locals of fork, exec and sbrk between two of them. Addresses of
exec wrap at `AddrMod`. `cpu` has the process in user mode and its TLB, which uservec and userret flush.

**Console.** `cons` and `tx` are the two rings with their wrapping indices. `handler` is
the place of the CPU in devintr and uartintr, or in the uartstart of uartputc, and while it
is in one of them no process runs. The device goes on meanwhile. The UART is external: one
character to send, a few received, and a bit of the EXTIOI that it sets on an edge (`apic.c:16`)
and that extioi_complete clears after uartintr (`trap.c:200`).

**Parser, Grammar.** The functions of the parser return the set of their result, empty
where `sh` panics. `Grammar` enumerates the commands a sequence of tokens can be.

**Shell.** Processes with descriptors, pipes and files as far as runcmd can tell; their
system calls are external, `Proc`, `Pipe` and `Fs` are about them. A user types one of
eleven scripts.

## Runs

| Run | Instance | States | Checks |
|---|---|---|---|
| `spinlock` | 2 cores with handlers, 2 locks | 28,100 | `MutualExclusion NoPanic InterruptsRestored Released ImplementsLockTable` |
| `proc_family` | 1 CPU, 3 slots, all system calls, faults | 1,983,042 | `NoPanic LiveParent KilledIsAwake KilledWasNamed` |
| `proc_smp` | 2 CPUs, 2 slots, all system calls, faults | 219,324 | `StackInUse NoLostExit NoLostTick` |
| `proc_liveness` | 1 CPU, 3 slots, fork, exit, wait | 95,530 | `RunnableRuns OrphansReaped` |
| `proc_kill_zero` | 1 CPU, kill(0) | violated | `KilledWasNamed` |
| `log_crash` | 3 processes, 3 blocks, room for 2 calls at once, crashes | 1,178,528 | `NoPanic NoneForgotten QuiescentDurable PinnedOnce ImplementsAtomicDisk` |
| `pipe` | 2 readers, 1 writer, 2 bytes of buffer | 164,672 | `NoLostWakeup NotFreedInUse ImplementsFifo CallsReturn` |
| `bio` | 3 processes, 2 buffers, 3 blocks, 1 pin | 289,648 | `OneBufferPerBlock RefcntExact NoLostWakeup ImplementsBlockStore` |
| `fs` | 2 processes, 3 calls in all and any closes, 5 inodes, 4 of them in the table | 715,030 | `PanicOnlyWhenFull RefsExact HeldNotFreed DiskConsistent CacheCoherent NoLockCycle RemovedEmpty` |
| `fs_removed_dir` | 1 process in a directory that is removed | violated | `PanicOnlyWhenFull` |
| `memory` | 3 slots, 18 pages, 9 programs, 4 calls or stores | 950,794 | `PanicOnlyAtTrapframe OwnedOnce ImplementsAddressSpaces` |
| `shell` | init, the shell and 3 more processes, 11 scripts | 133,407 | `ParserCorrect ImplementsTty PromptsAgain` |

Run one with `tlc -config Log_crash.cfg MCLog`; the module of each run is in
`PROJECT.json`.

**What the bounds let happen.**
- Two locks are enough for nested push_offs and for releases in both orders; a third core or lock adds no kind of race, and the theorems cover all numbers.
- Three process slots give a parent, a child and a grandchild, so a parent can exit before or after its child. `MaxPid` 3 makes fork use a slot twice, or have all three in use (4 in `proc_kill_zero`).
- `TickMod` 2 makes `ticks` wrap during a sleep.
- Two slots on two CPUs let init and its child run at once, and one scheduler looks at the process that the other is switching away from.
- Three blocks and two calls at once let a block be absorbed, a transaction hold blocks of two calls, and a crash come in the middle of every loop. `LogSize` 4 with `MaxOpBlocks` 2 admits two calls before either has written and one after, so a third process sleeps both for space and for a commit, and both wakeups of end_op are needed. `DiskLogSize` is 4 as mkfs makes it, so a third block is "too big a transaction": one begin_op without its reservation gets there. This instance is outside the hypothesis `Reserve` of `LogNoPanic`, which is sufficient and not necessary.
- A pipe of 2 bytes with counters modulo 4, and calls of 1 and 3 bytes, fills, drains and wraps in one call.
- Three blocks in two buffers force recycling; one pin makes a buffer that cannot be recycled. With three processes two of them wait for the same buffer.
- Three calls of two processes on the same few names give every race of two calls, with a third before, between or after them: a lookup in a directory that is being removed, an unlink of a file that is open, two creates of one name. `NDIRECT` 1 and `NINDIRECT` 2 make a file of three blocks use the indirect one; `NFILE` and `NOFILE` 2 let both tables fill up. Twelve blocks in all, 5 inodes and 4 entries of the inode table let balloc, ialloc, iget and dirlink each come to their panic. `UintMod` 16 with reads of 2 and 15 lets `off + n` of readi wrap.
- 18 pages are enough for init, one fork and one exec but not for all three slots, so each kalloc of fork, exec and sbrk fails in some behaviour. The nine programs cover text and bss, an end that is not page-aligned, a file that is too short, an empty one, `filesz > memsz`, one that fills the space up to TRAPFRAME exactly, one whose stack and one whose bss is beyond it, and `vaddr + memsz` that wraps.
- Rings of 4 and 2 characters have indices modulo 8 that start at 6 (`Start`), so that they wrap in the first line, with the rings empty, full and in between; lines of up to 7 characters overflow the input ring. The parser is compared with the grammar on all sequences of up to 5 tokens.

**Symmetry** is used for blocks (`log_crash`) and processes (`bio`), in runs without
liveness properties only.

**Deadlock** is checked except in `pipe`, where all descriptors may be closed, in
`bio`, which stops at the panic of bget, in `fs` and `memory`, which end when the
bounded calls are made, and in `shell`, which ends when the script is typed and
the shell waits for more.

## Fairness

- `SpinLock`: a core keeps executing (weak fairness of each step of a call), critical sections end and handlers return. Nothing is assumed of the exchange in acquire: it is not fair, so an outer lock may be kept for ever by a holder that loses every race for the inner one. `Released` is therefore stated for the innermost lock.
- `Proc`: every CPU executes. The timer keeps interrupting (strong fairness, because a CPU is interruptible again and again). init, if it runs again and again, makes progress in its system call in spite of interrupts, since the timer period is longer than a step; nothing is assumed of the other processes. The scheduler's acquire of a `p->lock` that is free again and again succeeds. init's loop calls wait again and again (`init.c`).
- `Pipe`: each process is scheduled (`RunnableRuns`), and gets `pi->lock` if it tries again and again, because on one CPU the holder is not preempted.
- `Shell`: the machine does not stop while some process or the device can make a step (weak fairness of `Run`, which is all of them together). The user may stop typing.
- `Log`, `Bio`, `Fs` and `Vm` have no liveness property under fairness: begin_op and acquiresleep wake all waiters and any of them, or a newcomer, may win, so single processes may starve. `NoneForgotten`, `NoLostWakeup` and `NoLockCycle` state the part that the code does guarantee: nobody sleeps who could go on, and somebody is going to wake the others. A commit may be postponed for ever by calls that overlap.

## What is proved

The theorems hold for every value of the constants that satisfies the named
assumptions of the modules (`ProcAssumption`, `LogAssumption`, ...).
Those say what the C code has by its declarations: sets of processes are finite,
sizes are positive, `PIPESIZE` divides the wrap of `uint`, the null pointer is no
process. A further hypothesis is part of the theorem that needs it.

| Theorem | Statement | Hypothesis |
|---|---|---|
| `SpinLockTypeOK` | `Spec => []TypeOK` | |
| `SpinLockMutualExclusion` | `Spec => []MutualExclusion` | |
| `SpinLockNoPanic` | `Spec => []NoPanic` | |
| `SpinLockInterruptsRestored` | `Spec => []InterruptsRestored` | |
| `SpinLockInterruptsOff` | `Spec => []InterruptsOffWhileOwning` | |
| `SpinLockImplementsLockTable` | `Spec => ImplementsLockTable` | |
| `ProcInvariant` | `Spec => []IInv` | |
| `ProcStackInUse` | `Spec => []StackInUse` | |
| `ProcNoLostExit` | `Spec => []NoLostExit` | |
| `ProcNoLostTick` | `Spec => []NoLostTick` | |
| `ProcLiveParent` | `Spec => []LiveParent` | |
| `ProcNoPanic` | `Spec => []NoPanic` | `1 \notin KillPids`: nobody kills init |
| `ProcKilledWasNamed` | `Spec => []KilledWasNamed` | `0 \notin KillPids`: see `proc_kill_zero` |
| `ProcKilledIsAwake` | `Spec => []KilledIsAwake` | `CPUs = {CPU0}`: `NCPU` is 1 |
| `PipeNoLostWakeup` | `Spec => []NoLostWakeup` | |
| `PipeNotFreedInUse` | `Spec => []NotFreedInUse` | |
| `PipeImplementsFifo` | `Spec => ImplementsFifo` | |
| `BioOneBufferPerBlock` | `Spec => []OneBufferPerBlock` | |
| `BioRefcntExact` | `Spec => []RefcntExact` | |
| `BioNoLostWakeup` | `Spec => []NoLostWakeup` | |
| `BioImplementsBlockStore` | `Spec => ImplementsBlockStore` | |
| `LogNoneForgotten` | `Spec => []NoneForgotten` | |
| `LogPinnedOnce` | `Spec => []PinnedOnce` | |
| `LogQuiescentDurable` | `Spec => []QuiescentDurable` | |
| `LogNoPanic` | `Spec => []NoPanic` | `Reserve`: a call modifies fewer blocks than it reserves |
| `LogImplementsAtomicDisk` | `Spec => ImplementsAtomicDisk` | |

None of the properties is inductive alone. Each group rests on one inductive
invariant, `IInv`, shown to hold initially and to be kept by every action (one
lemma per action or per conjunct); the properties follow from it.

**SpinLock.** That release does not panic needs `lk->cpu` to be right, which needs that
nobody else wrote it, which is mutual exclusion; that an interrupt does no harm needs
`noff` to count exactly the push_offs outstanding. `IInv` therefore adds
`SuspendedInv` (a context that does not execute is outside every push_off),
`CpuInv` (`noff` is the number of push_offs outstanding, and `intena` is what the
outermost one found), `CallInv` (where `lk` points during a call) and `LockInv` (the
two words of a lock agree with its owner). The refinement uses that a step changes
the ownership of at most one lock.

**Proc.** `IInv` (in `ProcThreads`) says who holds which lock at which step (`LockInv`: `p->lock` is
handed through swtch from the thread to the scheduler and back), which state a thread
on a CPU and one off it can be in (`RunInv`, `OffInv`), that a slot taken by fork belongs to
that fork (`ForkInv`), that exit has given away the children below its loop variable
(`FamilyInv`), and what the loops of exit, wait and wakeup have seen so far: a parent asleep
with a zombie child is about to be woken (`WokenInv`), exit has woken the parent before
the state changes (`ParentAwake`), wait has seen every child before it sleeps (`NoneMissed`),
and the same for ticks (`TickInv`).
`IoInv` says where a thread that sleeps in the file system or the console can be, and that it is
not init's. On top of it `InitLives`, `NamedInv` and `AwakeInv` carry the three
theorems with a hypothesis: a killed process is on its way out or was named, and between the
test of `p->killed` and the sleep the one CPU holds the condition lock. An action of `Proc` has many outcomes; `ProcThreads` names
them ("ways"), `StepWays` shows that every step is one of them, and each conjunct is
shown to be kept by each way.

**Pipe.** `WakeInv` says, for a sleeper whose condition has become true, that the holder
of the lock is about to wake it. The refinement maps the ring to the sequence from
`nread` to `nwrite`, and needs `PIPESIZE` to divide the wrap of the counters.

**Bio.** `HolderInv` and `DataInv` tie a buffer's lock, `valid` and content to the process that
holds it. `RefcntExact` is needed for `OneBufferPerBlock`: a buffer may be recycled only if
nobody waits for its lock.

**Log.** `PhaseInv` (who runs when), `HeadInv` (the two headers and where the loops stand),
`CleanInv` (an unpinned block is on disk as in the cache) and `ProgressInv` (what write_log and
install_trans have done so far) together say what a crash finds at each step. `LogNoPanic`
counts reservations: blocks in the header plus what active calls may still use stays
within `LOGSIZE`. Its hypothesis is about `DiskLogSize`, which counts the header
block (see below).

**Only model-checked**, and why:
- All liveness properties (`Released`, `RunnableRuns`, `OrphansReaped`, `CallsReturn`, `PromptsAgain`): TLAPS 1.4.5 proves no liveness under fairness.
- The properties of `Fs`. Its invariant would have to describe some forty places of calls with up to three inodes in hand each; `ReachedIn` and `BlocksOf` need induction over the tree and over counts, which these provers do not do.
- The properties of `Vm`: an invariant has to say for some thirty places of fork, exec and sbrk what each page table maps, and for `ImplementsAddressSpaces` also the contents of pages and the TLB.
- `ParserCorrect` and `ImplementsTty`: parser, grammar and the loops of consoleread and consoleintr are recursive operators, which TLAPS 1.4.5 does not handle.

## Disagreements between the code and its comments

1. `kill` ("Kill the process with the given pid.", `proc.c:569`) does not look at
   `p->state`. A free slot has pid 0, so `kill(0)` marks a free slot, allocproc does
   not clear the mark, and the next process in that slot exits at once
   (`proc_kill_zero`).
2. ilock asserts that an inode in use is allocated (`fs.c:310`). unlink removes a directory
   that is the current directory of a process and leaves its `..` in place, but takes
   back the link that `..` is. The parent can then be removed and freed, and a lookup of `..`
   panics (`fs_removed_dir`).

Observations that no run states:
- `LOGSIZE` is the "max data blocks in on-disk log" (`param.h:10`) and begin_op reserves from it, but mkfs makes the log `LOGSIZE` blocks long with its header (`mkfs.c:25`), and log_write refuses block `LOGSIZE - 1`. The system calls of this kernel modify fewer than `MAXOPBLOCKS` blocks, so they do not get there: hence `Reserve`, and `OpBlocks` in `log_crash`.
- A create, link or mkdir in a directory that has been removed succeeds, and leaves an inode that no directory names (`sysfile.c:247`).
- mkfs rounds the size of the root directory up past its last block when its entries fill a block exactly (`mkfs.c:166`); the extra block is not allocated.
- exec does not compare a program with TRAPFRAME, as growproc does (`proc.c:252`): one that does not fit below it ends in the panic of mappages. `PanicOnlyAtTrapframe` says that this is the only way.
- balloc, ialloc, iget and dirlink panic when blocks, inodes, entries of the inode table or of a directory run out (`fs.c:85`). `PanicOnlyWhenFull` says that they have then really run out.
- uartstart relies on an interrupt "when it's ready for a new byte" (`uart.c:149`). devintr clears the latched interrupt after uartintr (`trap.c:200`), so one that comes between the two is lost, and a process that waits for room in the output ring then sleeps until the next key. `PromptsAgain` excepts this state (`Stalled`).
- A killed process may stay asleep in the file system or in uartputc, which do not look at `p->killed`; exit sleeps there too. `KilledIsAwake` is about the other sleeps.
- The kernel panics if init exits: when init's own fork fails, and after kill(1).
- `>>` in sh opens the file without moving to its end; `a & b` is a syntax error; of several redirections the first one written wins.
- `NCPU` is 1. With more CPUs a kill between the test of `p->killed` and the sleep in wait, sys_sleep or piperead leaves a killed process asleep until the next wakeup.
- pipewrite returns -1 without `wakeup(&pi->nread)` when it finds itself killed after writing some bytes. On one CPU `killed` cannot change while the lock is held, so the bytes were announced before it slept.
- NBUF (30) is less than the buffers that 32 processes could ask for at once, and bget panics when none is free.

## Not modelled

- Registers, instructions, and the memory of the kernel itself.
- The byte-level content of files and pages; in `Vm` a page has a tag, in `Fs` a file has zeros.
- copyin and copyinstr, beyond the success or failure of the call that makes them.
- Formatting, string routines, boot code and interrupt controller registers (other than the bit of the UART), which have no state that properties could be about.
- User programs other than init, sh, cat and echo; `umalloc`.

## What could be added

An abstract tree of names for `Fs`, with the invariant that its proof needs; a proof that `Vm` keeps
one owner for every page; a proof of the refinement of `Tty`, whose argument is the one of `Pipe`
with a third index.
