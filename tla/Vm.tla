---------------------------------- MODULE Vm ----------------------------------
(***************************************************************************)
(* kernel/kalloc.c, kernel/vm.c, kernel/exec.c and the memory of processes *)
(* in kernel/proc.c and kernel/sysfile.c: the free list, page tables, and  *)
(* fork, exec, sbrk, exit and wait as they allocate and free pages.        *)
(*                                                                         *)
(* kmem.lock makes each kalloc and kfree atomic, so a step holds at most   *)
(* one kalloc, which may find the free list empty; what is freed together  *)
(* is freed in one step.  The lower-level tables of a process are a chain: *)
(* MAXVA is half of what one last-level table maps, so after TRAPFRAME is  *)
(* mapped no walk has to allocate.  The content of a page is a tag.        *)
(***************************************************************************)
EXTENDS Integers, Sequences, FiniteSets, SequencesExt

CONSTANTS Procs,       \* the slots of proc, 1 .. NPROC; 1 is the first process
          NPages,      \* pages of RAM between RAMBASE and RAMSTOP
          LEVELS,      \* page-table pages on the way to a last-level entry
          PGSIZE,      \* bytes in a page
          MAXVA, MAXARG,
          UintMod,     \* the uint sz of growproc wraps at this value
          AddrMod,     \* 2^64, scaled down: the uint64 addresses of exec wrap at it
          Increments,  \* the arguments of sbrk
          Programs,    \* what exec may find: a sequence of segments and a tag
          Vals,        \* what each process stores
          MaxCalls     \* system calls and stores in all

ASSUME VmAssumption ==
  /\ {NPages, LEVELS, PGSIZE, MAXVA, MAXARG, UintMod} \subseteq Nat \ {0}
  /\ MAXVA % PGSIZE = 0 /\ UintMod > 2 * MAXVA /\ AddrMod \in Nat /\ AddrMod > 2 * MAXVA
  /\ Procs \subseteq Nat \ {0} /\ 1 \in Procs
  /\ Increments \subseteq Int /\ MaxCalls \in Nat

Pages == 1 .. NPages
VPages == 0 .. MAXVA \div PGSIZE - 1
TRAPFRAME == MAXVA \div PGSIZE - 1      \* page numbers stand for addresses
PGROUNDUP(a) == (a + PGSIZE - 1) \div PGSIZE   \* in pages

VARIABLES mem,    \* [freelist, content, panic]; freelist: how often a page is on it
          proc,   \* of each slot: state, parent, sz, trapframe, pagetable
          cpu,    \* the process in user mode (0: the kernel runs) and the TLB
          pc, loc, calls

vars == <<mem, proc, cpu, pc, loc, calls>>

\* A page table: its pages from the root down, the last-level entries (0: not
\* valid) and the entries with PTE_PLV set.  No pages: the null pointer.
NoTable == [dirs |-> <<>>, pte |-> [v \in VPages |-> 0], user |-> {}]
NoProc == [state |-> "unused", parent |-> 0, sz |-> 0, tf |-> 0, pt |-> NoTable]
\* The variables of a call: op is where uvmalloc or proc_pagetable returns to,
\* np the child of fork, pt a table nobody else sees yet, sz and newsz sizes in
\* bytes, a the next page or segment, argv the pages of sys_exec.
NoLocals == [op |-> "none", np |-> 0, pt |-> NoTable, sz |-> 0, newsz |-> 0, a |-> 0,
             i |-> 0, argv |-> <<>>, prog |-> 0]
-----------------------------------------------------------------------------
(* kalloc.c, vm.c: operators from one value of mem to the next. *)

Panic(m) == [m EXCEPT !.panic = TRUE]

\* The page kalloc returns, or 0.  The order of the list is left out.
kallocPage(m) ==
  LET free == {q \in Pages : m.freelist[q] > 0} IN IF free = {} THEN 0 ELSE Max(free)

\* A page kalloc returned, filled by memset or memmove with a tag.
kalloc(m, tag) ==
  [m EXCEPT !.freelist[kallocPage(m)] = @ - 1, !.content[kallocPage(m)] = tag]

kfree(m, pa) ==
  IF pa \notin Pages THEN Panic(m)
  ELSE [m EXCEPT !.freelist[pa] = @ + 1, !.content[pa] = "junk"]

kfreeAll(m, pas) == FoldLeft(kfree, m, pas)

\* mappages of one page: the tables are there (see above).
mappages(m, pt, v, pa, user) ==
  LET bad == v \notin VPages \/ Len(pt.dirs) < LEVELS \/ pt.pte[v] # 0 IN
  [m |-> IF bad THEN Panic(m) ELSE m,
   pt |-> IF bad THEN pt
          ELSE [pt EXCEPT !.pte[v] = pa, !.user = IF user THEN @ \cup {v} ELSE @ \ {v}]]

walkaddr(pt, v) == IF v \in pt.user THEN pt.pte[v] ELSE 0

\* The frames copyout writes: of n pages from v on, up to the first that has none.
copyout(pt, v, n) ==
  {walkaddr(pt, w) : w \in {w \in v .. v + n - 1 : \A u \in v .. w : walkaddr(pt, u) # 0}}

\* The pages from .. to - 1, in order.
Range0(from, to) == [k \in 1 .. IF to > from THEN to - from ELSE 0 |-> from + k - 1]

uvmunmap(m, pt, vs, doFree) ==
  LET bad == \E k \in DOMAIN vs : vs[k] \notin VPages \/ pt.pte[vs[k]] = 0
      gone == {vs[k] : k \in DOMAIN vs}
  IN IF bad THEN [m |-> Panic(m), pt |-> pt]
     ELSE [m |-> IF doFree THEN kfreeAll(m, [k \in DOMAIN vs |-> pt.pte[vs[k]]]) ELSE m,
           pt |-> [pt EXCEPT !.pte = [v \in VPages |-> IF v \in gone THEN 0 ELSE @[v]],
                             !.user = @ \ gone]]

uvmdealloc(m, pt, oldsz, newsz) ==
  IF newsz >= oldsz THEN [m |-> m, pt |-> pt, sz |-> oldsz]
  ELSE LET r == uvmunmap(m, pt, Range0(PGROUNDUP(newsz), PGROUNDUP(oldsz)), TRUE)
       IN [m |-> r.m, pt |-> r.pt, sz |-> newsz]

\* freewalk: the lower tables before the ones that point to them.
freewalk(m, pt) ==
  LET n == kfreeAll(m, Reverse(pt.dirs)) IN
  IF \E v \in VPages : pt.pte[v] # 0 THEN Panic(n) ELSE n

uvmfree(m, pt, sz) ==
  LET r == uvmunmap(m, pt, Range0(0, PGROUNDUP(sz)), TRUE) IN freewalk(r.m, r.pt)

proc_freepagetable(m, pt, sz) ==
  LET r == uvmunmap(m, pt, <<TRAPFRAME>>, FALSE) IN uvmfree(r.m, r.pt, sz)

\* freeproc, as far as it concerns memory.
freeproc(m, e) ==
  LET n == IF e.tf # 0 THEN kfree(m, e.tf) ELSE m IN
  IF e.pt.dirs = <<>> THEN n ELSE proc_freepagetable(n, e.pt, e.sz)
-----------------------------------------------------------------------------
\* kinit, vminit (the kernel's table and a stack for every slot) and userinit:
\* they take the highest pages.
KernelPages == NPages - LEVELS - Cardinality(Procs) + 1 .. NPages

Init ==
  LET top == NPages - LEVELS - Cardinality(Procs)
      page == top - LEVELS - 1
      table == [dirs |-> [k \in 1 .. LEVELS |-> top - k], user |-> {0},
                pte |-> [v \in VPages |-> IF v = 0 THEN page ELSE IF v = TRAPFRAME THEN top ELSE 0]]
  IN
  /\ mem = [freelist |-> [q \in Pages |-> IF q < page THEN 1 ELSE 0], panic |-> FALSE,
            content |-> [q \in Pages |-> IF q = page THEN "initcode"
                                         ELSE IF q < page THEN "junk" ELSE "kernel"]]
  /\ proc = [p \in Procs |-> IF p = 1 THEN [state |-> "live", parent |-> 0, sz |-> PGSIZE,
                                            tf |-> top, pt |-> table] ELSE NoProc]
  /\ cpu = [p |-> 0, tlb |-> {}]
  /\ pc = [p \in Procs |-> "user"]
  /\ loc = [p \in Procs |-> NoLocals]
  /\ calls = 0
-----------------------------------------------------------------------------
(* User mode: translations are cached between userret and uservec. *)

\* invtlb, on the way in and on the way out.
\* Mutant: the TLB keeps what it has.
invtlbNot(t) == t
invtlb(t) == {}

userret(p) ==
  /\ cpu.p = 0 /\ proc[p].state = "live" /\ pc[p] = "user" /\ calls < MaxCalls
  /\ cpu' = [p |-> p, tlb |-> invtlb(cpu.tlb)]
  /\ UNCHANGED <<mem, proc, pc, loc, calls>>

uservec(p) == cpu.p = p /\ cpu' = [p |-> 0, tlb |-> invtlb(cpu.tlb)]

Timer(p) == uservec(p) /\ UNCHANGED <<mem, proc, pc, loc, calls>>

Budget == calls < MaxCalls /\ calls' = calls + 1

\* A store, translated by handle_tlbr unless the TLB has the page.
Store(p) ==
  /\ cpu.p = p /\ Budget
  /\ \E v \in VPages, val \in Vals[p] :
       LET cached == {t \in cpu.tlb : t[1] = v}
           tlb == IF cached # {} THEN cached
                  ELSE {<<v, proc[p].pt.pte[v]>> : w \in proc[p].pt.user \cap {v}}
       IN \E t \in tlb : /\ mem' = [mem EXCEPT !.content[t[2]] = val]
                         /\ cpu' = [cpu EXCEPT !.tlb = @ \cup {t}]
  /\ UNCHANGED <<proc, pc, loc>>

\* exit, as far as it concerns memory: everything stays until wait.
ExitProc(p) ==
  proc' = [q \in Procs |-> IF q = p THEN [proc[q] EXCEPT !.state = "zombie"]
                           ELSE IF proc[q].parent = p THEN [proc[q] EXCEPT !.parent = 1]
                           ELSE proc[q]]

\* An access to a page that is not the user's: usertrap kills the process.
\* initproc does not make one (nor does it exit or call sbrk).
Fault(p) ==
  /\ p # 1 /\ uservec(p) /\ Budget
  /\ \E v \in VPages : v \notin proc[p].pt.user
  /\ ExitProc(p) /\ UNCHANGED <<mem, pc, loc>>

\* A system call, made by code that is mapped at address 0.
Syscall(p) == 0 \in proc[p].pt.user /\ uservec(p) /\ Budget

At(p, where, l) == pc' = [pc EXCEPT ![p] = where] /\ loc' = [loc EXCEPT ![p] = l]
Return(p) == At(p, "user", NoLocals)
In(p, where) == cpu.p = 0 /\ pc[p] = where /\ UNCHANGED <<cpu, calls>>

SysExit(p) == p # 1 /\ Syscall(p) /\ ExitProc(p) /\ UNCHANGED <<mem, pc, loc>>

SysWait(p) ==
  /\ Syscall(p)
  /\ \E q \in Procs :
       /\ proc[q].parent = p /\ proc[q].state = "zombie"
       /\ mem' = freeproc(mem, proc[q]) /\ proc' = [proc EXCEPT ![q] = NoProc]
  /\ UNCHANGED <<pc, loc>>

\* read of an open file into pages v and v + 1: copyout stops at the first page
\* that is not the user's.
SysRead(p) ==
  /\ Syscall(p)
  /\ \E v \in VPages, val \in Vals[p] :
       mem' = [mem EXCEPT !.content = [q \in Pages |->
                IF q \in copyout(proc[p].pt, v, 2) THEN val ELSE @[q]]]
  /\ UNCHANGED <<proc, pc, loc>>
-----------------------------------------------------------------------------
(* sbrk and uvmalloc. *)

\* Into uvmalloc, or past it when it needs no page; 0, its failure, is also
\* what it returns when the new size is 0.  On to op with the size it returns.
ToUvmalloc(p, l, op, sz, newsz) ==
  LET k == [l EXCEPT !.op = op, !.sz = sz, !.newsz = newsz, !.a = PGROUNDUP(sz)] IN
  IF newsz < sz THEN At(p, op, k)
  ELSE IF newsz = 0 THEN At(p, "bad", k)
  ELSE IF k.a * PGSIZE < newsz THEN At(p, "uvmalloc", k)
  ELSE At(p, op, [k EXCEPT !.sz = newsz])

SysSbrk(p) ==
  /\ p # 1 /\ Syscall(p)
  /\ \E n \in Increments :
       LET sz == proc[p].sz
           newsz == (sz + n) % UintMod
           r == uvmdealloc(mem, proc[p].pt, sz, newsz)
       IN
       \/ n > 0 /\ newsz >= MAXVA - PGSIZE /\ UNCHANGED <<mem, proc, pc, loc>>
       \/ /\ n > 0 /\ newsz < MAXVA - PGSIZE /\ UNCHANGED <<mem, proc>>
          /\ ToUvmalloc(p, NoLocals, "growproc", sz, newsz)
       \/ /\ n < 0 /\ mem' = r.m
          /\ proc' = [proc EXCEPT ![p].pt = r.pt, ![p].sz = r.sz]
          /\ UNCHANGED <<pc, loc>>

\* The table uvmalloc works on: the process's own, or the one exec builds.
Table(p) == IF loc[p].op = "growproc" THEN proc[p].pt ELSE loc[p].pt

WithTable(p, pt, where, l) ==
  IF l.op = "growproc"
  THEN proc' = [proc EXCEPT ![p].pt = pt] /\ At(p, where, l)
  ELSE At(p, where, [l EXCEPT !.pt = pt]) /\ UNCHANGED proc

\* One page of uvmalloc.
uvmalloc(p) ==
  LET l == loc[p]
      page == kallocPage(mem)
      last == (l.a + 1) * PGSIZE >= l.newsz
      grown == mappages(kalloc(mem, "zero"), Table(p), l.a, page, TRUE)
      undone == uvmdealloc(mem, Table(p), l.a * PGSIZE, PGROUNDUP(l.sz) * PGSIZE)
  IN
  /\ In(p, "uvmalloc")
  /\ \/ /\ page # 0 /\ mem' = grown.m
        /\ WithTable(p, grown.pt, IF last THEN l.op ELSE "uvmalloc",
                     [l EXCEPT !.a = @ + 1, !.sz = IF last THEN l.newsz ELSE @])
     \/ /\ page = 0 /\ mem' = undone.m
        /\ WithTable(p, undone.pt, IF l.op = "growproc" THEN "failed" ELSE "bad", l)

growproc(p) ==
  \/ /\ In(p, "growproc") /\ proc' = [proc EXCEPT ![p].sz = loc[p].sz]
     /\ Return(p) /\ UNCHANGED mem
  \/ In(p, "failed") /\ Return(p) /\ UNCHANGED <<mem, proc>>
-----------------------------------------------------------------------------
(* proc_pagetable, for fork and for exec. *)

Segments(p) == Programs[loc[p].prog].segs

\* What exec allocates next: segment l.i, or the stack and its guard page.
Segment(p, l) ==
  LET rounded == PGROUNDUP(l.sz) * PGSIZE
      seg == Segments(p)[l.i]
  IN IF l.i > Len(Segments(p)) THEN ToUvmalloc(p, l, "stack", rounded, rounded + 2 * PGSIZE)
     ELSE IF seg.memsz < seg.filesz \/ (seg.vaddr + seg.memsz) % AddrMod < seg.vaddr
     THEN At(p, "bad", l)
     ELSE ToUvmalloc(p, l, "loadseg", l.sz, seg.vaddr + seg.memsz)

\* The trapframe the new table maps.
Trapframe(p) == IF loc[p].op = "uvmcopy" THEN proc[loc[p].np].tf ELSE proc[p].tf

\* proc_pagetable returned 0: allocproc undoes, exec goes to bad.
NoPagetable(p, m) ==
  IF loc[p].op = "uvmcopy"
  THEN /\ mem' = freeproc(m, proc[loc[p].np])
       /\ proc' = [proc EXCEPT ![loc[p].np] = NoProc] /\ Return(p)
  ELSE /\ mem' = m /\ At(p, "bad", [loc[p] EXCEPT !.pt = NoTable]) /\ UNCHANGED proc

\* The root (uvmcreate), a table below it (walk) and, with the last one, the entry
\* for TRAPFRAME.
proc_pagetable(p) ==
  LET page == kallocPage(mem)
      pt == [loc[p].pt EXCEPT !.dirs = Append(@, page)]
      r == mappages(kalloc(mem, "kernel"), pt, TRAPFRAME, Trapframe(p), FALSE)
  IN
  /\ In(p, "proc_pagetable")
  /\ \/ page = 0 /\ NoPagetable(p, uvmfree(mem, loc[p].pt, 0))
     \/ /\ page # 0 /\ Len(pt.dirs) < LEVELS /\ mem' = kalloc(mem, "kernel")
        /\ At(p, "proc_pagetable", [loc[p] EXCEPT !.pt = pt]) /\ UNCHANGED proc
     \/ /\ page # 0 /\ Len(pt.dirs) = LEVELS /\ mem' = r.m
        /\ IF loc[p].op = "uvmcopy"
           THEN /\ proc' = [proc EXCEPT ![loc[p].np].pt = r.pt]
                /\ At(p, "uvmcopy", [loc[p] EXCEPT !.pt = NoTable])
           ELSE Segment(p, [loc[p] EXCEPT !.pt = r.pt]) /\ UNCHANGED proc
-----------------------------------------------------------------------------
(* fork. *)

SysFork(p) ==
  LET unused == {q \in Procs : proc[q].state = "unused"}
      np == Min(unused)
  IN
  /\ Syscall(p) /\ UNCHANGED mem
  /\ \/ unused = {} /\ UNCHANGED <<proc, pc, loc>>
     \/ /\ unused # {} /\ proc' = [proc EXCEPT ![np].state = "used"]
        /\ At(p, "allocproc", [NoLocals EXCEPT !.op = "uvmcopy", !.np = np])

allocproc(p) ==
  LET page == kallocPage(mem)
      np == loc[p].np
  IN
  /\ In(p, "allocproc")
  /\ \/ /\ page = 0 /\ mem' = freeproc(mem, proc[np])
        /\ proc' = [proc EXCEPT ![np] = NoProc] /\ Return(p)
     \/ /\ page # 0 /\ mem' = kalloc(mem, "kernel")
        /\ proc' = [proc EXCEPT ![np].tf = page] /\ At(p, "proc_pagetable", loc[p])

\* The label err of uvmcopy, and fork's answer to it.
\* Mutant: the child had its size before its pages.
uvmcopyFailedSized(p) ==
  LET np == loc[p].np
      r == uvmunmap(mem, proc[np].pt, Range0(0, loc[p].a), TRUE)
  IN /\ mem' = freeproc(r.m, [proc[np] EXCEPT !.pt = r.pt, !.sz = proc[p].sz])
     /\ proc' = [proc EXCEPT ![np] = NoProc] /\ Return(p)

uvmcopyFailed(p) ==
  LET np == loc[p].np
      r == uvmunmap(mem, proc[np].pt, Range0(0, loc[p].a), TRUE)
  IN /\ mem' = freeproc(r.m, [proc[np] EXCEPT !.pt = r.pt])
     /\ proc' = [proc EXCEPT ![np] = NoProc] /\ Return(p)

\* One page of uvmcopy; and, after the last one, the end of fork.
uvmcopy(p) ==
  LET np == loc[p].np
      a == loc[p].a
      old == proc[p].pt
      page == kallocPage(mem)
      r == IF old.pte[a] = 0 THEN [m |-> Panic(mem), pt |-> proc[np].pt]
           ELSE mappages(kalloc(mem, mem.content[old.pte[a]]), proc[np].pt, a, page, a \in old.user)
  IN
  /\ In(p, "uvmcopy")
  /\ \/ a * PGSIZE < proc[p].sz /\ page = 0 /\ uvmcopyFailed(p)
     \/ /\ a * PGSIZE < proc[p].sz /\ page # 0 /\ mem' = r.m
        /\ proc' = [proc EXCEPT ![np].pt = r.pt] /\ At(p, "uvmcopy", [loc[p] EXCEPT !.a = @ + 1])
     \/ /\ a * PGSIZE >= proc[p].sz /\ UNCHANGED mem
        /\ proc' = [proc EXCEPT ![np].sz = proc[p].sz, ![np].parent = p, ![np].state = "live"]
        /\ Return(p)
-----------------------------------------------------------------------------
(* exec.  Which file the path names, and whether it is one, is an input. *)

\* The end of sys_exec: every page of argv goes back.
\* Mutant: they stay.
FreeArgvNot(p, m) == mem' = m /\ Return(p)
FreeArgv(p, m) == mem' = kfreeAll(m, loc[p].argv) /\ Return(p)

SysExec(p) ==
  /\ Syscall(p) /\ At(p, "sys_exec", NoLocals)
  /\ UNCHANGED <<mem, proc>>

\* One turn of the loop of sys_exec: the argument array may end, or have a bad
\* address in it, or name a string that is at page v.
sys_exec(p) ==
  LET l == loc[p]
      page == kallocPage(mem)
      more == Len(l.argv) < MAXARG
      fetched == [l EXCEPT !.argv = Append(@, page)]
  IN
  /\ In(p, "sys_exec") /\ UNCHANGED proc
  /\ \/ ~more /\ FreeArgv(p, mem)                              \* too many
     \/ more /\ FreeArgv(p, mem)                               \* fetchaddr fails, or no such file
     \/ more /\ page = 0 /\ FreeArgv(p, mem)
     \/ more /\ page # 0 /\ \E v \in {0, TRAPFRAME} :           \* fetchstr
          /\ mem' = kalloc(mem, "kernel")
          /\ At(p, IF walkaddr(proc[p].pt, v) = 0 THEN "bad" ELSE "sys_exec", fetched)
     \/ more /\ UNCHANGED mem /\ \E prog \in DOMAIN Programs :   \* the end of the array
          At(p, "proc_pagetable", [l EXCEPT !.prog = prog, !.i = 1])

\* The pages loadseg reads the file into.
loadseg(p) ==
  LET seg == Segments(p)[loc[p].i]
      vs == {seg.vaddr \div PGSIZE + k : k \in 0 .. PGROUNDUP(seg.filesz) - 1}
      pas == {walkaddr(loc[p].pt, v) : v \in vs}
  IN
  /\ In(p, "loadseg") /\ UNCHANGED proc
  /\ \/ /\ seg.vaddr % PGSIZE # 0 \/ seg.short
        /\ At(p, "bad", loc[p]) /\ UNCHANGED mem
     \/ /\ seg.vaddr % PGSIZE = 0 /\ ~seg.short
        /\ mem' = IF 0 \in pas THEN Panic(mem)
                  ELSE [mem EXCEPT !.content = [q \in Pages |-> IF q \in pas
                          THEN Programs[loc[p].prog].tag ELSE @[q]]]
        /\ Segment(p, [loc[p] EXCEPT !.i = @ + 1])

uvmclear(pt, v) == [pt EXCEPT !.user = @ \ {v}]

\* The arguments are pushed, which may need more than a page, and the new image
\* takes the place of the old one.
exec(p) ==
  LET l == loc[p]
      pt == uvmclear(l.pt, l.sz \div PGSIZE - 2)
      pushed == [mem EXCEPT !.content[walkaddr(pt, l.sz \div PGSIZE - 1)] = "args"]
  IN
  /\ In(p, "stack")
  /\ \/ At(p, "bad", [l EXCEPT !.pt = pt]) /\ UNCHANGED <<mem, proc>>
     \/ /\ proc' = [proc EXCEPT ![p].pt = pt, ![p].sz = l.sz]
        /\ FreeArgv(p, proc_freepagetable(pushed, proc[p].pt, proc[p].sz))

\* The label bad of exec or of sys_exec.
bad(p) ==
  LET l == loc[p] IN
  /\ In(p, "bad") /\ UNCHANGED proc
  /\ FreeArgv(p, IF l.pt.dirs = <<>> THEN mem ELSE proc_freepagetable(mem, l.pt, l.sz))

Step(p) ==
  \/ userret(p) \/ Timer(p) \/ Store(p) \/ Fault(p) \/ SysExit(p) \/ SysWait(p) \/ SysRead(p)
  \/ SysSbrk(p) \/ uvmalloc(p) \/ growproc(p)
  \/ SysFork(p) \/ allocproc(p) \/ proc_pagetable(p) \/ uvmcopy(p)
  \/ SysExec(p) \/ sys_exec(p) \/ loadseg(p) \/ exec(p) \/ bad(p)

Next == ~mem.panic /\ \E p \in Procs : Step(p)

Spec == Init /\ [][Next]_vars
-----------------------------------------------------------------------------
\* The pages a program needs, with its stack and guard page, are below TRAPFRAME.
Fits(prog) == PGROUNDUP(Max({s.vaddr + s.memsz : s \in Range(prog.segs)})) + 2 <= TRAPFRAME

\* Nothing is mapped twice, unmapped twice or left mapped in a table that is
\* freed, whichever allocation of whichever call fails (vm.c:109, 135, 235;
\* exec.c:148), with one exception: exec, unlike growproc, does not compare
\* with TRAPFRAME, so a program that does not fit below it ends in
\* "mappages: remap" at TRAPFRAME, in a segment or in the stack.
PanicOnlyAtTrapframe ==
  mem.panic => \E p \in Procs :
    /\ loc[p].op \in {"loadseg", "stack"} /\ loc[p].a = TRAPFRAME + 1
    /\ pc[p] \in {"uvmalloc", loc[p].op} /\ ~Fits(Programs[loc[p].prog])

\* Who refers to which page: the place, named once, and the page.
InTable(pt, place) ==
  {<<place, "table", k, pt.dirs[k]>> : k \in DOMAIN pt.dirs}
    \cup {<<place, "user", v, pt.pte[v]>> : v \in {v \in VPages \ {TRAPFRAME} : pt.pte[v] # 0}}

References ==
  {<<0, "free", 1, q>> : q \in {q \in Pages : mem.freelist[q] > 0}}
    \cup {<<0, "kernel", 1, q>> : q \in KernelPages}
    \cup {<<p, "trapframe", 1, proc[p].tf>> : p \in {p \in Procs : proc[p].tf # 0}}
    \cup UNION {InTable(proc[p].pt, p) \cup InTable(loc[p].pt, -p)
                 \cup {<<p, "argv", k, loc[p].argv[k]>> : k \in DOMAIN loc[p].argv} : p \in Procs}

\* A page always has exactly one owner: the free list, the kernel's own table
\* and stacks, one trapframe, one page table, one user page or one argument of
\* an exec under way.  Two owners are a double free or shared memory, none is a
\* leak, for example on an error path (vm.c:190, 283; proc.c:125, 185; sysfile.c:452).
OwnedOnce ==
  ~mem.panic =>
    /\ \A q \in Pages : mem.freelist[q] <= 1
    /\ Cardinality(References) = NPages
    /\ {r[4] : r \in References} = Pages

\* The image of a program, from the file alone.
Image(prog) ==
  LET end == PGROUNDUP(Max({s.vaddr + s.memsz : s \in Range(prog.segs)}))
      InFile(v) == \E s \in Range(prog.segs) : s.vaddr <= v * PGSIZE /\ v * PGSIZE < s.vaddr + s.filesz
  IN [v \in 0 .. end + 1 |->
        [val  |-> IF v < end /\ InFile(v) THEN prog.tag ELSE IF v = end + 1 THEN "args" ELSE "zero",
         user |-> v # end]]

Spaces == INSTANCE AddressSpaces WITH
  VPages <- VPages \ {TRAPFRAME},
  Images <- {Image(Programs[k]) : k \in {k \in DOMAIN Programs : Fits(Programs[k])}},
  space  <- [p \in Procs |-> [v \in 0 .. PGROUNDUP(proc[p].sz) - 1 |->
              [val |-> mem.content[proc[p].pt.pte[v]], user |-> v \in proc[p].pt.user]]]

\* The kernel implements address spaces: through all the page-wise steps of
\* fork, exec and sbrk, and through their failures, a process sees only its own
\* stores, zeros in new pages, a copy after fork and the file after exec.
ImplementsAddressSpaces == Spaces!Spec
=============================================================================
