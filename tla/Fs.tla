---------------------------------- MODULE Fs ----------------------------------
(***************************************************************************)
(* kernel/fs.c, kernel/file.c and kernel/sysfile.c: inodes on disk and in  *)
(* the inode table, the block bitmap, directories, path lookup, the file   *)
(* table, and the system calls of several processes on them, on the image  *)
(* that mkfs/mkfs.c builds.                                                *)
(*                                                                         *)
(* A step ends where another process can see or change what the next one   *)
(* uses: at each ilock and at each use of itable.lock; code between ilock  *)
(* and iunlock of the same inode is one step.  The log (begin_op, end_op)  *)
(* is the set of processes inside a transaction; it commits, so that a     *)
(* crash can expose the state, only when that set is empty.                *)
(*                                                                         *)
(* The unit of content is a directory entry; a file holds Zero units.  A   *)
(* path is the sequence of its elements, with "/" first if it is absolute. *)
(***************************************************************************)
EXTENDS Integers, Sequences, FiniteSets, SequencesExt

CONSTANTS Procs,
          NINODES,     \* of the super block: inode numbers are 1 .. NINODES - 1
          NINODE, NFILE, NOFILE, NDEV,
          NBLOCKS,     \* data blocks 1 .. NBLOCKS
          BSIZE,       \* units in a block
          NDIRECT, NINDIRECT,
          MAXCHUNK,    \* the units filewrite hands to one writei
          Image,       \* mkfs's arguments: a sequence of [name, size]
          Dirs,        \* directories of the root an earlier run may have made
          Calls,       \* of each process: the calls it may make besides close, with
                       \* their arguments
          ReadCounts,  \* the argument n of read
          MaxCalls,    \* how many of them are made in all
          UintMod,     \* 2^32, scaled down: uint arithmetic is modulo it
          None

ASSUME FsAssumption ==
  /\ \A n \in {NINODES, NINODE, NFILE, NOFILE, NBLOCKS, BSIZE, NDIRECT, MAXCHUNK} :
       n \in Nat \ {0}
  /\ {NINDIRECT, NDEV, MaxCalls} \subseteq Nat
  /\ UintMod \in Nat /\ UintMod > 2 * (NDIRECT + NINDIRECT) * BSIZE
  /\ ReadCounts \subseteq 0 .. UintMod - 1
  /\ None \notin Procs

Inums  == 1 .. NINODES - 1
Blocks == 1 .. NBLOCKS
Slots  == 1 .. NINODE      \* itable.inode
Files  == 1 .. NFILE       \* ftable.file
Fds    == 0 .. NOFILE - 1
ROOTINO == 1
MAXFILE == NDIRECT + NINDIRECT

VARIABLES fs,      \* disk and inode table; a record
          ftable,  \* struct file of each entry
          ofile, cwd, alive,   \* struct proc; alive while it is not exited
          tx,      \* the processes between begin_op and end_op
          pc, loc, \* of each process: the step it is at and its local variables
          calls    \* the calls made so far

procVars == <<ofile, cwd, alive>>
vars == <<fs, ftable, procVars, tx, pc, loc, calls>>

Dirent(name, inum) == [name |-> name, inum |-> inum]
Zero == Dirent("", 0)
NoAddrs == [k \in 0 .. NDIRECT |-> 0]
NoIndirect == [k \in 0 .. NINDIRECT - 1 |-> 0]
FreeDinode == [type |-> "free", major |-> 0, nlink |-> 0, addrs |-> NoAddrs]
FreeFile == [ref |-> 0, type |-> "NONE", ip |-> 0, off |-> 0,
             readable |-> FALSE, writable |-> FALSE]
NoLocals == [call |-> [op |-> "none"], path |-> <<>>, parent |-> FALSE, name |-> "",
             ip |-> 0, dp |-> 0, old |-> 0, put |-> 0, ret |-> "", nret |-> "", cret |-> "", n |-> 0]
-----------------------------------------------------------------------------
(* Blocks and inodes on disk: operators from one value of fs to the next. *)

\* The size of ip is the length of the content of its inode.
Size(f, ip) == Len(f.content[f.itable[ip].inum])

\* panic in the function why; the kernel stops at the first one.
Panic(f, why) == [f EXCEPT !.panic = IF @ = "none" THEN why ELSE @]
PanicIf(f, bad, why) == IF bad THEN Panic(f, why) ELSE f

FreeBlocks(f) == Blocks \ f.used

\* balloc: the first free block, zeroed.
balloc(f) ==
  IF FreeBlocks(f) = {} THEN [fs |-> Panic(f, "balloc"), addr |-> 0]
  ELSE LET b == Min(FreeBlocks(f)) IN
       [fs |-> [f EXCEPT !.used = @ \cup {b}, !.indirect[b] = NoIndirect], addr |-> b]

bfree(f, bs) == PanicIf([f EXCEPT !.used = @ \ bs], ~(bs \subseteq f.used), "bfree")

\* Mutant: the block addresses are not copied.
iupdateNoAddrs(f, ip) ==
  LET e == f.itable[ip] IN
  [f EXCEPT !.dinode[e.inum].type = e.type, !.dinode[e.inum].major = e.major,
            !.dinode[e.inum].nlink = e.nlink]

iupdate(f, ip) ==
  LET e == f.itable[ip] IN
  [f EXCEPT !.dinode[e.inum] =
     [type |-> e.type, major |-> e.major, nlink |-> e.nlink, addrs |-> e.addrs]]

\* The blocks of an inode with these addrs: data and indirect.
BlocksOf(f, addrs) ==
  LET ind == addrs[NDIRECT] IN
  ({addrs[k] : k \in 0 .. NDIRECT}
     \cup IF ind = 0 THEN {} ELSE {f.indirect[ind][k] : k \in 0 .. NINDIRECT - 1}) \ {0}

\* Mutant: the blocks behind the indirect block are not freed.
itruncDirect(f, ip) ==
  LET e == f.itable[ip]
      g == bfree(f, {e.addrs[k] : k \in 0 .. NDIRECT} \ {0})
  IN iupdate([g EXCEPT !.itable[ip].addrs = NoAddrs, !.content[e.inum] = <<>>], ip)

itrunc(f, ip) ==
  LET e == f.itable[ip]
      g == bfree(f, BlocksOf(f, e.addrs))
  IN iupdate([g EXCEPT !.itable[ip].addrs = NoAddrs, !.content[e.inum] = <<>>], ip)

\* bmap: the value of fs after it and the address of block bn of ip.
bmap(f, ip, bn) ==
  LET a == f.itable[ip].addrs IN
  IF bn < NDIRECT
  THEN IF a[bn] # 0 THEN [fs |-> f, addr |-> a[bn]]
       ELSE LET r == balloc(f) IN
            [fs |-> [r.fs EXCEPT !.itable[ip].addrs[bn] = r.addr], addr |-> r.addr]
  ELSE IF bn >= MAXFILE THEN [fs |-> Panic(f, "bmap"), addr |-> 0]
  ELSE LET r == IF a[NDIRECT] # 0 THEN [fs |-> f, addr |-> a[NDIRECT]] ELSE balloc(f)
           g == [r.fs EXCEPT !.itable[ip].addrs[NDIRECT] = r.addr]
           k == bn - NDIRECT
       IN IF r.addr = 0 \/ g.indirect[r.addr][k] # 0
          THEN [fs |-> g, addr |-> IF r.addr = 0 THEN 0 ELSE g.indirect[r.addr][k]]
          ELSE LET s == balloc(g) IN
               [fs |-> [s.fs EXCEPT !.indirect[r.addr][k] = s.addr], addr |-> s.addr]

\* The blocks that hold units off .. off + n - 1.
Touched(off, n) ==
  IF n = 0 THEN <<>>
  ELSE [k \in 1 .. (off + n - 1) \div BSIZE - off \div BSIZE + 1 |-> off \div BSIZE + k - 1]

BmapAll(f, ip, bns) == FoldLeft(LAMBDA g, bn : bmap(g, ip, bn).fs, f, bns)

\* data written over s from offset off, which is at most its length.
Overwrite(s, off, data) ==
  [k \in 1 .. IF off + Len(data) > Len(s) THEN off + Len(data) ELSE Len(s) |->
     IF k > off /\ k <= off + Len(data) THEN data[k - off] ELSE s[k]]

\* readi: bmap of every block read, up to the one whose copyout fails, which is
\* the one after the first good ones; tot is what it returns.
readi(f, ip, off, n, good) ==
  LET end == (off + n) % UintMod
      m == IF end > Size(f, ip) THEN Size(f, ip) - off ELSE n
      bns == Touched(off, m)
      bad == good < Len(bns)
  IN IF off > Size(f, ip) \/ end < off THEN [fs |-> f, tot |-> 0]
     ELSE [fs |-> BmapAll(f, ip, IF bad THEN SubSeq(bns, 1, good + 1) ELSE bns),
           tot |-> IF bad THEN -1 ELSE m]

\* writei: the copyin of the block after the first good ones fails, when
\* there is such a block; its bmap is done.
writei(f, ip, off, data, good) ==
  LET n == Len(data)
      bns == Touched(off, n)
      bad == good < Len(bns)
      tot == IF ~bad THEN n ELSE IF good = 0 THEN 0 ELSE bns[good + 1] * BSIZE - off
      g == BmapAll(f, ip, IF bad THEN SubSeq(bns, 1, good + 1) ELSE bns)
      h == [g EXCEPT !.content[f.itable[ip].inum] = Overwrite(@, off, SubSeq(data, 1, tot))]
      end == (off + n) % UintMod
  IN IF off > Size(f, ip) \/ end < off \/ end > MAXFILE * BSIZE
     THEN [fs |-> f, tot |-> -1]
     ELSE [fs |-> iupdate(h, ip), tot |-> tot]
-----------------------------------------------------------------------------
(* The inode table. *)

\* The entry iget returns for inode i: its own, or the first free one (0: none).
IgetSlot(f, i) ==
  LET own == {s \in Slots : f.itable[s].ref > 0 /\ f.itable[s].inum = i}
      empty == {s \in Slots : f.itable[s].ref = 0}
  IN IF own # {} THEN Min(own) ELSE IF empty # {} THEN Min(empty) ELSE 0

iget(f, i) ==
  LET s == IgetSlot(f, i) IN
  IF s = 0 THEN Panic(f, "iget")
  ELSE IF f.itable[s].ref > 0 THEN [f EXCEPT !.itable[s].ref = @ + 1]
  ELSE [f EXCEPT !.itable[s].inum = i, !.itable[s].ref = 1, !.itable[s].valid = FALSE]

idup(f, ip) == [f EXCEPT !.itable[ip].ref = @ + 1]

Unlocked(ip) == fs.itable[ip].lock = None

\* ilock, once the lock is free: reads the inode from disk if necessary.
ilock(f, ip, p) ==
  LET e == f.itable[ip]
      d == f.dinode[e.inum]
      loaded == IF e.valid THEN e
                ELSE [e EXCEPT !.valid = TRUE, !.type = d.type, !.major = d.major,
                               !.nlink = d.nlink, !.addrs = d.addrs]
  IN PanicIf([f EXCEPT !.itable[ip] = [loaded EXCEPT !.lock = p]],
             e.ref < 1 \/ (~e.valid /\ d.type = "free"), "ilock")

iunlock(f, ip) ==
  PanicIf([f EXCEPT !.itable[ip].lock = None],
          f.itable[ip].lock = None \/ f.itable[ip].ref < 1, "iunlock")

Nlink(f, ip, d) == iupdate([f EXCEPT !.itable[ip].nlink = @ + d], ip)
-----------------------------------------------------------------------------
(* Directories. *)

Entries(f, dp) == f.content[f.itable[dp].inum]

\* The offsets of the entries for name, and the inode number of the first (0: none).
OffsetsOf(f, dp, name) ==
  {k \in DOMAIN Entries(f, dp) : Entries(f, dp)[k].inum # 0 /\ Entries(f, dp)[k].name = name}

InumOf(f, dp, name) ==
  LET ks == OffsetsOf(f, dp, name) IN IF ks = {} THEN 0 ELSE Entries(f, dp)[Min(ks)].inum

\* dirlookup, as far as it concerns fs: iget of the inode found, whose entry
\* is then IgetSlot(f, InumOf(f, dp, name)).
dirlookup(f, dp, name) ==
  LET g == BmapAll(f, dp, Touched(0, Size(f, dp))) IN
  IF f.itable[dp].type # "dir" THEN Panic(f, "dirlookup")
  ELSE IF InumOf(f, dp, name) = 0 THEN g ELSE iget(g, InumOf(f, dp, name))

\* dirlink after its dirlookup found nothing: the first free entry, or a new one.
dirlink(f, dp, name, inum) ==
  LET free == {k \in DOMAIN Entries(f, dp) : Entries(f, dp)[k].inum = 0}
      off == IF free = {} THEN Size(f, dp) ELSE Min(free) - 1
      w == writei(f, dp, off, <<Dirent(name, inum)>>, 1)
  IN IF w.tot = 1 THEN w.fs ELSE Panic(w.fs, "dirlink")

isdirempty(f, dp) ==
  \A k \in DOMAIN Entries(f, dp) : k > 2 => Entries(f, dp)[k].inum = 0
-----------------------------------------------------------------------------
(* mkfs: the image the kernel starts from, with the operators' own names. *)

MkfsBlank == [dinode |-> [i \in Inums |-> FreeDinode], content |-> [i \in Inums |-> <<>>],
              used |-> {}, indirect |-> [b \in Blocks |-> NoIndirect], freeinode |-> 1]

mkfs_ialloc(m, type) ==
  [m EXCEPT !.dinode[m.freeinode] = [FreeDinode EXCEPT !.type = type, !.nlink = 1],
            !.freeinode = @ + 1]

\* iappend: freeblock counts up, so the blocks in use are the first ones.
mkfs_iappend(m, i, data) ==
  LET Block(x, fbn) ==
        LET freeblock == Cardinality(x.used) + 1
            a == x.dinode[i].addrs
            ind == IF a[NDIRECT] = 0 THEN freeblock ELSE a[NDIRECT]
            next == IF a[NDIRECT] = 0 THEN freeblock + 1 ELSE freeblock
        IN CASE fbn < NDIRECT /\ a[fbn] = 0 ->
                  [x EXCEPT !.dinode[i].addrs[fbn] = freeblock, !.used = @ \cup {freeblock}]
             [] fbn >= NDIRECT /\ x.indirect[ind][fbn - NDIRECT] = 0 ->
                  [x EXCEPT !.dinode[i].addrs[NDIRECT] = ind,
                            !.indirect[ind][fbn - NDIRECT] = next,
                            !.used = @ \cup {ind, next}]
             [] OTHER -> x
      y == FoldLeft(Block, m, Touched(Len(m.content[i]), Len(data)))
  IN [y EXCEPT !.content[i] = @ \o data]

\* main: the root directory, the files, and the root's size rounded up.
Mkfs ==
  LET File(m, a) ==
        LET i == m.freeinode IN
        mkfs_iappend(mkfs_iappend(mkfs_ialloc(m, "file"), ROOTINO, <<Dirent(a.name, i)>>),
                     i, [k \in 1 .. a.size |-> Zero])
      root == mkfs_iappend(mkfs_iappend(mkfs_ialloc(MkfsBlank, "dir"), ROOTINO,
                             <<Dirent(".", ROOTINO)>>), ROOTINO, <<Dirent("..", ROOTINO)>>)
      m == FoldLeft(File, root, Image)
      off == Len(m.content[ROOTINO])
  IN [m EXCEPT !.content[ROOTINO] =
        @ \o [k \in 1 .. (off \div BSIZE + 1) * BSIZE - off |-> Zero]]

\* The fields of a new inode, the dots of a directory, and its entry in dp.
\* ip and dp are locked.
NewInode(f, dp, ip, name, type, major) ==
  LET inum == f.itable[ip].inum
      g == iupdate([f EXCEPT !.itable[ip].major = major, !.itable[ip].nlink = 1], ip)
      dots == dirlink(dirlink(Nlink(g, dp, 1), ip, ".", inum), ip, "..", g.itable[dp].inum)
  IN dirlink(IF type = "dir" THEN dots ELSE g, dp, name, inum)

\* f, after a directory name was made in the root.
WithDir(f, name) ==
  LET i == Min({j \in Inums : f.dinode[j].type = "free"})
      g == iget([f EXCEPT !.dinode[i] = [FreeDinode EXCEPT !.type = "dir"]], i)
      dp == IgetSlot(g, ROOTINO)
      ip == IgetSlot(g, i)
      h == NewInode(ilock(ilock(g, dp, None), ip, None), dp, ip, name, "dir", 0)
  IN [h EXCEPT !.itable = f.itable]

\* The image of mkfs, on which an earlier run may have made directories; every
\* process is in the root directory (userinit and fork) and has no open file.
Init ==
  /\ \E dirs \in SUBSET Dirs :
       LET image == [dinode |-> Mkfs.dinode, content |-> Mkfs.content, used |-> Mkfs.used,
                     indirect |-> Mkfs.indirect, panic |-> "none",
                     itable |-> [s \in Slots |->
                       [inum |-> IF s = 1 THEN ROOTINO ELSE 0,
                        ref |-> IF s = 1 THEN Cardinality(Procs) ELSE 0,
                        valid |-> FALSE, lock |-> None, type |-> "free", major |-> 0,
                        nlink |-> 0, addrs |-> NoAddrs]]]
       IN fs = FoldLeft(WithDir, image, SetToSeq(dirs))
  /\ ftable = [f \in Files |-> FreeFile]
  /\ ofile = [p \in Procs |-> [fd \in Fds |-> 0]]
  /\ cwd = [p \in Procs |-> 1]
  /\ alive = Procs
  /\ tx = {}
  /\ pc = [p \in Procs |-> "idle"]
  /\ loc = [p \in Procs |-> NoLocals]
  /\ calls = 0
-----------------------------------------------------------------------------
(* Subroutines that span steps: a process notes where they return to. *)

Set(p, l) == loc' = [loc EXCEPT ![p] = l]
Goto(p, label) == pc' = [pc EXCEPT ![p] = label]
Return(p) == Set(p, NoLocals) /\ Goto(p, "idle")

\* p goes on with local variables l at label, inside or outside a transaction as it is.
To(p, l, label) == Set(p, l) /\ Goto(p, label) /\ UNCHANGED tx

\* ... where the label may be end_op and what follows it: the return of the
\* call, or for the end_op of fileclose the label it goes on at.
Continue(p, l, label) ==
  LET next == IF label = "close_end" THEN l.cret ELSE label IN
  /\ tx' = IF label \in {"end_op", "close_end"} THEN tx \ {p} ELSE tx
  /\ IF next \in {"end_op", "return"} THEN Return(p) ELSE Set(p, l) /\ Goto(p, next)

\* p calls iput(ip) and goes on with l at label ret.
iput(p, ip, l, ret) == To(p, [l EXCEPT !.put = ip, !.ret = ret], "iput")

Table == <<ftable, procVars, calls>>

\* Mutant: an inode without links is freed although others refer to it.
IputLastAnyRef(e) == e.valid /\ e.nlink = 0

\* The last reference to an inode without links.
IputLast(e) == e.ref = 1 /\ e.valid /\ e.nlink = 0

\* acquiresleep under itable.lock: must not have to wait.
IputTest(p) ==
  LET ip == loc[p].put IN
  /\ pc[p] = "iput"
  /\ IF IputLast(fs.itable[ip])
     THEN /\ fs' = PanicIf([fs EXCEPT !.itable[ip].lock = p], ~Unlocked(ip), "iput")
          /\ To(p, loc[p], "iput_free")
     ELSE /\ fs' = [fs EXCEPT !.itable[ip].ref = @ - 1]
          /\ Continue(p, loc[p], loc[p].ret)
  /\ UNCHANGED Table

\* itrunc, type = 0, iupdate: ialloc may take the inode from here on.
IputFree(p) ==
  LET ip == loc[p].put IN
  /\ pc[p] = "iput_free"
  /\ fs' = iupdate([itrunc(fs, ip) EXCEPT !.itable[ip].type = "free"], ip)
  /\ To(p, loc[p], "iput_unlock")
  /\ UNCHANGED Table

IputUnlock(p) ==
  /\ pc[p] = "iput_unlock"
  /\ fs' = [fs EXCEPT !.itable[loc[p].put].valid = FALSE, !.itable[loc[p].put].lock = None]
  /\ To(p, loc[p], "iput_dec")
  /\ UNCHANGED Table

IputDec(p) ==
  /\ pc[p] = "iput_dec"
  /\ fs' = [fs EXCEPT !.itable[loc[p].put].ref = @ - 1]
  /\ Continue(p, loc[p], loc[p].ret)
  /\ UNCHANGED Table

\* namex starts, with fs equal to f: at the root or at the current directory.
namex(p, f, path, parent, l, nret) ==
  LET abs == path # <<>> /\ path[1] = "/" IN
  /\ fs' = IF abs THEN iget(f, ROOTINO) ELSE idup(f, cwd[p])
  /\ Set(p, [l EXCEPT !.path = IF abs THEN Tail(path) ELSE path, !.parent = parent,
                      !.ip = IF abs THEN IgetSlot(f, ROOTINO) ELSE cwd[p], !.nret = nret])
  /\ Goto(p, "namex")

\* A path without elements.
NamexEmpty(p) ==
  LET l == loc[p] IN
  /\ pc[p] = "namex" /\ l.path = <<>>
  /\ IF l.parent THEN iput(p, l.ip, [l EXCEPT !.ip = 0], l.nret) ELSE To(p, l, l.nret)
  /\ UNCHANGED <<fs, Table>>

\* One element: lock the directory, look the element up, step into it.
NamexStep(p) ==
  LET l == loc[p]
      ip == l.ip
      name == Head(l.path)
      rest == Tail(l.path)
      f == ilock(fs, ip, p)
      found == InumOf(f, ip, name)
      fail == iput(p, ip, [l EXCEPT !.ip = 0, !.path = <<>>], l.nret)
      last == l.parent /\ rest = <<>>
  IN
  /\ pc[p] = "namex" /\ l.path # <<>> /\ Unlocked(ip)
  /\ CASE f.itable[ip].type # "dir" -> fs' = iunlock(f, ip) /\ fail
       [] f.itable[ip].type = "dir" /\ last ->
            fs' = iunlock(f, ip) /\ To(p, [l EXCEPT !.name = name, !.path = <<>>], l.nret)
       [] OTHER ->
            /\ fs' = iunlock(dirlookup(f, ip, name), ip)
            /\ IF found = 0 THEN fail
               ELSE iput(p, ip, [l EXCEPT !.ip = IgetSlot(f, found), !.path = rest],
                         IF rest = <<>> THEN l.nret ELSE "namex")
  /\ UNCHANGED Table
-----------------------------------------------------------------------------
(* create: nameiparent found the directory dp, or 0. *)

\* The type of the inode a call creates.
TypeOf(call) == CASE call.op = "open" -> "file" [] call.op = "mkdir" -> "dir"
                  [] OTHER -> "dev"

\* Mutant: the directory stays locked while the inode in it is locked.
ReleaseParentLate(f, dp) == f

\* The name exists: dp is unlocked before its inode is locked.
ReleaseParent(f, dp) == iunlock(f, dp)

CreateDir(p) ==
  LET l == loc[p]
      dp == l.ip
      f == ilock(fs, dp, p)
      found == InumOf(f, dp, l.name)
      g == dirlookup(f, dp, l.name)
  IN
  /\ pc[p] = "create"
  /\ \/ /\ dp = 0
        /\ Continue(p, loc[p], "end_op") /\ UNCHANGED fs
     \/ /\ dp # 0 /\ Unlocked(dp) /\ found # 0
        /\ fs' = ReleaseParent(g, dp)
        /\ iput(p, dp, [l EXCEPT !.ip = IgetSlot(f, found)], "create_found")
     \/ /\ dp # 0 /\ Unlocked(dp) /\ found = 0
        /\ fs' = g
        /\ To(p, [l EXCEPT !.dp = dp, !.ip = 0], "ialloc")
  /\ UNCHANGED Table

\* The name exists: open may use it, mkdir and mknod fail.
CreateFound(p) ==
  LET l == loc[p]
      f == ilock(fs, l.ip, p)
  IN
  /\ pc[p] = "create_found" /\ Unlocked(l.ip)
  /\ IF l.call.op = "open" /\ f.itable[l.ip].type \in {"file", "dev"}
     THEN fs' = f /\ To(p, l, "opened")
     ELSE fs' = iunlock(f, l.ip) /\ iput(p, l.ip, l, "end_op")
  /\ UNCHANGED Table

\* ialloc up to its iget; the directory stays locked.
Ialloc(p) ==
  LET free == {i \in Inums : fs.dinode[i].type = "free"}
      i == Min(free)
  IN
  /\ pc[p] = "ialloc"
  /\ IF free = {} THEN fs' = Panic(fs, "ialloc") /\ UNCHANGED <<pc, loc, tx>>
     ELSE /\ fs' = [fs EXCEPT !.dinode[i] = [FreeDinode EXCEPT !.type = TypeOf(loc[p].call)]]
          /\ To(p, [loc[p] EXCEPT !.n = i], "ialloc_iget")
  /\ UNCHANGED Table

IallocIget(p) ==
  /\ pc[p] = "ialloc_iget"
  /\ fs' = iget(fs, loc[p].n)
  /\ To(p, [loc[p] EXCEPT !.ip = IgetSlot(fs, loc[p].n), !.n = 0], "create_new")
  /\ UNCHANGED Table

CreateNew(p) ==
  LET l == loc[p]
      major == IF l.call.op = "mknod" THEN l.call.major ELSE 0
      f == NewInode(ilock(fs, l.ip, p), l.dp, l.ip, l.name, TypeOf(l.call), major)
  IN
  /\ pc[p] = "create_new" /\ Unlocked(l.ip)
  /\ fs' = iunlock(f, l.dp)
  /\ iput(p, l.dp, [l EXCEPT !.dp = 0], IF l.call.op = "open" THEN "opened" ELSE "created")
  /\ UNCHANGED Table

\* mkdir and mknod: iunlockput of the new inode.
Created(p) ==
  /\ pc[p] = "created"
  /\ fs' = iunlock(fs, loc[p].ip)
  /\ iput(p, loc[p].ip, loc[p], "end_op")
  /\ UNCHANGED Table
-----------------------------------------------------------------------------
(* The file table and descriptors (file.c, argfd, fdalloc). *)

FreeFiles == {f \in Files : ftable[f].ref = 0}
FreeFds(p) == {fd \in Fds : ofile[p][fd] = 0}

\* The entry of a file whose last reference is dropped.
filefreed(e) == [e EXCEPT !.ref = 0, !.type = "NONE"]

\* fileclose(f) of file table t; p goes on with l at label cret.
fileclose(p, t, f, l, cret) ==
  LET ff == t[f] IN
  /\ fs' = PanicIf(fs, ff.ref < 1, "fileclose")
  /\ ftable' = [t EXCEPT ![f] = IF @.ref > 1 THEN [@ EXCEPT !.ref = @ - 1] ELSE filefreed(@)]
  /\ IF ff.ref = 1 /\ ff.type \in {"INODE", "DEVICE"}
     THEN /\ tx' = tx \cup {p}
          /\ Set(p, [l EXCEPT !.put = ff.ip, !.ret = "close_end", !.cret = cret])
          /\ Goto(p, "iput")
     ELSE Continue(p, l, cret)

SysClose(p) ==
  /\ pc[p] = "idle" /\ p \in alive
  /\ \E fd \in Fds \ FreeFds(p) :
       /\ ofile' = [ofile EXCEPT ![p][fd] = 0]
       /\ fileclose(p, ftable, ofile[p][fd], NoLocals, "return")
  /\ UNCHANGED <<cwd, alive, calls>>

\* p makes a call of this kind, one of the MaxCalls.
Called(p, op) ==
  /\ pc[p] = "idle" /\ p \in alive /\ calls < MaxCalls
  /\ \E c \in Calls[p] : c.op = op
  /\ calls' = calls + 1

filedup(t, f) == [t EXCEPT ![f].ref = @ + 1]

SysDup(p) ==
  /\ Called(p, "dup") /\ FreeFds(p) # {}
  /\ \E fd \in Fds \ FreeFds(p) :
       /\ ofile' = [ofile EXCEPT ![p][Min(FreeFds(p))] = ofile[p][fd]]
       /\ ftable' = filedup(ftable, ofile[p][fd])
  /\ UNCHANGED <<fs, cwd, alive, tx, pc, loc>>

\* fileread: n units from the shared offset; a failed copyout moves it not.
\* The int n becomes a uint.
SysRead(p) ==
  \E fd \in Fds \ FreeFds(p), n \in ReadCounts, good \in 0 .. MAXFILE :
    LET f == ofile[p][fd]
        ip == ftable[f].ip
        r == readi(ilock(fs, ip, p), ip, ftable[f].off, n, good)
    IN
    /\ Called(p, "read")
    /\ ftable[f].readable /\ ftable[f].type = "INODE" /\ Unlocked(ip)
    /\ fs' = iunlock(r.fs, ip)
    /\ ftable' = IF r.tot > 0 THEN [ftable EXCEPT ![f].off = @ + r.tot] ELSE ftable
    /\ UNCHANGED <<procVars, tx, pc, loc>>

\* filestat: the inode is locked, read if necessary, and unlocked.
SysFstat(p) ==
  \E fd \in Fds \ FreeFds(p) :
    LET f == ofile[p][fd] IN
    /\ Called(p, "fstat")
    /\ ftable[f].type \in {"INODE", "DEVICE"} /\ Unlocked(ftable[f].ip)
    /\ fs' = iunlock(ilock(fs, ftable[f].ip, p), ftable[f].ip)
    /\ UNCHANGED <<ftable, procVars, tx, pc, loc>>

\* filewrite: one writei of at most MAXCHUNK units in a transaction of its own.
Filewrite(p) ==
  LET l == loc[p]
      f == ofile[p][l.call.fd]
      ip == ftable[f].ip
      n1 == IF l.n > MAXCHUNK THEN MAXCHUNK ELSE l.n
      data == [k \in 1 .. n1 |-> Zero]
  IN
  /\ pc[p] = "write" /\ Unlocked(ip)
  /\ \E good \in 0 .. Len(Touched(ftable[f].off, n1)) :
       LET w == writei(ilock(fs, ip, p), ip, ftable[f].off, data, good) IN
       /\ fs' = iunlock(w.fs, ip)
       /\ ftable' = IF w.tot > 0 THEN [ftable EXCEPT ![f].off = @ + w.tot] ELSE ftable
       /\ IF w.tot = n1 /\ l.n > n1
          THEN Set(p, [l EXCEPT !.n = @ - n1]) /\ UNCHANGED pc
          ELSE Return(p)
  /\ UNCHANGED <<procVars, calls, tx>>

\* pipealloc: two files, if there are two and kalloc succeeds.
Pipealloc(p) ==
  LET rf == Min(FreeFiles)
      wf == Min(FreeFiles \ {rf})
      end == [FreeFile EXCEPT !.ref = 1, !.type = "PIPE"]
  IN
  /\ pc[p] = "pipe"
  /\ \/ /\ Cardinality(FreeFiles) >= 2
        /\ ftable' = [ftable EXCEPT ![rf] = [end EXCEPT !.readable = TRUE],
                                    ![wf] = [end EXCEPT !.writable = TRUE]]
        /\ Set(p, [loc[p] EXCEPT !.old = rf, !.n = wf]) /\ Goto(p, "pipe_fd")
     \/ Return(p) /\ UNCHANGED ftable
  /\ UNCHANGED <<fs, procVars, calls, tx>>

\* fdalloc of both, or fileclose of both (also when the copyout fails).
PipeFds(p) ==
  LET rf == loc[p].old
      wf == loc[p].n
      fd0 == Min(FreeFds(p))
      fd1 == Min(FreeFds(p) \ {fd0})
  IN
  /\ pc[p] = "pipe_fd"
  /\ \/ /\ Cardinality(FreeFds(p)) >= 2
        /\ ofile' = [ofile EXCEPT ![p][fd0] = rf, ![p][fd1] = wf]
        /\ UNCHANGED ftable
     \/ /\ ftable' = [ftable EXCEPT ![rf] = filefreed(@), ![wf] = filefreed(@)]
        /\ UNCHANGED ofile
  /\ Return(p)
  /\ UNCHANGED <<fs, cwd, alive, calls, tx>>

\* fork: the child shares the open files and the current directory.
Fork(p) ==
  \E q \in Procs \ alive :
    /\ Called(p, "fork")
    /\ alive' = alive \cup {q}
    /\ ofile' = [ofile EXCEPT ![q] = ofile[p]]
    /\ cwd' = [cwd EXCEPT ![q] = cwd[p]]
    /\ ftable' = [f \in Files |->
         [ftable[f] EXCEPT !.ref = @ + Cardinality({fd \in Fds : ofile[p][fd] = f})]]
    /\ fs' = idup(fs, cwd[p])
    /\ UNCHANGED <<tx, pc, loc>>

\* exit: close every file, then the current directory.
Exit(p) ==
  /\ \/ Called(p, "exit")
     \/ pc[p] = "exit" /\ UNCHANGED calls
  /\ IF Fds = FreeFds(p)
     THEN /\ tx' = tx \cup {p}
          /\ Set(p, [loc[p] EXCEPT !.put = cwd[p], !.ret = "exit_end"]) /\ Goto(p, "iput")
          /\ UNCHANGED <<fs, ftable, ofile>>
     ELSE LET fd == Min(Fds \ FreeFds(p)) IN
          /\ ofile' = [ofile EXCEPT ![p][fd] = 0]
          /\ fileclose(p, ftable, ofile[p][fd], loc[p], "exit")
  /\ UNCHANGED <<cwd, alive>>

ExitEnd(p) ==
  /\ pc[p] = "exit_end"
  /\ tx' = tx \ {p}
  /\ cwd' = [cwd EXCEPT ![p] = 0]
  /\ alive' = alive \ {p}
  /\ Return(p)
  /\ UNCHANGED <<fs, ftable, ofile, calls>>
-----------------------------------------------------------------------------
(* open: the inode is found (or 0), then locked, then given a file. *)

OpenNamei(p) ==
  LET l == loc[p]
      f == ilock(fs, l.ip, p)
  IN
  /\ pc[p] = "open"
  /\ \/ l.ip = 0 /\ Continue(p, loc[p], "end_op") /\ UNCHANGED fs
     \/ /\ l.ip # 0 /\ Unlocked(l.ip)
        /\ IF f.itable[l.ip].type = "dir" /\ l.call.omode # {}
           THEN fs' = iunlock(f, l.ip) /\ iput(p, l.ip, l, "end_op")
           ELSE fs' = f /\ To(p, l, "opened")
  /\ UNCHANGED Table

\* The locked inode gets a file and a descriptor, or the call fails.
Opened(p) ==
  LET l == loc[p]
      e == fs.itable[l.ip]
      nodev == e.type = "dev" /\ e.major \notin 0 .. NDEV - 1
      f == Min(FreeFiles)
      alloc == [ftable EXCEPT ![f].ref = 1]
      file == [ref |-> 1, type |-> IF e.type = "dev" THEN "DEVICE" ELSE "INODE",
               ip |-> l.ip, off |-> 0,
               readable |-> "WRONLY" \notin l.call.omode,
               writable |-> {"WRONLY", "RDWR"} \cap l.call.omode # {}]
      g == IF "TRUNC" \in l.call.omode /\ e.type = "file" THEN itrunc(fs, l.ip) ELSE fs
  IN
  /\ pc[p] = "opened"
  /\ \/ /\ \/ nodev
           \/ FreeFiles = {}
        /\ fs' = iunlock(fs, l.ip)
        /\ iput(p, l.ip, l, "end_op")
        /\ UNCHANGED <<ftable, ofile>>
     \/ /\ ~nodev /\ FreeFiles # {} /\ FreeFds(p) = {}
        /\ fileclose(p, alloc, f, l, "open_fail")
        /\ UNCHANGED ofile
     \/ /\ ~nodev /\ FreeFiles # {} /\ FreeFds(p) # {}
        /\ ftable' = [ftable EXCEPT ![f] = file]
        /\ ofile' = [ofile EXCEPT ![p][Min(FreeFds(p))] = f]
        /\ fs' = iunlock(g, l.ip)
        /\ Continue(p, l, "end_op")
  /\ UNCHANGED <<cwd, alive, calls>>

OpenFail(p) ==
  /\ pc[p] = "open_fail"
  /\ fs' = iunlock(fs, loc[p].ip)
  /\ iput(p, loc[p].ip, loc[p], "end_op")
  /\ UNCHANGED Table
-----------------------------------------------------------------------------
(* link: the count first, then the entry; back again if that fails. *)

LinkOld(p) ==
  LET l == loc[p]
      f == ilock(fs, l.ip, p)
  IN
  /\ pc[p] = "link"
  /\ \/ l.ip = 0 /\ Continue(p, loc[p], "end_op") /\ UNCHANGED fs
     \/ /\ l.ip # 0 /\ Unlocked(l.ip)
        /\ IF f.itable[l.ip].type = "dir"
           THEN fs' = iunlock(f, l.ip) /\ iput(p, l.ip, l, "end_op")
           ELSE /\ namex(p, iunlock(Nlink(f, l.ip, 1), l.ip), l.call.new, TRUE,
                         [l EXCEPT !.old = l.ip], "link_dp")
                /\ UNCHANGED tx
  /\ UNCHANGED Table

LinkDir(p) ==
  LET l == loc[p]
      dp == l.ip
      f == ilock(fs, dp, p)
      found == InumOf(f, dp, l.name)
      g == dirlookup(f, dp, l.name)
  IN
  /\ pc[p] = "link_dp"
  /\ \/ dp = 0 /\ To(p, l, "link_bad") /\ UNCHANGED fs
     \/ /\ dp # 0 /\ Unlocked(dp)
        /\ IF found # 0
           THEN fs' = g /\ iput(p, IgetSlot(f, found), [l EXCEPT !.dp = dp], "link_exists")
           ELSE /\ fs' = iunlock(dirlink(g, dp, l.name, fs.itable[l.old].inum), dp)
                /\ iput(p, dp, l, "link_done")
  /\ UNCHANGED Table

\* The name is taken: dirlink's iput was made with dp locked.
LinkExists(p) ==
  /\ pc[p] = "link_exists"
  /\ fs' = iunlock(fs, loc[p].dp)
  /\ iput(p, loc[p].dp, [loc[p] EXCEPT !.dp = 0], "link_bad")
  /\ UNCHANGED Table

LinkDone(p) ==
  /\ pc[p] = "link_done"
  /\ iput(p, loc[p].old, loc[p], "end_op")
  /\ UNCHANGED <<fs, Table>>

LinkBad(p) ==
  LET ip == loc[p].old IN
  /\ pc[p] = "link_bad" /\ Unlocked(ip)
  /\ fs' = iunlock(Nlink(ilock(fs, ip, p), ip, -1), ip)
  /\ iput(p, ip, loc[p], "end_op")
  /\ UNCHANGED Table
-----------------------------------------------------------------------------
(* unlink: the directory is locked, then the inode in it. *)

UnlinkDir(p) ==
  LET l == loc[p]
      dp == l.ip
      f == ilock(fs, dp, p)
      found == InumOf(f, dp, l.name)
      g == dirlookup(f, dp, l.name)
      dot == l.name \in {".", ".."}
  IN
  /\ pc[p] = "unlink"
  /\ \/ dp = 0 /\ Continue(p, loc[p], "end_op") /\ UNCHANGED fs
     \/ /\ dp # 0 /\ Unlocked(dp) /\ (dot \/ found = 0)
        /\ fs' = iunlock(IF dot THEN f ELSE g, dp)
        /\ iput(p, dp, l, "end_op")
     \/ /\ dp # 0 /\ Unlocked(dp) /\ ~dot /\ found # 0
        /\ fs' = g
        /\ To(p, [l EXCEPT !.dp = dp, !.ip = IgetSlot(f, found)], "unlink_ip")
  /\ UNCHANGED Table

\* Mutant: a directory that still has entries may go.
UnlinkableAny(f, ip) == TRUE

Unlinkable(f, ip) == f.itable[ip].type # "dir" \/ isdirempty(f, ip)

\* Both locked: clear the entry and, for a directory, drop its ".." link.
UnlinkEntry(p) ==
  LET l == loc[p]
      f == ilock(fs, l.ip, p)
      off == Min(OffsetsOf(f, l.dp, l.name)) - 1
      w == writei(f, l.dp, off, <<Zero>>, 1)
      g == IF f.itable[l.ip].type = "dir" THEN Nlink(w.fs, l.dp, -1) ELSE w.fs
  IN
  /\ pc[p] = "unlink_ip" /\ Unlocked(l.ip)
  /\ CASE f.itable[l.ip].nlink < 1 -> fs' = Panic(f, "unlink") /\ UNCHANGED <<pc, loc, tx>>
       [] f.itable[l.ip].nlink >= 1 /\ ~Unlinkable(f, l.ip) ->
            fs' = iunlock(f, l.ip) /\ iput(p, l.ip, l, "unlink_bad")
       [] OTHER -> fs' = iunlock(g, l.dp) /\ iput(p, l.dp, [l EXCEPT !.dp = 0], "unlink_drop")
  /\ UNCHANGED Table

\* The inode, still locked, loses the link.
UnlinkDrop(p) ==
  LET ip == loc[p].ip IN
  /\ pc[p] = "unlink_drop"
  /\ fs' = iunlock(Nlink(fs, ip, -1), ip)
  /\ iput(p, ip, loc[p], "end_op")
  /\ UNCHANGED Table

\* Mutant: the error path forgets the reference to the directory.
UnlinkBadKeeps(p) ==
  /\ pc[p] = "unlink_bad"
  /\ fs' = iunlock(fs, loc[p].dp)
  /\ Continue(p, loc[p], "end_op")
  /\ UNCHANGED Table

UnlinkBad(p) ==
  /\ pc[p] = "unlink_bad"
  /\ fs' = iunlock(fs, loc[p].dp)
  /\ iput(p, loc[p].dp, [loc[p] EXCEPT !.dp = 0], "end_op")
  /\ UNCHANGED Table
-----------------------------------------------------------------------------
(* chdir: the old directory is put before the new one is installed. *)

Chdir(p) ==
  LET l == loc[p]
      f == ilock(fs, l.ip, p)
  IN
  /\ pc[p] = "chdir"
  /\ \/ l.ip = 0 /\ Continue(p, loc[p], "end_op") /\ UNCHANGED fs
     \/ /\ l.ip # 0 /\ Unlocked(l.ip)
        /\ fs' = iunlock(f, l.ip)
        /\ IF f.itable[l.ip].type # "dir" THEN iput(p, l.ip, l, "end_op")
           ELSE iput(p, cwd[p], l, "chdir_end")
  /\ UNCHANGED Table

ChdirEnd(p) ==
  /\ pc[p] = "chdir_end"
  /\ tx' = tx \ {p}
  /\ cwd' = [cwd EXCEPT ![p] = loc[p].ip]
  /\ Return(p)
  /\ UNCHANGED <<fs, ftable, ofile, alive, calls>>
-----------------------------------------------------------------------------
(* A system call starts: the arguments, begin_op, the path. *)

SysPath(p) ==
  \E c \in {d \in Calls[p] : d.op \in {"open", "mkdir", "mknod", "link", "unlink", "chdir"}} :
    LET l == [NoLocals EXCEPT !.call = c] IN
    /\ Called(p, c.op)
    /\ CASE c.op = "open" /\ "CREATE" \notin c.omode -> namex(p, fs, c.path, FALSE, l, "open")
         [] c.op = "open" /\ "CREATE" \in c.omode -> namex(p, fs, c.path, TRUE, l, "create")
         [] c.op \in {"mkdir", "mknod"} -> namex(p, fs, c.path, TRUE, l, "create")
         [] c.op = "link" -> namex(p, fs, c.path, FALSE, l, "link")
         [] c.op = "unlink" -> namex(p, fs, c.path, TRUE, l, "unlink")
         [] c.op = "chdir" -> namex(p, fs, c.path, FALSE, l, "chdir")
    /\ tx' = tx \cup {p}
    /\ UNCHANGED <<ftable, procVars>>

SysWrite(p) ==
  \E c \in {d \in Calls[p] : d.op = "write"} :
    LET f == ofile[p][c.fd] IN
    /\ Called(p, "write")
    /\ f # 0 /\ ftable[f].writable /\ ftable[f].type = "INODE"
    /\ Set(p, [NoLocals EXCEPT !.call = c, !.n = c.n])
    /\ Goto(p, "write")
    /\ UNCHANGED <<fs, ftable, procVars, tx>>

SysPipe(p) ==
  /\ Called(p, "pipe")
  /\ Set(p, NoLocals) /\ Goto(p, "pipe")
  /\ UNCHANGED <<fs, ftable, procVars, tx>>

Step(p) ==
  \/ SysPath(p) \/ SysWrite(p) \/ SysPipe(p) \/ SysClose(p) \/ SysDup(p) \/ SysRead(p)
  \/ SysFstat(p) \/ Fork(p) \/ Exit(p) \/ ExitEnd(p)
  \/ IputTest(p) \/ IputFree(p) \/ IputUnlock(p) \/ IputDec(p)
  \/ NamexEmpty(p) \/ NamexStep(p)
  \/ CreateDir(p) \/ CreateFound(p) \/ Ialloc(p) \/ IallocIget(p) \/ CreateNew(p) \/ Created(p)
  \/ Filewrite(p) \/ Pipealloc(p) \/ PipeFds(p)
  \/ OpenNamei(p) \/ Opened(p) \/ OpenFail(p)
  \/ LinkOld(p) \/ LinkDir(p) \/ LinkExists(p) \/ LinkDone(p) \/ LinkBad(p)
  \/ UnlinkDir(p) \/ UnlinkEntry(p) \/ UnlinkDrop(p) \/ UnlinkBad(p)
  \/ Chdir(p) \/ ChdirEnd(p)

Next == fs.panic = "none" /\ \E p \in Procs : Step(p)

Spec == Init /\ [][Next]_vars
-----------------------------------------------------------------------------
(* Properties. *)

Quiet == \A p \in Procs : pc[p] = "idle"
Holders(ip) == {f \in Files : ftable[f].type \in {"INODE", "DEVICE"} /\ ftable[f].ip = ip}

\* fs.c:131: ip->ref is the number of open files and current directories that
\* point to the entry, f->ref (file.c) the number of descriptors: when no call
\* runs, no error path and no race has lost or kept a reference or a lock.
RefsExact ==
  Quiet =>
    /\ \A s \in Slots :
         /\ fs.itable[s].ref = Cardinality(Holders(s)) + Cardinality({p \in alive : cwd[p] = s})
         /\ Unlocked(s)
    /\ \A f \in Files :
         ftable[f].ref = Cardinality({x \in Procs \X Fds : ofile[x[1]][x[2]] = f})

\* An inode that is open, or the current directory of a process that is not in
\* chdir or exit, is not freed (iput), whatever unlinks happen meanwhile.
HeldNotFreed ==
  \A s \in Slots :
    (Holders(s) # {} \/ \E p \in alive : pc[p] = "idle" /\ cwd[p] = s) =>
      fs.itable[s].ref > 0 /\ fs.dinode[fs.itable[s].inum].type # "free"

\* The directories that can be reached from the root, on disk; and in f.
ReachedIn(f) ==
  LET Inside(d) == {f.content[d][k].inum : k \in 3 .. Len(f.content[d])} \ {0}
      R[n \in 0 .. NINODES] ==
        IF n = 0 THEN {ROOTINO}
        ELSE LET S == R[n - 1] IN
             S \cup {i \in UNION {Inside(d) : d \in S} : f.dinode[i].type = "dir"}
  IN R[NINODES]

Reached == ReachedIn(fs)

\* A directory leaves the tree (unlink, isdirempty) only without entries, also
\* when another process creates, links or looks up a name in it meanwhile.
RemovedEmpty ==
  [][\A d \in ReachedIn(fs) \ ReachedIn(fs') :
       \A k \in DOMAIN fs'.content[d] : k > 2 => fs'.content[d][k].inum = 0]_fs

\* The entries, other than dots, in directories of S that name i.
LinksTo(S, i) ==
  UNION {{<<d, k>> : k \in {j \in 3 .. Len(fs.content[d]) : fs.content[d][j].inum = i}} : d \in S}

\* The numbers of blocks in an inode, with repetition.
Pointers(i) ==
  LET a == fs.dinode[i].addrs IN
  Cardinality({k \in 0 .. NDIRECT : a[k] # 0})
    + IF a[NDIRECT] = 0 THEN 0
      ELSE Cardinality({k \in 0 .. NINDIRECT - 1 : fs.indirect[a[NDIRECT]][k] # 0})

DiskBlocks(i) == BlocksOf(fs, fs.dinode[i].addrs)

\* Of the panics of fs.c, file.c and sysfile.c, which stand for things their
\* callers must have made sure of, calls on directories that exist reach only
\* those of a full disk or table (usertests.c:2421: "balloc panics"), and
\* only when it is full: at "out of blocks" each block is in an inode, at
\* "ialloc: no inodes" each inode is linked or in use, at "dirlink" some
\* directory has no room.  A process that stays in a directory after its
\* removal reaches another: it goes to "..", which may be free (fs.c:311).
PanicOnlyWhenFull ==
  /\ fs.panic \in {"none", "balloc", "ialloc", "iget", "dirlink"}
  /\ fs.panic = "balloc" =>
       Blocks = UNION {DiskBlocks(i) : i \in Inums}
                  \cup UNION {BlocksOf(fs, fs.itable[s].addrs) : s \in {t \in Slots : fs.itable[t].ref > 0}}
  /\ fs.panic = "ialloc" =>
       \A i \in Inums \ {ROOTINO} :
         \/ LinksTo(Inums, i) # {}
         \/ \E s \in Slots : fs.itable[s].ref > 0 /\ fs.itable[s].inum = i
         \/ \E p \in Procs : pc[p] = "ialloc_iget" /\ loc[p].n = i
  /\ fs.panic = "dirlink" =>
       \E i \in Inums : /\ fs.dinode[i].type = "dir" /\ Len(fs.content[i]) = MAXFILE * BSIZE
                        /\ \A k \in DOMAIN fs.content[i] : fs.content[i][k].inum # 0

\* What a commit writes (no transaction is open): every entry of a directory
\* names an allocated inode that counts at least the links there are to it, a
\* directory is linked once, and each block in use belongs to one inode, once.
DiskConsistent ==
  tx = {} /\ fs.panic = "none" =>
    /\ LET S == Reached IN
       \A d \in S : \A k \in DOMAIN fs.content[d] :
         LET i == fs.content[d][k].inum IN
         i # 0 => /\ fs.dinode[i].type # "free"
                  /\ fs.dinode[i].nlink >= Cardinality(LinksTo(S, i))
                  /\ fs.dinode[i].type = "dir" => Cardinality(LinksTo(S, i)) <= 1
    /\ fs.used = UNION {DiskBlocks(i) : i \in Inums}
    /\ \A i \in Inums : Cardinality(DiskBlocks(i)) = Pointers(i)
    /\ \A i, j \in Inums : i # j => DiskBlocks(i) \cap DiskBlocks(j) = {}

\* A valid entry that nobody has locked holds what is on disk ("Must be called
\* after every change", iupdate), and an inode has one entry (iget).
CacheCoherent ==
  /\ \A s \in Slots :
       LET e == fs.itable[s] IN
       e.ref > 0 /\ e.valid /\ e.lock = None =>
         fs.dinode[e.inum] =
           [type |-> e.type, major |-> e.major, nlink |-> e.nlink, addrs |-> e.addrs]
  /\ \A s, t \in Slots :
       s # t /\ fs.itable[s].ref > 0 /\ fs.itable[t].ref > 0 =>
         fs.itable[s].inum # fs.itable[t].inum

\* The inode whose lock p waits for, or 0.
WaitsFor(p) ==
  CASE pc[p] = "namex" -> IF loc[p].path = <<>> THEN 0 ELSE loc[p].ip
    [] pc[p] \in {"create", "create_found", "create_new", "open", "link", "link_dp",
                  "unlink", "unlink_ip", "chdir"} -> loc[p].ip
    [] pc[p] = "link_bad" -> loc[p].old
    [] pc[p] = "write" -> ftable[ofile[p][loc[p].call.fd]].ip
    [] OTHER -> 0

\* create and unlink hold the directory while they lock the inode in it, the
\* only two locks held at once: processes never wait for each other in a ring.
NoLockCycle ==
  \A S \in SUBSET Procs \ {{}} :
    \E p \in S : WaitsFor(p) = 0 \/ fs.itable[WaitsFor(p)].lock \notin S
=============================================================================
