---------------------------- MODULE AddressSpaces ----------------------------
(***************************************************************************)
(* What the kernel promises a process about its memory: pages that nobody  *)
(* else can change, zero when new, copied by fork, replaced by exec.       *)
(***************************************************************************)
EXTENDS Integers, FiniteSets

CONSTANTS Procs,
          Vals,      \* what each process stores
          VPages,    \* the user pages there may be: 0 .. some number
          Images     \* what exec may load: functions on an initial part of VPages

VARIABLE space       \* of each process its pages, and whether it may use them

Page(val, user) == [val |-> val, user |-> user]
Fresh == Page("zero", TRUE)
Empty == [v \in {} |-> Fresh]

Init == \E init \in Procs :
          space = [p \in Procs |-> IF p = init THEN [v \in {0} |-> Page("initcode", TRUE)] ELSE Empty]

\* The pages 0 .. n - 1, of which the ones p had are as they were.
Resized(s, n) == [v \in 0 .. n - 1 |-> IF v \in DOMAIN s THEN s[v] ELSE Fresh]

Resize(p) == \E n \in 0 .. Cardinality(VPages) : space' = [space EXCEPT ![p] = Resized(@, n)]

\* By the process itself, or by the kernel for it (then of several pages).
Store(p) ==
  \E vs \in SUBSET {v \in DOMAIN space[p] : space[p][v].user}, val \in Vals[p] :
    space' = [space EXCEPT ![p] = [v \in DOMAIN @ |-> IF v \in vs THEN Page(val, TRUE) ELSE @[v]]]

\* A new process gets a copy of everything.
Fork(p, q) == space[q] = Empty /\ space' = [space EXCEPT ![q] = space[p]]

Exec(p) == \E image \in Images : space' = [space EXCEPT ![p] = image]

Free(p) == space' = [space EXCEPT ![p] = Empty]

Next == \E p \in Procs : \/ Resize(p) \/ Store(p) \/ Exec(p) \/ Free(p)
                         \/ \E q \in Procs : Fork(p, q)

Spec == Init /\ [][Next]_space
=============================================================================
