------------------------------ MODULE AtomicDisk ------------------------------
(***************************************************************************)
(* What kernel/log.c promises to the file system: system calls run between *)
(* begin_op and end_op, their writes are seen at once by everybody, and    *)
(* what a crash leaves behind is the result of whole system calls: the     *)
(* contents at some moment when no call was active.                        *)
(***************************************************************************)
CONSTANTS Blocks, Values, Procs

VARIABLES mem,      \* the contents that the running system sees
          durable,  \* the contents after a crash and recovery
          active    \* the processes between begin_op and end_op

vars == <<mem, durable, active>>

Init ==
  /\ mem \in [Blocks -> Values]
  /\ durable = mem
  /\ active = {}

Begin(p) ==
  /\ p \notin active
  /\ active' = active \cup {p}
  /\ UNCHANGED <<mem, durable>>

Write(p, b, v) ==
  /\ p \in active
  /\ mem' = [mem EXCEPT ![b] = v]
  /\ UNCHANGED <<durable, active>>

End(p) ==
  /\ p \in active
  /\ active' = active \ {p}
  /\ UNCHANGED <<mem, durable>>

Commit ==
  /\ active = {}
  /\ durable' = mem
  /\ UNCHANGED <<mem, active>>

Crash ==
  /\ mem' = durable
  /\ active' = {}
  /\ UNCHANGED durable

Next ==
  \/ \E p \in Procs : Begin(p) \/ End(p)
  \/ \E p \in Procs, b \in Blocks, v \in Values : Write(p, b, v)
  \/ Commit \/ Crash

Spec == Init /\ [][Next]_vars
=============================================================================
