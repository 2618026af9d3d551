------------------------------ MODULE LockTable ------------------------------
(***************************************************************************)
(* What a kernel spin lock promises its callers: a lock has at most one    *)
(* owner, it is taken only when it is free and freed only by its owner.    *)
(* SpinLock implements this specification; the modules of the other        *)
(* components take and release their locks in one step each, as here.      *)
(***************************************************************************)
CONSTANTS Locks,    \* the spin locks
          Owners,   \* who may own one
          None      \* no owner

VARIABLE owner

Init == owner = [l \in Locks |-> None]

Acquire(x, l) ==
  /\ owner[l] = None
  /\ owner' = [owner EXCEPT ![l] = x]

Release(x, l) ==
  /\ owner[l] = x
  /\ owner' = [owner EXCEPT ![l] = None]

Next == \E x \in Owners, l \in Locks : Acquire(x, l) \/ Release(x, l)

Spec == Init /\ [][Next]_owner
=============================================================================
