------------------------------ MODULE BlockStore ------------------------------
(***************************************************************************)
(* What the buffer cache promises ("Interface", kernel/bio.c): bread gives *)
(* a process the contents of a block, nobody else has the block until the  *)
(* process calls brelse, and the next one gets what the last one left.     *)
(***************************************************************************)
CONSTANTS Blocks, Values, Procs, None

VARIABLES content, holder

vars == <<content, holder>>

Init ==
  /\ content \in [Blocks -> Values]
  /\ holder = [k \in Blocks |-> None]

Take(p, k) ==
  /\ holder[k] = None
  /\ holder' = [holder EXCEPT ![k] = p]
  /\ UNCHANGED content

Write(p, k, v) ==
  /\ holder[k] = p
  /\ content' = [content EXCEPT ![k] = v]
  /\ UNCHANGED holder

Give(p, k) ==
  /\ holder[k] = p
  /\ holder' = [holder EXCEPT ![k] = None]
  /\ UNCHANGED content

Next ==
  \E p \in Procs, k \in Blocks :
    Take(p, k) \/ Give(p, k) \/ \E v \in Values : Write(p, k, v)

Spec == Init /\ [][Next]_vars
=============================================================================
