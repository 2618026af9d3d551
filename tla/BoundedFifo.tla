----------------------------- MODULE BoundedFifo -----------------------------
(***************************************************************************)
(* What kernel/pipe.c promises: a bounded first-in first-out queue of      *)
(* bytes with two ends, each of which is closed once and for all.          *)
(***************************************************************************)
EXTENDS Naturals, Sequences

CONSTANTS Bytes, Size

VARIABLES q, readopen, writeopen

vars == <<q, readopen, writeopen>>

Init == q = <<>> /\ readopen = TRUE /\ writeopen = TRUE

Put(ch) ==
  /\ readopen /\ writeopen /\ Len(q) < Size
  /\ q' = Append(q, ch)
  /\ UNCHANGED <<readopen, writeopen>>

Get ==
  /\ readopen /\ q # <<>>
  /\ q' = Tail(q)
  /\ UNCHANGED <<readopen, writeopen>>

CloseRead == readopen /\ readopen' = FALSE /\ UNCHANGED <<q, writeopen>>
CloseWrite == writeopen /\ writeopen' = FALSE /\ UNCHANGED <<q, readopen>>

Next == (\E ch \in Bytes : Put(ch)) \/ Get \/ CloseRead \/ CloseWrite

Spec == Init /\ [][Next]_vars
=============================================================================
