-------------------------------- MODULE MCVm --------------------------------
(* Programs for Vm: pages of two bytes, five of them below TRAPFRAME. *)
EXTENDS Vm

Seg(vaddr, memsz, filesz) == [vaddr |-> vaddr, memsz |-> memsz, filesz |-> filesz, short |-> FALSE]

MCIncrements == {3, 8, -3}   \* a .cfg cannot say -3

MCVals == <<{"x"}, {"y"}, {"z"}>>

MCPrograms == <<
  [tag |-> "cat", segs |-> <<Seg(0, 1, 1), Seg(2, 1, 0)>>],        \* text and bss
  [tag |-> "odd", segs |-> <<Seg(0, 1, 1), Seg(1, 2, 1)>>],        \* not aligned
  [tag |-> "cut", segs |-> <<[Seg(0, 2, 2) EXCEPT !.short = TRUE]>>],
  [tag |-> "nil", segs |-> <<Seg(0, 0, 0)>>],
  [tag |-> "neg", segs |-> <<Seg(0, 1, 2)>>],
  [tag |-> "fit", segs |-> <<Seg(0, 6, 2)>>],                      \* up to TRAPFRAME
  [tag |-> "tall", segs |-> <<Seg(0, 8, 1)>>],                     \* its stack is not below it
  [tag |-> "big", segs |-> <<Seg(0, 4, 2), Seg(4, 7, 1)>>],        \* nor its bss
  [tag |-> "wrap", segs |-> <<Seg(2, AddrMod - 1, 0)>>] >>
=============================================================================
