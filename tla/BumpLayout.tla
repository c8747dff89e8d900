---------------------------- MODULE BumpLayout ----------------------------
(***************************************************************************)
(* What the memory plan of boot() promises about the kernel, the modules,  *)
(* the preload bundle and the loader metadata: each block is reserved once,*)
(* at or above everything reserved before, and never moved.                *)
(***************************************************************************)
EXTENDS Integers

VARIABLES
  blocks,  \* the blocks reserved so far, records [mem, len]
  top      \* the end of the last one

vars == <<blocks, top>>

Init == blocks = {} /\ top = 0

\* Block b is reserved at or above top.
Reserve(b) ==
  /\ b.mem >= top /\ b.len >= 0
  /\ blocks' = blocks \union {b}
  /\ top' = b.mem + b.len

Next == \E b \in blocks' : Reserve(b)

Spec == Init /\ [][Next]_vars

Disjoint ==
  \A a, b \in blocks : a # b => a.mem + a.len <= b.mem \/ b.mem + b.len <= a.mem
============================================================================
