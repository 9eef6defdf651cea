----------------------------- MODULE DcLifecycle -----------------------------
(***************************************************************************)
(* What a reference-counted vb2_dc_buf promises its users, with no         *)
(* threads, no atomics and no kinds of holder: a buffer is allocated with  *)
(* one holder; while it has a holder, more holders may join; any holder    *)
(* may leave; and a buffer is freed only once it has no holder left.  A    *)
(* buffer whose holders are all gone is never taken again.                 *)
(***************************************************************************)
EXTENDS Naturals

CONSTANT Bufs

VARIABLES
  live,      \* the buffer is allocated
  holders    \* how many holders it has

vars == <<live, holders>>

Init ==
  /\ live = [b \in Bufs |-> FALSE]
  /\ holders = [b \in Bufs |-> 0]

Alloc(b) ==
  /\ ~live[b]
  /\ live' = [live EXCEPT ![b] = TRUE]
  /\ holders' = [holders EXCEPT ![b] = 1]

Acquire(b) ==
  /\ live[b]
  /\ holders[b] > 0
  /\ holders' = [holders EXCEPT ![b] = @ + 1]
  /\ UNCHANGED live

Drop(b) ==
  /\ holders[b] > 0
  /\ holders' = [holders EXCEPT ![b] = @ - 1]
  /\ UNCHANGED live

Free(b) ==
  /\ live[b]
  /\ holders[b] = 0
  /\ live' = [live EXCEPT ![b] = FALSE]
  /\ UNCHANGED holders

Next == \E b \in Bufs : Alloc(b) \/ Acquire(b) \/ Drop(b) \/ Free(b)

Spec == Init /\ [][Next]_vars

=============================================================================
