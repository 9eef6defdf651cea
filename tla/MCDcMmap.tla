------------------------------ MODULE MCDcMmap ------------------------------
(* Small instance of DcMmap for TLC.                                       *)
EXTENDS DcMmap, TLC

CONSTANTS b1, b2, d1, d2, a1, a2, t1, t2, TO_DEVICE, FROM_DEVICE

MCBufs == {b1, b2}
MCDBufs == {d1, d2}
MCAtts == {a1, a2}
MCThreads == {t1, t2}
MCDirs == {TO_DEVICE, FROM_DEVICE}

(* Buffers, dma-bufs, attachments and threads are interchangeable slots.   *)
MCSymmetry ==
  Permutations(MCBufs) \cup Permutations(MCDBufs) \cup
  Permutations(MCAtts) \cup Permutations(MCThreads)
=============================================================================
