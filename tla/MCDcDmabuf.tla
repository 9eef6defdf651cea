---------------------------- MODULE MCDcDmabuf ----------------------------
(* DcDmabuf on two planes, 2-bit DMA addresses.                            *)
EXTENDS DcDmabuf, TLC

CONSTANTS p1, p2, TO_DEVICE, FROM_DEVICE

MCSlots == {p1, p2}
MCDirs == {TO_DEVICE, FROM_DEVICE}

MCSymmetry == Permutations(MCSlots)
=============================================================================
