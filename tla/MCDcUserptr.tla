---------------------------- MODULE MCDcUserptr ----------------------------
(* DcUserptr on two planes of a machine with 4-byte pages, 2-byte cache    *)
(* lines and 3-bit DMA addresses.                                          *)
EXTENDS DcUserptr, TLC

CONSTANTS p1, p2, TO_DEVICE, FROM_DEVICE

MCSlots == {p1, p2}
MCDirs == {TO_DEVICE, FROM_DEVICE}

MCSymmetry == Permutations(MCSlots)
=============================================================================
