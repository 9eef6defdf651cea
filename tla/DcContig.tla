------------------------------ MODULE DcContig ------------------------------
(***************************************************************************)
(* The scatter-table checks of videobuf2-dma-contig as operators.          *)
(*                                                                         *)
(* A mapped scatter table is a non-empty sequence of segments, each a DMA  *)
(* address of AddrBits bits and a length.  vb2_dc_get_contiguous_size     *)
(* walks it once from the first address and adds up the lengths while     *)
(* each segment starts where the previous one ended; the end address is   *)
(* computed in dma_addr_t and wraps.  PfnsContiguous is the check          *)
(* vb2_dc_get_userptr applies to page frame numbers that have no struct    *)
(* page.                                                                   *)
(***************************************************************************)
EXTENDS Naturals, Sequences

CONSTANT AddrBits   \* width of dma_addr_t

ASSUME DcContigAssumption == AddrBits \in Nat \ {0}

AddrLimit == 2 ^ AddrBits

(* dma_addr_t has at least one value.  A fact of arithmetic that the       *)
(* provers have no rule for (they do not reason about ^); TLC evaluates it *)
(* on every run.                                                           *)
ASSUME AddrLimitPositive == AddrLimit \in Nat \ {0}

Segment == [addr : 0 .. AddrLimit - 1, len : Nat]

(* Mutant: the end address is computed without the width of dma_addr_t.  *)
SegEndNoWrap(seg) == seg.addr + seg.len

(* sg_dma_address(s) + sg_dma_len(s) as a dma_addr_t.                     *)
SegEnd(seg) == (seg.addr + seg.len) % AddrLimit

(* The loop state: the address the next segment must start at, the size   *)
(* summed so far, and whether the loop has broken out.                     *)
ContigStart(sgt) == [expected |-> sgt[1].addr, size |-> 0, stop |-> FALSE]

(* Mutant: a gap skips the segment instead of ending the loop.            *)
ContigStepContinue(st, seg) ==
  IF seg.addr # st.expected
    THEN st
    ELSE [expected |-> SegEnd(seg), size |-> st.size + seg.len, stop |-> FALSE]

(* One iteration of for_each_sg: break on a gap, else extend the run.      *)
ContigStep(st, seg) ==
  IF st.stop \/ seg.addr # st.expected
    THEN [st EXCEPT !.stop = TRUE]
    ELSE [expected |-> SegEnd(seg), size |-> st.size + seg.len, stop |-> FALSE]

(* vb2_dc_get_contiguous_size: the loop run over all sgt->nents segments.  *)
vb2_dc_get_contiguous_size(sgt) ==
  LET loop[i \in 0 .. Len(sgt)] ==
        IF i = 0 THEN ContigStart(sgt) ELSE ContigStep(loop[i - 1], sgt[i])
  IN  loop[Len(sgt)].size

(* The lengths of the segments of a table added up.                       *)
SumLens(t) ==
  LET sum[j \in 0 .. Len(t)] == IF j = 0 THEN 0 ELSE sum[j - 1] + t[j].len
  IN  sum[Len(t)]

(* Every segment starts where the one before it ends, in dma_addr_t.       *)
SegmentsChain(t) == \A j \in 2 .. Len(t) : t[j].addr = SegEnd(t[j - 1])

(* What the result of the loop tells of a non-empty table with no empty   *)
(* segment: a contiguous run as long as all the segments together means   *)
(* that the whole table is one run.                                        *)
ContigRunCoversAll(t) ==
  (/\ Len(t) >= 1
   /\ \A j \in 1 .. Len(t) : t[j].len > 0
   /\ vb2_dc_get_contiguous_size(t) >= SumLens(t)) => SegmentsChain(t)

(* ContigRunCoversAll for tables of every length and address.             *)
ContigLoopSound == \A t \in Seq(Segment) : ContigRunCoversAll(t)

(* The frame numbers nums[0..n_pages-1] increase by exactly one.           *)
PfnsContiguous(nums) ==
  \A i \in 2 .. Len(nums) : nums[i - 1] + 1 = nums[i]

=============================================================================
