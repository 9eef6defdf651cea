------------------------- MODULE DcContigLoopProofs -------------------------
(***************************************************************************)
(* The loop of vb2_dc_get_contiguous_size keeps its state well formed for  *)
(* every width of dma_addr_t that the assumptions of DcContigLoop allow    *)
(* (SpecExamples needs 2^AddrBits >= 12, so at least 4 bits) and every     *)
(* table: the address the next segment must start at is always a          *)
(* dma_addr_t, however often the end of a segment wraps past the top of    *)
(* the address space, and the size is a natural number.  When the loop is over, its size is the length of the   *)
(* longest contiguous prefix and what the operator form returns            *)
(* (ContigSizeCorrect): the loop state is always the loop function of      *)
(* DcContigProofs at the segments seen so far, and LoopResult there says   *)
(* what that function holds.                                               *)
(***************************************************************************)
EXTENDS DcContigLoop, DcContigProofs, SequenceTheorems, TLAPS

(* A segment of the model has a dma_addr_t address and a length.          *)
LEMMA SegShape ==
  ASSUME NEW seg \in [addr : Addrs, len : Lens]
  PROVE  seg.addr \in 0 .. AddrLimit - 1 /\ seg.len \in Nat
<1>1. seg.addr \in Addrs /\ seg.len \in Lens
  OBVIOUS
<1>2. QED
  BY <1>1, DcContigLoopAssumption, Zenon

(* A function on 1 .. n is a sequence of length n.                       *)
LEMMA FcnIsSeq ==
  ASSUME NEW S, NEW n \in Nat, NEW t \in [1 .. n -> S]
  PROVE  t \in Seq(S) /\ Len(t) = n
<1>1. t \in Seq(S)
  OBVIOUS
<1>2. QED
  BY <1>1

(* A table of the model is a sequence of segments of its own length.       *)
LEMMA TableShape ==
  ASSUME NEW t \in Tables
  PROVE  /\ t \in Seq([addr : Addrs, len : Lens])
         /\ Len(t) \in 1 .. MaxSegs
<1>1. PICK n \in 1 .. MaxSegs : t \in [1 .. n -> [addr : Addrs, len : Lens]]
  BY DEF Tables
<1>2. n \in Nat
  BY DcContigLoopAssumption
<1>3. QED
  BY <1>1, <1>2, FcnIsSeq, Zenon

(* The end of a segment computed in dma_addr_t is a dma_addr_t.           *)
LEMMA SegEndInRange ==
  ASSUME NEW seg \in [addr : Addrs, len : Lens]
  PROVE  SegEnd(seg) \in 0 .. AddrLimit - 1
<1>1. seg.addr + seg.len \in Nat
  BY SegShape
<1>2. QED
  BY <1>1, AddrLimitPositive DEF SegEnd

(* One iteration of for_each_sg keeps the loop state well formed.          *)
LEMMA ContigStepType ==
  ASSUME NEW ls \in LoopState, NEW seg \in [addr : Addrs, len : Lens]
  PROVE  ContigStep(ls, seg) \in LoopState
<1>1. SegEnd(seg) \in 0 .. AddrLimit - 1
  BY SegEndInRange
<1>2. ls.size \in Nat
  BY DEF LoopState
<1>3. ls.size + seg.len \in Nat
  BY <1>2, SegShape
<1>4. [ls EXCEPT !.stop = TRUE] \in LoopState
  BY Zenon DEF LoopState
<1>5. [expected |-> SegEnd(seg), size |-> ls.size + seg.len, stop |-> FALSE] \in LoopState
  BY <1>1, <1>3 DEF LoopState
<1>6. QED
  BY <1>4, <1>5 DEF ContigStep

LEMMA InitType == Init => TypeOK
<1> SUFFICES ASSUME Init PROVE TypeOK
  OBVIOUS
<1>1. sgt \in Seq([addr : Addrs, len : Lens]) /\ Len(sgt) \in 1 .. MaxSegs
  BY TableShape, Zenon DEF Init
<1>2. sgt[1] \in [addr : Addrs, len : Lens]
  <2>1. 1 \in 1 .. Len(sgt)
    BY <1>1, DcContigLoopAssumption
  <2>2. QED
    BY <1>1, <2>1, ElementOfSeq, Zenon
<1>3. sgt[1].addr \in 0 .. AddrLimit - 1
  BY <1>2, SegShape
<1>4. QED
  BY <1>1, <1>3 DEF Init, TypeOK, ContigStart

LEMMA NextType == TypeOK /\ [Next]_vars => TypeOK'
<1> SUFFICES ASSUME TypeOK, [Next]_vars PROVE TypeOK'
  OBVIOUS
<1>1. sgt \in Seq([addr : Addrs, len : Lens]) /\ Len(sgt) \in 1 .. MaxSegs
  BY TableShape, Zenon DEF TypeOK
<1>2. CASE Iterate
  <2>1. i \in 1 .. Len(sgt)
    BY <1>1, <1>2 DEF Iterate, TypeOK
  <2>2. sgt[i] \in [addr : Addrs, len : Lens]
    BY <1>1, <2>1, ElementOfSeq, Zenon
  <2>3. st \in LoopState
    BY DEF TypeOK, LoopState
  <2>4. st' \in LoopState
    BY <1>2, <2>2, <2>3, ContigStepType DEF Iterate
  <2>5. QED
    BY <1>1, <1>2, <2>1, <2>4 DEF Iterate, TypeOK, LoopState
<1>3. CASE UNCHANGED vars
  BY <1>3 DEF vars, TypeOK
<1>4. QED
  BY <1>2, <1>3 DEF Next

(* TypeOK: for every width of dma_addr_t of at least 4 bits (the          *)
(* assumptions of DcContigLoop) and every table, the address the           *)
(* loop of vb2_dc_get_contiguous_size expects next stays a dma_addr_t      *)
(* across the wrap at the top of the address space, and the index never    *)
(* runs past sgt->nents + 1.                                               *)
THEOREM ContigTypeCorrect == Spec => []TypeOK
<1>1. Init => TypeOK
  BY InitType
<1>2. TypeOK /\ [Next]_vars => TypeOK'
  BY NextType
<1>3. QED
  BY <1>1, <1>2, PTL DEF Spec

-----------------------------------------------------------------------------
(* A table of the model is a non-empty table of dma_addr_t segments.       *)
LEMMA TableSegments ==
  ASSUME NEW t \in Tables
  PROVE  t \in Seq(Segment) /\ Len(t) >= 1
<1>1. PICK n \in 1 .. MaxSegs : t \in [1 .. n -> [addr : Addrs, len : Lens]]
  BY DEF Tables
<1>2. n \in Nat /\ n >= 1
  BY DcContigLoopAssumption
<1>3. [addr : Addrs, len : Lens] \subseteq Segment
  BY SegShape DEF Segment
<1>4. t \in [1 .. n -> Segment]
  BY <1>1, <1>3
<1>5. QED
  BY <1>2, <1>4, FcnIsSeq, Zenon

(* The reference ContigSizeRef is the largest sum of lengths over the      *)
(* chained prefixes of the table.                                          *)
LEMMA RefIs ==
  ASSUME sgt \in Seq(Segment), NEW v \in Nat,
         \E c \in 0 .. Len(sgt) : Chained(sgt, c) /\ v = SumUpTo(sgt, Len(sgt))[c],
         \A c \in 0 .. Len(sgt) : Chained(sgt, c) => SumUpTo(sgt, Len(sgt))[c] <= v
  PROVE  ContigSizeRef = v
<1> DEFINE U == SumUpTo(sgt, Len(sgt))
           sizes == {PrefixLen(k) : k \in {k \in 0 .. Len(sgt) : IsContiguousPrefix(k)}}
<1>1. \A k \in 0 .. Len(sgt) : PrefixLen(k) = U[k] /\ U[k] \in Nat
  <2>1. SUFFICES ASSUME NEW k \in 0 .. Len(sgt) PROVE PrefixLen(k) = U[k] /\ U[k] \in Nat
    OBVIOUS
  <2>2. PrefixLen(k) = SumUpTo(sgt, k)[k]
    BY DEF PrefixLen, SumUpTo
  <2>3. k \in 0 .. k
    OBVIOUS
  <2>4. SumUpTo(sgt, k)[k] = U[k]
    BY <2>3, SumUpToPrefix
  <2>5. U \in [0 .. Len(sgt) -> Nat]
    <3>1. Len(sgt) \in 0 .. Len(sgt)
      BY LenProperties
    <3>2. QED
      BY <3>1, SumUpToDef, Zenon
  <2>6. QED
    BY <2>2, <2>4, <2>5
<1>2. \A k \in 0 .. Len(sgt) : IsContiguousPrefix(k) = Chained(sgt, k)
  BY DEF IsContiguousPrefix, Chained
<1>3. v \in sizes /\ \A x \in sizes : x <= v /\ x \in Nat
  BY <1>1, <1>2
<1>4. PICK w \in sizes : \A x \in sizes : x <= w
  BY <1>3
<1>5. ContigSizeRef = w
  BY <1>4 DEF ContigSizeRef
<1>6. QED
  BY <1>3, <1>4, <1>5

(* The inductive invariant: the loop state after i - 1 segments is the    *)
(* loop function of the table at i - 1.                                   *)
CInv == TypeOK /\ st = LoopFn(sgt)[i - 1]

LEMMA InitCInv == Init => CInv
<1> SUFFICES ASSUME Init PROVE CInv
  OBVIOUS
<1>1. sgt \in Seq(Segment) /\ Len(sgt) >= 1
  BY TableSegments DEF Init
<1>2. LoopFn(sgt)[0] = ContigStart(sgt)
  BY <1>1, LoopFnDef
<1>3. QED
  BY <1>2, InitType DEF Init, CInv

LEMMA NextCInv == CInv /\ [Next]_vars => CInv'
<1> SUFFICES ASSUME CInv, [Next]_vars PROVE CInv'
  OBVIOUS
<1>1. TypeOK'
  BY NextType DEF CInv
<1>2. sgt \in Seq(Segment) /\ Len(sgt) >= 1
  BY TableSegments DEF CInv, TypeOK
<1>3. CASE Iterate
  <2>1. i \in 1 .. Len(sgt)
    BY <1>3 DEF Iterate, CInv, TypeOK
  <2>2. LoopFn(sgt)[i] = ContigStep(LoopFn(sgt)[i - 1], sgt[i])
    BY <1>2, <2>1, LoopFnDef
  <2>3. st' = LoopFn(sgt')[i' - 1]
    BY <1>3, <2>1, <2>2 DEF Iterate, CInv
  <2>4. QED
    BY <1>1, <2>3 DEF CInv
<1>4. CASE UNCHANGED vars
  BY <1>1, <1>4 DEF vars, CInv
<1>5. QED
  BY <1>3, <1>4 DEF Next

LEMMA CInvSize == CInv => ContigSizeCorrect
<1> SUFFICES ASSUME CInv, st.stop \/ i > Len(sgt)
             PROVE  st.size = ContigSizeRef /\ vb2_dc_get_contiguous_size(sgt) = st.size
  BY DEF ContigSizeCorrect
<1>1. sgt \in Seq(Segment) /\ Len(sgt) >= 1
  BY TableSegments DEF CInv, TypeOK
<1>2. i - 1 \in 0 .. Len(sgt) /\ st = LoopFn(sgt)[i - 1]
  BY <1>1 DEF CInv, TypeOK
<1>3. LoopFn(sgt)[i - 1].stop \/ i - 1 = Len(sgt)
  BY <1>1, <1>2 DEF CInv, TypeOK
<1>4. st.size \in Nat
  BY Zenon DEF CInv, TypeOK
<1>5. /\ vb2_dc_get_contiguous_size(sgt) = st.size
      /\ \E c \in 0 .. Len(sgt) : Chained(sgt, c) /\ st.size = SumUpTo(sgt, Len(sgt))[c]
      /\ \A c \in 0 .. Len(sgt) : Chained(sgt, c) => SumUpTo(sgt, Len(sgt))[c] <= st.size
  BY <1>1, <1>2, <1>3, LoopResult
<1>6. QED
  BY <1>1, <1>4, <1>5, RefIs

(* ContigSizeCorrect: for every width of dma_addr_t of at least 4 bits    *)
(* (the assumptions of DcContigLoop) and every table of                    *)
(* Addrs and Lens up to MaxSegs segments, when the for_each_sg loop of     *)
(* vb2_dc_get_contiguous_size breaks or ends, its size is the length of    *)
(* the longest prefix in which each segment starts where the one before    *)
(* it ends, and the operator form returns the same value.                  *)
THEOREM ContigSizeProved == Spec => []ContigSizeCorrect
<1>1. Init => CInv
  BY InitCInv
<1>2. CInv /\ [Next]_vars => CInv'
  BY NextCInv
<1>3. CInv => ContigSizeCorrect
  BY CInvSize
<1>4. QED
  BY <1>1, <1>2, <1>3, PTL DEF Spec

=============================================================================
