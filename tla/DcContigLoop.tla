---------------------------- MODULE DcContigLoop ----------------------------
(***************************************************************************)
(* The loop of vb2_dc_get_contiguous_size run one segment per step on     *)
(* every scatter table of up to MaxSegs segments over small sets of        *)
(* addresses and lengths, and compared with a reference definition of the  *)
(* longest contiguous run.                                                 *)
(***************************************************************************)
EXTENDS DcContig

CONSTANTS
  Addrs,     \* segment start addresses, near 0 and near the top of dma_addr_t
  Lens,      \* segment lengths
  MaxSegs    \* bound on sgt->nents

ASSUME DcContigLoopAssumption ==
  /\ Addrs \subseteq 0 .. AddrLimit - 1
  /\ Lens \subseteq Nat
  /\ MaxSegs \in Nat \ {0}

(* The two tables of spec section 8, at A = 1: the first two segments are *)
(* contiguous and the third breaks the run at 30; an overlapping second    *)
(* segment breaks it at 10.                                                *)
ASSUME SpecExamples ==
  /\ vb2_dc_get_contiguous_size(<<[addr |-> 1, len |-> 10], [addr |-> 11, len |-> 20],
                                  [addr |-> 41, len |-> 5]>>) = 30
  /\ vb2_dc_get_contiguous_size(<<[addr |-> 1, len |-> 10], [addr |-> 6, len |-> 20]>>) = 10

VARIABLES sgt, i, st

vars == <<sgt, i, st>>

Tables == UNION {[1 .. n -> [addr : Addrs, len : Lens]] : n \in 1 .. MaxSegs}

(* The fact about the loop that vb2_dc_get_userptr relies on when it      *)
(* compares the contiguous size with the buffer size: on every table here, *)
(* a run as long as all the segments means that all of them chain.  The    *)
(* proofs state it for tables of any size (LoopSoundProved).             *)
ASSUME LoopCoversAll == \A t \in Tables : ContigRunCoversAll(t)

Init ==
  /\ sgt \in Tables
  /\ i = 1
  /\ st = ContigStart(sgt)

(* for_each_sg: the next segment, until the loop breaks or the table ends. *)
Iterate ==
  /\ i <= Len(sgt)
  /\ ~st.stop
  /\ st' = ContigStep(st, sgt[i])
  /\ i' = i + 1
  /\ UNCHANGED sgt

Next == Iterate

Spec == Init /\ [][Next]_vars

-----------------------------------------------------------------------------
(* Reference: the largest total length of a prefix of the table in which  *)
(* every segment starts at the end of the one before it.                   *)
PrefixLen(k) ==
  LET sum[j \in 0 .. k] == IF j = 0 THEN 0 ELSE sum[j - 1] + sgt[j].len
  IN  sum[k]

IsContiguousPrefix(k) == \A j \in 2 .. k : sgt[j].addr = SegEnd(sgt[j - 1])

ContigSizeRef ==
  LET sizes == {PrefixLen(k) : k \in {k \in 0 .. Len(sgt) : IsContiguousPrefix(k)}}
  IN  CHOOSE m \in sizes : \A x \in sizes : x <= m

TypeOK ==
  /\ sgt \in Tables
  /\ i \in 1 .. Len(sgt) + 1
  /\ st \in [expected : 0 .. AddrLimit - 1, size : Nat, stop : BOOLEAN]

(* When the loop is over, the size it returns is the length of the longest *)
(* contiguous prefix of the table: a gap ends the run, a later segment     *)
(* that happens to line up again is not counted, and a run that wraps at   *)
(* the top of dma_addr_t counts as contiguous.  The operator form used by  *)
(* the other modules returns the same value.                               *)
ContigSizeCorrect ==
  (st.stop \/ i > Len(sgt)) =>
    /\ st.size = ContigSizeRef
    /\ vb2_dc_get_contiguous_size(sgt) = st.size

=============================================================================
