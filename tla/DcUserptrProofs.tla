-------------------------- MODULE DcUserptrProofs --------------------------
(***************************************************************************)
(* Proofs about USERPTR buffers.  RollbackComplete speaks of idle slots    *)
(* only; to carry it across the steps of vb2_dc_get_userptr the invariant  *)
(* HeldByStep fixes what the call holds at each of its steps, so that each *)
(* label of the goto ladder is seen to release exactly what was taken      *)
(* before the failing call.                                                *)
(***************************************************************************)
EXTENDS DcUserptr, DcContigProofs, TLAPS

(* At each step of get_userptr the call holds the resources taken by the  *)
(* steps before it, and the slot has no buffer handed out.                 *)
HeldByStep ==
  \A s \in Slots :
    /\ pc[s] # "idle" => ~live[s]
    /\ pc[s] = "idle" => held[s] = Owned(s)
    /\ pc[s] = "framevec" => held[s] = {"buf"}
    /\ pc[s] = "topages" => held[s] = {"buf", "vec"}
    /\ pc[s] = "sgtinit" => held[s] = {"buf", "vec", "sgt"}
    /\ pc[s] = "mapsg" => held[s] = {"buf", "vec", "sgt", "table"}
    /\ pc[s] = "contig" => held[s] = Resources /\ sgt[s] # NoSgt

IInv ==
  /\ pc \in [Slots -> {"idle", "framevec", "topages", "sgtinit", "mapsg", "contig"}]
  /\ live \in [Slots -> BOOLEAN]
  /\ held \in [Slots -> SUBSET Resources]
  /\ size \in [Slots -> Nat]
  /\ vaddr \in [Slots -> Nat]
  /\ sgt \in [Slots -> Seq(Segment) \cup {NoSgt}]
  /\ HeldByStep

(* What each label of the ladder releases, falling through the ones below. *)
LEMMA UnwindLabels ==
  /\ Unwind("map") = Resources
  /\ Unwind("table") = {"table", "sgt", "vec", "buf"}
  /\ Unwind("sgt") = {"sgt", "vec", "buf"}
  /\ Unwind("vec") = {"vec", "buf"}
  /\ Unwind("buf") = {"buf"}
<1> DEFINE Idx(l) == CHOOSE j \in 1 .. Len(Ladder) : Ladder[j] = l
<1>1. Len(Ladder) = 5
  BY DEF Ladder
<1>2. /\ Idx("map") = 1
      /\ Idx("table") = 2
      /\ Idx("sgt") = 3
      /\ Idx("vec") = 4
      /\ Idx("buf") = 5
  BY <1>1 DEF Ladder
<1>3. QED
  BY <1>1, <1>2 DEF Unwind, Ladder, Resources

(* Every table dma_map_sg may return is a table, not the null pointer.    *)
LEMMA MappedNotNull ==
  ASSUME NEW n \in Nat, NEW sz \in Nat, NEW t \in MappedTables(n, sz)
  PROVE  t \in Seq(Segment) /\ t # NoSgt
<1>1. PICK k \in 1 .. n : t \in [1 .. k -> [addr : MapAddrs, len : 1 .. sz]]
  BY DEF MappedTables
<1>2. [addr : MapAddrs, len : 1 .. sz] \subseteq Segment
  <2> SUFFICES ASSUME NEW r \in [addr : MapAddrs, len : 1 .. sz]
               PROVE  r \in Segment
    OBVIOUS
  <2>1. r.addr \in MapAddrs /\ r.len \in 1 .. sz
    OBVIOUS
  <2>2. r.addr \in 0 .. AddrLimit - 1
    BY <2>1, DcUserptrAssumption, Zenon
  <2>3. r.len \in Nat
    BY <2>1
  <2>4. r = [addr |-> r.addr, len |-> r.len]
    OBVIOUS
  <2>5. QED
    BY <2>2, <2>3, <2>4 DEF Segment
<1>3. t \in Seq(Segment)
  BY <1>1, <1>2
<1>4. QED
  BY <1>3, DcUserptrAssumption

LEMMA InitIInv == Init => IInv
BY DEF Init, IInv, HeldByStep, Owned

LEMMA FailStep ==
  ASSUME IInv, NEW s \in Slots, NEW l \in {"map", "table", "sgt", "vec", "buf"},
         ~live[s], held[s] \subseteq Unwind(l), Fail(s, l)
  PROVE  IInv'
BY UnwindLabels DEF Fail, Unwound, IInv, HeldByStep, Owned, Resources

LEMMA GetUserptrStep ==
  ASSUME IInv, NEW s \in Slots, NEW v \in Vaddrs, NEW n \in Sizes, NEW d \in Dirs,
         GetUserptr(s, v, n, d)
  PROVE  IInv'
BY DcUserptrAssumption DEF GetUserptr, IInv, HeldByStep, Owned, Resources

LEMMA CreateFramevecStep ==
  ASSUME IInv, NEW s \in Slots, CreateFramevec(s)
  PROVE  IInv'
<1>1. ~live[s] /\ held[s] = {"buf"}
  BY DEF CreateFramevec, IInv, HeldByStep
<1>2. CASE Take(s, "vec", "topages")
  BY <1>1, <1>2 DEF CreateFramevec, Take, IInv, HeldByStep, Owned, Resources
<1>3. CASE Fail(s, "buf")
  BY <1>1, <1>3, FailStep, UnwindLabels
<1>4. QED
  BY <1>2, <1>3 DEF CreateFramevec

LEMMA PfnFallbackStep ==
  ASSUME IInv, NEW s \in Slots, PfnFallback(s)
  PROVE  IInv'
<1>1. ~live[s] /\ held[s] = {"buf", "vec"}
  BY DEF PfnFallback, IInv, HeldByStep
<1>2. PICK nums \in [1 .. NPages(vaddr[s], size[s]) -> Pfns] :
        \/ /\ PfnsContiguous(nums)
           /\ pfns' = [pfns EXCEPT ![s] = nums]
           /\ live' = [live EXCEPT ![s] = TRUE]
           /\ pc' = [pc EXCEPT ![s] = "idle"]
           /\ sgt' = [sgt EXCEPT ![s] = NoSgt]
           /\ UNCHANGED <<held, size, vaddr, dir, owner>>
        \/ /\ ~PfnsContiguous(nums)
           /\ Fail(s, "vec")
  BY DEF PfnFallback
<1>3. CASE /\ pc' = [pc EXCEPT ![s] = "idle"]
           /\ live' = [live EXCEPT ![s] = TRUE]
           /\ sgt' = [sgt EXCEPT ![s] = NoSgt]
           /\ UNCHANGED <<held, size, vaddr>>
  BY <1>1, <1>3 DEF IInv, HeldByStep, Owned
<1>4. CASE Fail(s, "vec")
  BY <1>1, <1>4, FailStep, UnwindLabels
<1>5. QED
  BY <1>2, <1>3, <1>4

LEMMA AllocSgtStep ==
  ASSUME IInv, NEW s \in Slots, AllocSgt(s)
  PROVE  IInv'
<1>1. ~live[s] /\ held[s] = {"buf", "vec"}
  BY DEF AllocSgt, IInv, HeldByStep
<1>2. CASE Take(s, "sgt", "sgtinit")
  BY <1>1, <1>2 DEF AllocSgt, Take, IInv, HeldByStep, Owned, Resources
<1>3. CASE Fail(s, "vec")
  BY <1>1, <1>3, FailStep, UnwindLabels
<1>4. QED
  BY <1>2, <1>3 DEF AllocSgt

LEMMA InitSgtStep ==
  ASSUME IInv, NEW s \in Slots, InitSgt(s)
  PROVE  IInv'
<1>1. ~live[s] /\ held[s] = {"buf", "vec", "sgt"}
  BY DEF InitSgt, IInv, HeldByStep
<1>2. CASE Take(s, "table", "mapsg")
  BY <1>1, <1>2 DEF InitSgt, Take, IInv, HeldByStep, Owned, Resources
<1>3. CASE Fail(s, "sgt")
  BY <1>1, <1>3, FailStep, UnwindLabels
<1>4. QED
  BY <1>2, <1>3 DEF InitSgt

LEMMA MapSgStep ==
  ASSUME IInv, NEW s \in Slots, MapSg(s)
  PROVE  IInv'
<1>1. ~live[s] /\ held[s] = {"buf", "vec", "sgt", "table"}
  BY DEF MapSg, IInv, HeldByStep
<1>2. CASE \E t \in MappedTables(NPages(vaddr[s], size[s]), size[s]) :
             /\ held' = [held EXCEPT ![s] = @ \cup {"map"}]
             /\ sgt' = [sgt EXCEPT ![s] = t]
             /\ pc' = [pc EXCEPT ![s] = "contig"]
             /\ UNCHANGED <<live, size, vaddr, dir, pfns, owner>>
  <2>1. NPages(vaddr[s], size[s]) \in Nat
    <3>1. vaddr[s] % PageSize \in Nat /\ size[s] \in Nat
      BY DcUserptrAssumption DEF IInv
    <3>2. (vaddr[s] % PageSize) + size[s] + PageSize - 1 \in Nat
      BY <3>1, DcUserptrAssumption
    <3>3. QED
      BY <3>2, DcUserptrAssumption DEF NPages
  <2>2. PICK t \in MappedTables(NPages(vaddr[s], size[s]), size[s]) :
          /\ held' = [held EXCEPT ![s] = @ \cup {"map"}]
          /\ sgt' = [sgt EXCEPT ![s] = t]
          /\ pc' = [pc EXCEPT ![s] = "contig"]
          /\ UNCHANGED <<live, size, vaddr, dir, pfns, owner>>
    BY <1>2, Zenon
  <2>3. t \in Seq(Segment) /\ t # NoSgt
    BY <2>1, <2>2, MappedNotNull DEF IInv
  <2>4. QED
    BY <1>1, <2>2, <2>3 DEF IInv, HeldByStep, Owned, Resources
<1>3. CASE Fail(s, "table")
  BY <1>1, <1>3, FailStep, UnwindLabels
<1>4. QED
  BY <1>2, <1>3 DEF MapSg

LEMMA CheckContigStep ==
  ASSUME IInv, NEW s \in Slots, CheckContig(s)
  PROVE  IInv'
<1>1. ~live[s] /\ held[s] = Resources /\ sgt[s] # NoSgt
  BY DEF CheckContig, IInv, HeldByStep
<1>2. CASE /\ live' = [live EXCEPT ![s] = TRUE]
           /\ pc' = [pc EXCEPT ![s] = "idle"]
           /\ UNCHANGED <<held, size, vaddr, dir, sgt, pfns, owner>>
  BY <1>1, <1>2 DEF IInv, HeldByStep, Owned
<1>3. CASE /\ sgt' = [sgt EXCEPT ![s] = NoSgt]
           /\ Unwound(s, "map")
           /\ UNCHANGED <<live, size, vaddr, dir, pfns, owner>>
  BY <1>1, <1>3, UnwindLabels DEF Unwound, IInv, HeldByStep, Owned
<1>4. QED
  BY <1>2, <1>3 DEF CheckContig

LEMMA PutStep ==
  ASSUME IInv, NEW s \in Slots, vb2_dc_put_userptr(s)
  PROVE  IInv'
<1> USE DEF vb2_dc_put_userptr
<1>1. /\ pc' \in [Slots -> {"idle", "framevec", "topages", "sgtinit", "mapsg", "contig"}]
      /\ live' \in [Slots -> BOOLEAN]
      /\ held' \in [Slots -> SUBSET Resources]
      /\ size' \in [Slots -> Nat]
      /\ vaddr' \in [Slots -> Nat]
      /\ sgt' \in [Slots -> Seq(Segment) \cup {NoSgt}]
  BY DEF IInv
<1>2. ~live'[s] /\ held'[s] = {} /\ pc'[s] = "idle"
  <2>1. held[s] = Owned(s)
    BY DEF IInv, HeldByStep
  <2>2. held[s] \subseteq PutReleases(s)
    BY <2>1 DEF Owned, PutReleases, Resources
  <2>3. QED
    BY <2>2 DEF IInv
<1>3. \A r \in Slots \ {s} :
        /\ pc'[r] = pc[r] /\ live'[r] = live[r]
        /\ held'[r] = held[r] /\ sgt'[r] = sgt[r]
  BY DEF IInv
<1>4. HeldByStep'
  <2>1. Owned(s)' = {}
    BY <1>2 DEF Owned
  <2>2. \A r \in Slots \ {s} : Owned(r)' = Owned(r)
    BY <1>3 DEF Owned
  <2>3. QED
    BY <1>2, <1>3, <2>1, <2>2 DEF IInv, HeldByStep
<1>5. QED
  BY <1>1, <1>4 DEF IInv

LEMMA SyncStep ==
  ASSUME IInv, NEW s \in Slots, vb2_dc_prepare(s) \/ vb2_dc_finish(s)
  PROVE  IInv'
<1>1. UNCHANGED <<pc, live, held, size, vaddr, sgt>>
  BY DEF vb2_dc_prepare, vb2_dc_finish
<1>2. \A r \in Slots : Owned(r)' = Owned(r)
  BY <1>1 DEF Owned
<1>3. QED
  BY <1>1, <1>2 DEF IInv, HeldByStep

LEMMA NextIInv == IInv /\ [Next]_vars => IInv'
<1> SUFFICES ASSUME IInv, [Next]_vars PROVE IInv'
  OBVIOUS
<1>1. CASE \E s \in Slots, v \in Vaddrs, n \in Sizes, d \in Dirs : GetUserptr(s, v, n, d)
  BY <1>1, GetUserptrStep
<1>2. CASE \E s \in Slots :
             \/ CreateFramevec(s) \/ PfnFallback(s) \/ AllocSgt(s) \/ InitSgt(s)
             \/ MapSg(s) \/ CheckContig(s)
             \/ vb2_dc_put_userptr(s) \/ vb2_dc_prepare(s) \/ vb2_dc_finish(s)
  BY <1>2, CreateFramevecStep, PfnFallbackStep, AllocSgtStep, InitSgtStep,
     MapSgStep, CheckContigStep, PutStep, SyncStep
<1>3. CASE UNCHANGED vars
  BY <1>3 DEF vars, IInv, HeldByStep, Owned
<1>4. QED
  BY <1>1, <1>2, <1>3 DEF Next

(* RollbackComplete: for any number of planes, user ranges and sizes, and  *)
(* whichever call of vb2_dc_get_userptr fails, a slot with no call in      *)
(* progress holds exactly what its returned descriptor owns; a failed or   *)
(* put buffer holds nothing.                                               *)
THEOREM RollbackProved == Spec => []RollbackComplete
<1>1. Init => IInv
  BY InitIInv
<1>2. IInv /\ [Next]_vars => IInv'
  BY NextIInv
<1>3. IInv => RollbackComplete
  BY DEF IInv, HeldByStep, RollbackComplete
<1>4. QED
  BY <1>1, <1>2, <1>3, PTL DEF Spec

-----------------------------------------------------------------------------
(* AcceptedContiguous needs more than it states: between dma_map_sg and   *)
(* the size check the slot already holds a non-empty table whose lengths  *)
(* add up to the size and none of which is empty, so that a run covering  *)
(* the size covers every segment.                                          *)
MappedWhole(t, n) ==
  /\ Len(t) >= 1
  /\ \A j \in 1 .. Len(t) : t[j].len > 0
  /\ SumLens(t) = n

AInvAt(s) ==
  /\ pc[s] = "idle" /\ live[s] /\ sgt[s] = NoSgt => PfnsContiguous(pfns[s])
  /\ pc[s] = "idle" /\ live[s] /\ sgt[s] # NoSgt =>
       SegmentsChain(sgt[s]) /\ SumLens(sgt[s]) = size[s]
  /\ pc[s] = "contig" => MappedWhole(sgt[s], size[s])

AInv ==
  /\ pfns \in [Slots -> Seq(Pfns)]
  /\ \A s \in Slots : AInvAt(s)

(* A slot whose control point, descriptor, table, frames and size a step  *)
(* leaves alone keeps its part of AInv.                                    *)
LEMMA AInvFrame ==
  ASSUME NEW s \in Slots, AInvAt(s),
         pc'[s] = pc[s], live'[s] = live[s], sgt'[s] = sgt[s],
         pfns'[s] = pfns[s], size'[s] = size[s]
  PROVE  AInvAt(s)'
BY DEF AInvAt

(* A slot with no descriptor handed out and no call past dma_map_sg has   *)
(* nothing to keep.                                                        *)
LEMMA AInvVacuous ==
  ASSUME NEW s \in Slots, ~live'[s], pc'[s] # "contig"
  PROVE  AInvAt(s)'
BY DEF AInvAt

(* A step of slot s that leaves the other slots alone keeps AInv there.   *)
LEMMA AInvOthers ==
  ASSUME AInv, NEW s \in Slots, AInvAt(s)', pfns' \in [Slots -> Seq(Pfns)],
         \A r \in Slots \ {s} :
           /\ pc'[r] = pc[r] /\ live'[r] = live[r] /\ sgt'[r] = sgt[r]
           /\ pfns'[r] = pfns[r] /\ size'[r] = size[r]
  PROVE  AInv'
BY AInvFrame, Zenon DEF AInv

(* A step of a call that has not handed out its descriptor and does not   *)
(* reach the size check: a Take or a Fail of the ladder.                   *)
LEMMA QuietStep ==
  ASSUME IInv, AInv, NEW s \in Slots, NEW x, x # "contig", pc[s] # "idle",
         pc' = [pc EXCEPT ![s] = x], UNCHANGED <<live, size, sgt, pfns>>
  PROVE  AInv'
<1>1. ~live'[s]
  BY DEF IInv, HeldByStep
<1>2. pc'[s] # "contig"
  BY DEF IInv
<1>3. AInvAt(s)'
  BY <1>1, <1>2, AInvVacuous
<1>4. \A r \in Slots \ {s} : pc'[r] = pc[r]
  BY DEF IInv
<1>5. QED
  BY <1>3, <1>4, AInvOthers DEF AInv

(* The number of pages of a slot's range is a natural number.             *)
LEMMA NPagesNat ==
  ASSUME IInv, NEW s \in Slots
  PROVE  NPages(vaddr[s], size[s]) \in Nat
<1>1. vaddr[s] % PageSize \in Nat /\ size[s] \in Nat
  BY DcUserptrAssumption DEF IInv
<1>2. (vaddr[s] % PageSize) + size[s] + PageSize - 1 \in Nat
  BY <1>1, DcUserptrAssumption
<1>3. QED
  BY <1>2, DcUserptrAssumption DEF NPages

(* Without pages, the fallback hands out the frames only when they are    *)
(* consecutive.                                                            *)
LEMMA PfnFallbackAInv ==
  ASSUME IInv, AInv, NEW s \in Slots, PfnFallback(s)
  PROVE  AInv'
<1>1. PICK nums \in [1 .. NPages(vaddr[s], size[s]) -> Pfns] :
        \/ /\ PfnsContiguous(nums)
           /\ pfns' = [pfns EXCEPT ![s] = nums]
           /\ live' = [live EXCEPT ![s] = TRUE]
           /\ pc' = [pc EXCEPT ![s] = "idle"]
           /\ sgt' = [sgt EXCEPT ![s] = NoSgt]
           /\ UNCHANGED <<held, size, vaddr, dir, owner>>
        \/ /\ ~PfnsContiguous(nums)
           /\ Fail(s, "vec")
  BY DEF PfnFallback
<1>2. CASE /\ PfnsContiguous(nums)
           /\ pfns' = [pfns EXCEPT ![s] = nums]
           /\ live' = [live EXCEPT ![s] = TRUE]
           /\ pc' = [pc EXCEPT ![s] = "idle"]
           /\ sgt' = [sgt EXCEPT ![s] = NoSgt]
           /\ UNCHANGED <<held, size, vaddr, dir, owner>>
  <2>1. nums \in Seq(Pfns)
    BY NPagesNat
  <2>2. pfns' \in [Slots -> Seq(Pfns)]
    BY <1>2, <2>1 DEF AInv
  <2>3. AInvAt(s)'
    BY <1>2 DEF AInv, IInv, AInvAt
  <2>4. \A r \in Slots \ {s} :
          /\ pc'[r] = pc[r] /\ live'[r] = live[r] /\ sgt'[r] = sgt[r]
          /\ pfns'[r] = pfns[r] /\ size'[r] = size[r]
    BY <1>2 DEF AInv, IInv
  <2>5. QED
    BY <2>2, <2>3, <2>4, AInvOthers
<1>3. CASE Fail(s, "vec")
  BY <1>3, QuietStep, Zenon DEF Fail, Unwound, PfnFallback
<1>4. QED
  BY <1>1, <1>2, <1>3

(* Every table dma_map_sg may return is non-empty, has no empty segment   *)
(* and covers the size.                                                    *)
LEMMA MappedTablesWhole ==
  ASSUME NEW n \in Nat, NEW sz \in Nat, NEW t \in MappedTables(n, sz)
  PROVE  MappedWhole(t, sz)
<1>1. PICK k \in 1 .. n : t \in [1 .. k -> [addr : MapAddrs, len : 1 .. sz]]
  BY DEF MappedTables
<1>2. SumLens(t) = sz
  BY DEF MappedTables
<1>3. Len(t) = k
  BY <1>1, MappedNotNull
<1>4. \A j \in 1 .. Len(t) : t[j].len > 0
  BY <1>1, <1>3
<1>5. QED
  BY <1>1, <1>2, <1>3, <1>4 DEF MappedWhole

LEMMA MapSgAInv ==
  ASSUME IInv, AInv, NEW s \in Slots, MapSg(s)
  PROVE  AInv'
<1>1. CASE \E t \in MappedTables(NPages(vaddr[s], size[s]), size[s]) :
             /\ held' = [held EXCEPT ![s] = @ \cup {"map"}]
             /\ sgt' = [sgt EXCEPT ![s] = t]
             /\ pc' = [pc EXCEPT ![s] = "contig"]
             /\ UNCHANGED <<live, size, vaddr, dir, pfns, owner>>
  <2>1. PICK t \in MappedTables(NPages(vaddr[s], size[s]), size[s]) :
          /\ sgt' = [sgt EXCEPT ![s] = t]
          /\ pc' = [pc EXCEPT ![s] = "contig"]
          /\ UNCHANGED <<live, size, pfns>>
    BY <1>1, Zenon
  <2>2. MappedWhole(t, size[s])
    BY <2>1, NPagesNat, MappedTablesWhole DEF IInv
  <2>3. AInvAt(s)'
    BY <2>1, <2>2 DEF IInv, AInvAt
  <2>4. \A r \in Slots \ {s} : pc'[r] = pc[r] /\ sgt'[r] = sgt[r]
    BY <2>1 DEF IInv
  <2>5. QED
    BY <2>1, <2>3, <2>4, AInvOthers DEF AInv
<1>2. CASE Fail(s, "table")
  BY <1>2, QuietStep, Zenon DEF Fail, Unwound, MapSg
<1>3. QED
  BY <1>1, <1>2 DEF MapSg

(* The size check: a run of the mapped table that covers the size covers  *)
(* every segment, so the accepted table chains.                            *)
LEMMA CheckContigAInv ==
  ASSUME ContigLoopSound, IInv, AInv, NEW s \in Slots, CheckContig(s)
  PROVE  AInv'
<1>1. /\ sgt[s] \in Seq(Segment) /\ sgt[s] # NoSgt
      /\ ~live[s] /\ MappedWhole(sgt[s], size[s])
  BY DEF CheckContig, IInv, HeldByStep, AInv, AInvAt
<1>2. CASE /\ ContigLargeEnough(s)
           /\ live' = [live EXCEPT ![s] = TRUE]
           /\ pc' = [pc EXCEPT ![s] = "idle"]
           /\ UNCHANGED <<held, size, vaddr, dir, sgt, pfns, owner>>
  <2>1. vb2_dc_get_contiguous_size(sgt[s]) >= SumLens(sgt[s])
    BY <1>1, <1>2 DEF ContigLargeEnough, MappedWhole
  <2>2. ContigRunCoversAll(sgt[s])
    BY <1>1 DEF ContigLoopSound
  <2>3. SegmentsChain(sgt[s])
    BY <1>1, <2>1, <2>2 DEF ContigRunCoversAll, MappedWhole
  <2>4. AInvAt(s)'
    BY <1>1, <1>2, <2>3 DEF IInv, AInvAt, MappedWhole
  <2>5. \A r \in Slots \ {s} : pc'[r] = pc[r] /\ live'[r] = live[r]
    BY <1>2 DEF IInv
  <2>6. QED
    BY <1>2, <2>4, <2>5, AInvOthers, Zenon DEF AInv
<1>3. CASE /\ sgt' = [sgt EXCEPT ![s] = NoSgt]
           /\ Unwound(s, "map")
           /\ UNCHANGED <<live, size, vaddr, dir, pfns, owner>>
  <2>1. AInvAt(s)'
    BY <1>1, <1>3, AInvVacuous DEF Unwound, IInv
  <2>2. \A r \in Slots \ {s} : pc'[r] = pc[r] /\ sgt'[r] = sgt[r]
    BY <1>3 DEF Unwound, IInv
  <2>3. QED
    BY <1>3, <2>1, <2>2, AInvOthers, Zenon DEF AInv
<1>4. QED
  BY <1>2, <1>3 DEF CheckContig

LEMMA GetUserptrAInv ==
  ASSUME IInv, AInv, NEW s \in Slots, NEW v \in Vaddrs, NEW n \in Sizes,
         NEW d \in Dirs, GetUserptr(s, v, n, d)
  PROVE  AInv'
<1>1. AInvAt(s)'
  BY AInvVacuous DEF GetUserptr, IInv
<1>2. \A r \in Slots \ {s} : pc'[r] = pc[r] /\ size'[r] = size[r]
  BY DEF GetUserptr, IInv
<1>3. QED
  BY <1>1, <1>2, AInvOthers, Zenon DEF GetUserptr, AInv

LEMMA PutAInv ==
  ASSUME IInv, AInv, NEW s \in Slots, vb2_dc_put_userptr(s)
  PROVE  AInv'
<1>1. AInvAt(s)'
  BY AInvVacuous DEF vb2_dc_put_userptr, IInv
<1>2. pfns' \in [Slots -> Seq(Pfns)]
  BY DEF vb2_dc_put_userptr, AInv
<1>3. \A r \in Slots \ {s} :
        /\ live'[r] = live[r] /\ sgt'[r] = sgt[r] /\ pfns'[r] = pfns[r]
  BY DEF vb2_dc_put_userptr, IInv, AInv
<1>4. QED
  BY <1>1, <1>2, <1>3, AInvOthers, Zenon DEF vb2_dc_put_userptr, AInv

LEMMA NextAInv ==
  ASSUME ContigLoopSound, IInv, AInv, [Next]_vars
  PROVE  AInv'
<1>1. CASE \E s \in Slots, v \in Vaddrs, n \in Sizes, d \in Dirs : GetUserptr(s, v, n, d)
  BY <1>1, GetUserptrAInv
<1>2. CASE \E s \in Slots : CreateFramevec(s) \/ AllocSgt(s) \/ InitSgt(s)
  <2>1. PICK s \in Slots : CreateFramevec(s) \/ AllocSgt(s) \/ InitSgt(s)
    BY <1>2
  <2>2. pc[s] # "idle"
    BY <2>1 DEF CreateFramevec, AllocSgt, InitSgt
  <2>3. QED
    BY <2>1, <2>2, QuietStep DEF CreateFramevec, AllocSgt, InitSgt, Take, Fail, Unwound
<1>3. CASE \E s \in Slots : PfnFallback(s) \/ MapSg(s) \/ CheckContig(s)
  BY <1>3, PfnFallbackAInv, MapSgAInv, CheckContigAInv
<1>4. CASE \E s \in Slots : vb2_dc_put_userptr(s)
  BY <1>4, PutAInv
<1>5. CASE \E s \in Slots : vb2_dc_prepare(s) \/ vb2_dc_finish(s)
  BY <1>5 DEF vb2_dc_prepare, vb2_dc_finish, AInv, AInvAt
<1>6. CASE UNCHANGED vars
  BY <1>6 DEF vars, AInv, AInvAt
<1>7. QED
  BY <1>1, <1>2, <1>3, <1>4, <1>5, <1>6 DEF Next

(* AcceptedContiguous: for any number of planes, sizes and addresses, and  *)
(* on the hypothesis that vb2_dc_get_contiguous_size measures the run of   *)
(* chained segments from the first (ContigLoopSound, which TLC checks on   *)
(* every table of DcContigLoop), a USERPTR buffer handed to the framework  *)
(* is one run for the device: a mapped table chains over the whole size,  *)
(* and frames without pages are consecutive.                               *)
THEOREM AcceptedProved ==
  ASSUME ContigLoopSound
  PROVE  Spec => []AcceptedContiguous
<1>1. Init => IInv /\ AInv
  BY InitIInv DEF Init, AInv, AInvAt
<1>2. IInv /\ AInv /\ [Next]_vars => IInv' /\ AInv'
  BY NextIInv, NextAInv
<1>3. IInv /\ AInv => AcceptedContiguous
  BY DEF AInv, AInvAt, AcceptedContiguous
<1>4. QED
  BY <1>1, <1>2, <1>3, PTL DEF Spec

(* AcceptedContiguous without hypothesis: LoopSoundProved (DcContigProofs) *)
(* discharges ContigLoopSound, so for any number of planes, sizes and      *)
(* addresses a USERPTR buffer that vb2_dc_get_userptr hands to the         *)
(* framework is one run of device addresses over its whole size.           *)
THEOREM AcceptedContiguousHolds == Spec => []AcceptedContiguous
BY AcceptedProved, LoopSoundProved

=============================================================================
