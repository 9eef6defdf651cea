--------------------------- MODULE DcDmabufProofs ---------------------------
(***************************************************************************)
(* Proofs about the DMABUF importer.  ExporterRefsBalanced depends on      *)
(* detach_dmabuf's test of buf->dma_addr agreeing with buf->dma_sgt: the   *)
(* strengthening MappedAddr says that an attached plane has a nonzero DMA  *)
(* address exactly when it holds a table.  That holds only when no         *)
(* exporter's table starts at address 0, which the theorem assumes; the    *)
(* run dmabuf_detach_addr0 shows what happens without it.                  *)
(***************************************************************************)
EXTENDS DcDmabuf, TLAPS

(* While a plane is attached, the address detach tests is nonzero exactly  *)
(* when the plane is mapped.                                               *)
MappedAddr ==
  \A s \in Slots : att[s] => (dmaAddr[s] # 0 <=> sgt[s] # NoSgt)

IInv ==
  /\ att \in [Slots -> BOOLEAN]
  /\ sgt \in [Slots -> ForeignTables \cup {NoSgt}]
  /\ dmaAddr \in [Slots -> Nat]
  /\ attaches \in [Slots -> Nat]
  /\ mappings \in [Slots -> Nat]
  /\ ExporterRefsBalanced
  /\ MappedAddr

(* The first segment of a foreign table starts at one of MapAddrs.         *)
LEMMA TableFirst ==
  ASSUME NEW t \in ForeignTables
  PROVE  t[1].addr \in MapAddrs
<1>1. PICK n \in 1 .. MaxSegs : t \in [1 .. n -> [addr : MapAddrs, len : Lens]]
  BY DEF ForeignTables
<1>2. 1 \in 1 .. n
  BY DcDmabufAssumption
<1>3. QED
  BY <1>1, <1>2

LEMMA InitIInv == Init => IInv
BY DEF Init, IInv, ExporterRefsBalanced, MappedAddr

LEMMA AttachStep ==
  ASSUME IInv, NEW s \in Slots, NEW ds \in DbufSizes, NEW n \in Sizes,
         NEW d \in Dirs, vb2_dc_attach_dmabuf(s, ds, n, d)
  PROVE  IInv'
BY DEF vb2_dc_attach_dmabuf, IInv, ExporterRefsBalanced, MappedAddr

LEMMA MapStep ==
  ASSUME IInv, 0 \notin MapAddrs, NEW s \in Slots, NEW t \in ForeignTables,
         vb2_dc_map_dmabuf(s, t)
  PROVE  IInv'
<1>1. t[1].addr \in MapAddrs /\ t # NoSgt
  BY TableFirst, DcDmabufAssumption
<1>2. t[1].addr \in Nat \ {0}
  <2>1. MapAddrs \subseteq Nat
    BY DcDmabufAssumption, DcContigAssumption DEF AddrLimit
  <2>2. QED
    BY <1>1, <2>1
<1>3. QED
  BY <1>1, <1>2 DEF vb2_dc_map_dmabuf, IInv, ExporterRefsBalanced, MappedAddr

LEMMA UnmapStep ==
  ASSUME IInv, NEW s \in Slots, vb2_dc_unmap_dmabuf(s)
  PROVE  IInv'
BY DEF vb2_dc_unmap_dmabuf, UnmapBody, IInv, ExporterRefsBalanced, MappedAddr

(* Detach unmaps exactly the planes that are still mapped, because         *)
(* MappedAddr makes its test of dma_addr the test of dma_sgt.              *)
LEMMA DetachStep ==
  ASSUME IInv, NEW s \in Slots, vb2_dc_detach_dmabuf(s)
  PROVE  IInv'
<1>1. CASE StillMapped(s) /\ UnmapBody(s)
  <2>1. att[s] /\ sgt[s] # NoSgt /\ mappings[s] = 1 /\ attaches[s] = 1
    BY <1>1 DEF vb2_dc_detach_dmabuf, StillMapped, IInv, ExporterRefsBalanced,
                MappedAddr
  <2>2. QED
    BY <1>1, <2>1 DEF vb2_dc_detach_dmabuf, UnmapBody, IInv,
                      ExporterRefsBalanced, MappedAddr
<1>2. CASE ~StillMapped(s) /\ UNCHANGED <<vaddr, vmaps, mappings, dmaAddr, sgt>>
  <2>1. att[s] /\ sgt[s] = NoSgt /\ mappings[s] = 0 /\ attaches[s] = 1
    BY <1>2 DEF vb2_dc_detach_dmabuf, StillMapped, IInv, ExporterRefsBalanced,
                MappedAddr
  <2>2. QED
    BY <1>2, <2>1 DEF vb2_dc_detach_dmabuf, IInv, ExporterRefsBalanced,
                      MappedAddr
<1>3. QED
  BY <1>1, <1>2 DEF vb2_dc_detach_dmabuf

LEMMA VaddrStep ==
  ASSUME IInv, NEW s \in Slots, vb2_dc_vaddr(s)
  PROVE  IInv'
BY DEF vb2_dc_vaddr, IInv, ExporterRefsBalanced, MappedAddr

LEMMA NextIInv ==
  ASSUME 0 \notin MapAddrs
  PROVE  IInv /\ [Next]_vars => IInv'
<1> SUFFICES ASSUME IInv, [Next]_vars PROVE IInv'
  OBVIOUS
<1>1. CASE Next
  <2> PICK s \in Slots :
        \/ \E ds \in DbufSizes, n \in Sizes, d \in Dirs :
             vb2_dc_attach_dmabuf(s, ds, n, d)
        \/ \E t \in ForeignTables : vb2_dc_map_dmabuf(s, t)
        \/ vb2_dc_unmap_dmabuf(s)
        \/ vb2_dc_detach_dmabuf(s)
        \/ vb2_dc_vaddr(s)
    BY <1>1 DEF Next
  <2> QED
    BY AttachStep, MapStep, UnmapStep, DetachStep, VaddrStep
<1>2. CASE UNCHANGED vars
  BY <1>2 DEF vars, IInv, ExporterRefsBalanced, MappedAddr
<1>3. QED
  BY <1>1, <1>2

(* ExporterRefsBalanced: for any number of planes and any exporter whose   *)
(* tables never start at DMA address 0, the importer callbacks leave the   *)
(* exporter exactly the attachment and the mapping its descriptors record, *)
(* whatever order the framework calls attach, map, unmap, vaddr and detach *)
(* in.                                                                     *)
THEOREM ExporterRefsProved ==
  ASSUME 0 \notin MapAddrs
  PROVE  Spec => []ExporterRefsBalanced
<1>1. Init => IInv
  BY InitIInv
<1>2. IInv /\ [Next]_vars => IInv'
  BY NextIInv
<1>3. IInv => ExporterRefsBalanced
  BY DEF IInv
<1>4. QED
  BY <1>1, <1>2, <1>3, PTL DEF Spec

=============================================================================
