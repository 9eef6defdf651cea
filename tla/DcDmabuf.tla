------------------------------ MODULE DcDmabuf ------------------------------
(***************************************************************************)
(* DMABUF buffers of videobuf2-dma-contig: a plane imported from a foreign *)
(* dma-buf.  vb2_dc_attach_dmabuf attaches the device to the dma-buf,      *)
(* vb2_dc_map_dmabuf maps the attachment and checks that the table is one  *)
(* contiguous run, vb2_dc_unmap_dmabuf undoes the map (and a CPU mapping   *)
(* made by vb2_dc_vaddr), vb2_dc_detach_dmabuf detaches and frees the      *)
(* descriptor.  The framework drives each plane from one thread under its  *)
(* queue lock, so every callback is one step.                              *)
(*                                                                         *)
(* What the foreign exporter sees is counted per slot: attachments,        *)
(* mapped attachments and CPU mappings taken through the dma-buf API and   *)
(* not yet given back.  The table an exporter returns is any table of up   *)
(* to MaxSegs segments over MapAddrs and Lens.                             *)
(***************************************************************************)
EXTENDS DcContig

CONSTANTS
  Slots,     \* planes that may import a dma-buf
  DbufSizes, \* sizes of the dma-bufs user space passes
  Sizes,     \* plane sizes the framework requests
  Dirs,      \* DMA directions
  MapAddrs,  \* DMA addresses a foreign table may start its segments at
  Lens,      \* lengths of its segments
  MaxSegs,   \* bound on the segments of a foreign table
  MaxCount,  \* bound on each exporter-side count of one slot
  NoSgt      \* buf->dma_sgt == NULL

(* The tables an exporter's dma_buf_map_attachment can return.            *)
ForeignTables ==
  UNION {[1 .. n -> [addr : MapAddrs, len : Lens]] : n \in 1 .. MaxSegs}

ASSUME DcDmabufAssumption ==
  /\ DbufSizes \subseteq Nat
  /\ Sizes \subseteq Nat
  /\ MapAddrs \subseteq 0 .. AddrLimit - 1
  /\ Lens \subseteq Nat
  /\ MaxSegs \in Nat \ {0}
  /\ MaxCount \in Nat \ {0}
  /\ NoSgt \notin ForeignTables

VARIABLES
  att,       \* the slot holds a descriptor (buf->db_attach set)
  size,      \* buf->size
  dir,       \* buf->dma_dir
  sgt,       \* buf->dma_sgt: the mapped foreign table, or NoSgt
  dmaAddr,   \* buf->dma_addr
  vaddr,     \* buf->vaddr != NULL
  attaches,  \* dma_buf_attach not yet undone by dma_buf_detach
  mappings,  \* dma_buf_map_attachment not yet undone by unmap_attachment
  vmaps      \* dma_buf_vmap not yet undone by dma_buf_vunmap

vars == <<att, size, dir, sgt, dmaAddr, vaddr, attaches, mappings, vmaps>>

-----------------------------------------------------------------------------
(* vb2_dc_attach_dmabuf: a dma-buf smaller than the plane is refused;      *)
(* otherwise a zeroed descriptor is attached.  The kzalloc and             *)
(* dma_buf_attach failures free what they took and change nothing.         *)
vb2_dc_attach_dmabuf(s, dbufSize, n, d) ==
  /\ ~att[s]
  /\ dbufSize >= n
  /\ attaches[s] < MaxCount
  /\ att' = [att EXCEPT ![s] = TRUE]
  /\ size' = [size EXCEPT ![s] = n]
  /\ dir' = [dir EXCEPT ![s] = d]
  /\ sgt' = [sgt EXCEPT ![s] = NoSgt]
  /\ dmaAddr' = [dmaAddr EXCEPT ![s] = 0]
  /\ vaddr' = [vaddr EXCEPT ![s] = FALSE]
  /\ attaches' = [attaches EXCEPT ![s] = @ + 1]
  /\ UNCHANGED <<mappings, vmaps>>

(* The contiguous run of the foreign table covers the plane.               *)
ImportLargeEnough(s, t) == vb2_dc_get_contiguous_size(t) >= size[s]

(* vb2_dc_map_dmabuf: a second map is warned about and returns 0; a failed *)
(* dma_buf_map_attachment, or a table whose run is too short (mapped and   *)
(* at once unmapped), changes nothing.  On success the table and its first *)
(* DMA address are recorded and buf->vaddr is set to NULL.                 *)
vb2_dc_map_dmabuf(s, t) ==
  /\ att[s]
  /\ sgt[s] = NoSgt
  /\ ImportLargeEnough(s, t)
  /\ mappings[s] < MaxCount
  /\ sgt' = [sgt EXCEPT ![s] = t]
  /\ dmaAddr' = [dmaAddr EXCEPT ![s] = t[1].addr]
  /\ vaddr' = [vaddr EXCEPT ![s] = FALSE]
  /\ mappings' = [mappings EXCEPT ![s] = @ + 1]
  /\ UNCHANGED <<att, size, dir, attaches, vmaps>>

(* The body of vb2_dc_unmap_dmabuf past its WARN_ON guards: vunmap a CPU   *)
(* mapping if there is one, unmap the attachment, clear address and table. *)
UnmapBody(s) ==
  /\ vaddr' = [vaddr EXCEPT ![s] = FALSE]
  /\ vmaps' = [vmaps EXCEPT ![s] = IF vaddr[s] THEN @ - 1 ELSE @]
  /\ mappings' = [mappings EXCEPT ![s] = @ - 1]
  /\ dmaAddr' = [dmaAddr EXCEPT ![s] = 0]
  /\ sgt' = [sgt EXCEPT ![s] = NoSgt]

(* vb2_dc_unmap_dmabuf on a mapped buffer (on an unmapped one it warns and *)
(* returns).                                                               *)
vb2_dc_unmap_dmabuf(s) ==
  /\ att[s]
  /\ sgt[s] # NoSgt
  /\ UnmapBody(s)
  /\ UNCHANGED <<att, size, dir, attaches>>

(* Mutant: detach never unmaps a buffer the framework left mapped.        *)
StillMappedNever(s) == FALSE

(* The test detach uses to decide that the buffer is still mapped.         *)
StillMapped(s) == dmaAddr[s] # 0

(* vb2_dc_detach_dmabuf: a buffer still mapped is warned about and         *)
(* unmapped first; then the attachment is detached and the descriptor      *)
(* freed.                                                                  *)
vb2_dc_detach_dmabuf(s) ==
  /\ att[s]
  /\ \/ StillMapped(s) /\ UnmapBody(s)
     \/ ~StillMapped(s) /\ UNCHANGED <<vaddr, vmaps, mappings, dmaAddr, sgt>>
  /\ att' = [att EXCEPT ![s] = FALSE]
  /\ attaches' = [attaches EXCEPT ![s] = @ - 1]
  /\ UNCHANGED <<size, dir>>

(* vb2_dc_vaddr on an imported buffer with no CPU mapping yet: dma_buf_vmap *)
(* the dma-buf and cache the address (a failed vmap leaves it NULL).        *)
vb2_dc_vaddr(s) ==
  /\ att[s]
  /\ ~vaddr[s]
  /\ vmaps[s] < MaxCount
  /\ vaddr' = [vaddr EXCEPT ![s] = TRUE]
  /\ vmaps' = [vmaps EXCEPT ![s] = @ + 1]
  /\ UNCHANGED <<att, size, dir, sgt, dmaAddr, attaches, mappings>>

-----------------------------------------------------------------------------
Init ==
  /\ att = [s \in Slots |-> FALSE]
  /\ size = [s \in Slots |-> 0]
  /\ dir = [s \in Slots |-> CHOOSE d \in Dirs : TRUE]
  /\ sgt = [s \in Slots |-> NoSgt]
  /\ dmaAddr = [s \in Slots |-> 0]
  /\ vaddr = [s \in Slots |-> FALSE]
  /\ attaches = [s \in Slots |-> 0]
  /\ mappings = [s \in Slots |-> 0]
  /\ vmaps = [s \in Slots |-> 0]

Next ==
  \E s \in Slots :
    \/ \E ds \in DbufSizes, n \in Sizes, d \in Dirs : vb2_dc_attach_dmabuf(s, ds, n, d)
    \/ \E t \in ForeignTables : vb2_dc_map_dmabuf(s, t)
    \/ vb2_dc_unmap_dmabuf(s)
    \/ vb2_dc_detach_dmabuf(s)
    \/ vb2_dc_vaddr(s)

Spec == Init /\ [][Next]_vars

-----------------------------------------------------------------------------
TypeOK ==
  /\ att \in [Slots -> BOOLEAN]
  /\ size \in [Slots -> Sizes \cup {0}]
  /\ dir \in [Slots -> Dirs]
  /\ \A s \in Slots : sgt[s] = NoSgt \/ sgt[s] \in ForeignTables
  /\ dmaAddr \in [Slots -> 0 .. AddrLimit - 1]
  /\ vaddr \in [Slots -> BOOLEAN]
  /\ attaches \in [Slots -> 0 .. MaxCount]
  /\ mappings \in [Slots -> 0 .. MaxCount]
  /\ vmaps \in [Slots -> 0 .. MaxCount]

(* The foreign dma-buf holds exactly the attachment and the mapping the    *)
(* importer's descriptors record: whatever order the framework calls       *)
(* attach, map, unmap and detach in (detach of a mapped buffer included),  *)
(* no attachment or mapping is left behind on the exporter.                *)
ExporterRefsBalanced ==
  \A s \in Slots :
    /\ attaches[s] = IF att[s] THEN 1 ELSE 0
    /\ mappings[s] = IF att[s] /\ sgt[s] # NoSgt THEN 1 ELSE 0

(* Every CPU mapping vb2_dc_vaddr takes of a foreign dma-buf is the one    *)
(* buf->vaddr records, and is given back by unmap (spec 4.4, 4.6).         *)
VmapsBalanced ==
  \A s \in Slots : vmaps[s] = IF att[s] /\ vaddr[s] THEN 1 ELSE 0

=============================================================================
