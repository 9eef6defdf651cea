------------------------------ MODULE DcUserptr ------------------------------
(***************************************************************************)
(* USERPTR buffers of videobuf2-dma-contig: vb2_dc_get_userptr pins a      *)
(* user range and makes it device-addressable, vb2_dc_put_userptr undoes   *)
(* it, vb2_dc_prepare and vb2_dc_finish sync caches around a transfer.     *)
(*                                                                         *)
(* get_userptr takes its resources one at a time (the descriptor, the     *)
(* pinned frame vector, the sg_table struct, its entries, the DMA          *)
(* mapping); every call it makes that can fail is a step of its own, and a *)
(* failure falls down the goto ladder fail_map_sg .. fail_buf releasing    *)
(* what was taken.  Each slot is a plane the framework may fill; calls on  *)
(* different slots interleave.                                             *)
(*                                                                         *)
(* Sizes and addresses count bytes of a small machine: PageSize bytes a    *)
(* page, DmaAlign the cache alignment.  The mapped scatter table is what   *)
(* dma_map_sg returns; which DMA addresses it holds is up to the DMA layer *)
(* and is chosen freely from MapAddrs.                                     *)
(***************************************************************************)
EXTENDS DcContig

CONSTANTS
  Slots,     \* planes whose USERPTR buffer may be acquired
  Vaddrs,    \* user addresses the framework passes
  Sizes,     \* sizes the framework passes
  PageSize,  \* PAGE_SIZE
  DmaAlign,  \* dma_get_cache_alignment()
  MapAddrs,  \* DMA addresses dma_map_sg may assign to a segment
  Pfns,      \* page frame numbers of the user range
  Dirs,      \* DMA directions
  NoSgt      \* buf->dma_sgt == NULL

ASSUME DcUserptrAssumption ==
  /\ Vaddrs \subseteq Nat
  /\ Sizes \subseteq Nat
  /\ PageSize \in Nat \ {0}
  /\ DmaAlign \in Nat \ {0}
  /\ \E k \in 0 .. DmaAlign : 2 ^ k = DmaAlign
  /\ MapAddrs \subseteq 0 .. AddrLimit - 1
  /\ Pfns \subseteq Nat
  /\ NoSgt \notin Seq(Segment)

VARIABLES
  pc,        \* where the call on the slot is: "idle" or a step of get_userptr
  live,      \* the slot holds a buffer returned to the framework
  held,      \* resources the slot's descriptor holds
  size,      \* buf->size (the requested size while the call runs)
  vaddr,     \* the user address of the call
  dir,       \* buf->dma_dir
  sgt,       \* buf->dma_sgt: the mapped table, or NoSgt
  pfns,      \* frame numbers of the pinned range (when they have no pages)
  owner      \* who the caches of the slot's range were last synced for:
             \* "cpu", "device", or "unsynced" since the range was pinned

vars == <<pc, live, held, size, vaddr, dir, sgt, pfns, owner>>

(* The resources a call can hold, in the order get_userptr takes them.     *)
Resources == {"buf", "vec", "sgt", "table", "map"}

-----------------------------------------------------------------------------
(* IS_ALIGNED(vaddr | size, dma_align).  With dma_align a power of two,    *)
(* the OR has no bit below dma_align exactly when neither operand has.     *)
CacheAligned(v, s) == v % DmaAlign = 0 /\ s % DmaAlign = 0

(* frame_vector_count: the pages spanning [vaddr, vaddr + size).           *)
NPages(v, s) == ((v % PageSize) + s + PageSize - 1) \div PageSize

(* The scatter tables dma_map_sg may return for a range of n pages: up to *)
(* one segment per page, lengths adding up to the size.                    *)
MappedTables(n, s) ==
  {t \in UNION {[1 .. k -> [addr : MapAddrs, len : 1 .. s]] : k \in 1 .. n} :
     SumLens(t) = s}

(* Mutant: each label releases only its own resource and returns.         *)
UnwindNoFallthrough(from) == {from}

(* The goto ladder of get_userptr: entering at a label releases the        *)
(* resources of that label and of every label below it.                    *)
Ladder == <<"map", "table", "sgt", "vec", "buf">>

Unwind(from) ==
  LET k == CHOOSE j \in 1 .. Len(Ladder) : Ladder[j] = from
  IN  {Ladder[j] : j \in k .. Len(Ladder)}

(* The call on slot s fails at label l: everything from l down is freed   *)
(* and ERR_PTR is returned.                                                *)
Unwound(s, l) ==
  /\ held' = [held EXCEPT ![s] = @ \ Unwind(l)]
  /\ pc' = [pc EXCEPT ![s] = "idle"]

Fail(s, l) ==
  /\ Unwound(s, l)
  /\ UNCHANGED <<live, size, vaddr, dir, sgt, pfns, owner>>

Take(s, r, next) ==
  /\ held' = [held EXCEPT ![s] = @ \cup {r}]
  /\ pc' = [pc EXCEPT ![s] = next]
  /\ UNCHANGED <<live, size, vaddr, dir, sgt, pfns, owner>>

-----------------------------------------------------------------------------
(* vb2_dc_get_userptr up to kzalloc of the descriptor.  A misaligned or    *)
(* zero-sized range, or a failed kzalloc, returns before anything is       *)
(* taken and leaves no trace.                                              *)
GetUserptr(s, v, n, d) ==
  /\ pc[s] = "idle"
  /\ ~live[s]
  /\ CacheAligned(v, n)
  /\ n # 0
  /\ held' = [held EXCEPT ![s] = {"buf"}]
  /\ pc' = [pc EXCEPT ![s] = "framevec"]
  /\ vaddr' = [vaddr EXCEPT ![s] = v]
  /\ size' = [size EXCEPT ![s] = n]
  /\ dir' = [dir EXCEPT ![s] = d]
  /\ owner' = [owner EXCEPT ![s] = "unsynced"]
  /\ UNCHANGED <<live, sgt, pfns>>

(* vb2_create_framevec pins the range, or fails (goto fail_buf).           *)
CreateFramevec(s) ==
  /\ pc[s] = "framevec"
  /\ \/ Take(s, "vec", "topages")
     \/ Fail(s, "buf")

(* frame_vector_to_pages fails: the frames have no struct page.  When      *)
(* they are physically contiguous the buffer is addressed directly from    *)
(* nums[0] with no table (goto out); otherwise goto fail_pfnvec.           *)
PfnFallback(s) ==
  /\ pc[s] = "topages"
  /\ \E nums \in [1 .. NPages(vaddr[s], size[s]) -> Pfns] :
       \/ /\ PfnsContiguous(nums)
          /\ pfns' = [pfns EXCEPT ![s] = nums]
          /\ live' = [live EXCEPT ![s] = TRUE]
          /\ pc' = [pc EXCEPT ![s] = "idle"]
          /\ sgt' = [sgt EXCEPT ![s] = NoSgt]
          /\ UNCHANGED <<held, size, vaddr, dir, owner>>
       \/ /\ ~PfnsContiguous(nums)
          /\ Fail(s, "vec")

(* The frames have pages: kzalloc the sg_table (or goto fail_pfnvec).      *)
AllocSgt(s) ==
  /\ pc[s] = "topages"
  /\ \/ Take(s, "sgt", "sgtinit")
     \/ Fail(s, "vec")

(* sg_alloc_table_from_pages (or goto fail_sgt).                           *)
InitSgt(s) ==
  /\ pc[s] = "sgtinit"
  /\ \/ Take(s, "table", "mapsg")
     \/ Fail(s, "sgt")

(* dma_map_sg_attrs with DMA_ATTR_SKIP_CPU_SYNC: a mapped table, or no     *)
(* entry mapped (goto fail_sgt_init).                                      *)
MapSg(s) ==
  /\ pc[s] = "mapsg"
  /\ \/ \E t \in MappedTables(NPages(vaddr[s], size[s]), size[s]) :
          /\ held' = [held EXCEPT ![s] = @ \cup {"map"}]
          /\ sgt' = [sgt EXCEPT ![s] = t]
          /\ pc' = [pc EXCEPT ![s] = "contig"]
          /\ UNCHANGED <<live, size, vaddr, dir, pfns, owner>>
     \/ Fail(s, "table")

(* Mutant: the size check is left out.                                    *)
ContigUnchecked(s) == TRUE

(* The contiguous run must cover the size, else goto fail_map_sg.          *)
ContigLargeEnough(s) == vb2_dc_get_contiguous_size(sgt[s]) >= size[s]

CheckContig(s) ==
  /\ pc[s] = "contig"
  /\ \/ /\ ContigLargeEnough(s)
        /\ live' = [live EXCEPT ![s] = TRUE]
        /\ pc' = [pc EXCEPT ![s] = "idle"]
        /\ UNCHANGED <<held, size, vaddr, dir, sgt, pfns, owner>>
     \/ /\ ~ContigLargeEnough(s)
        /\ sgt' = [sgt EXCEPT ![s] = NoSgt]
        /\ Unwound(s, "map")
        /\ UNCHANGED <<live, size, vaddr, dir, pfns, owner>>

-----------------------------------------------------------------------------
(* vb2_dc_put_userptr: with a table (if (sgt)), unmap it without a CPU     *)
(* sync, dirty the pages and free the table and its struct; then, in every *)
(* case, release the frame vector and the descriptor.  The unmap skips the *)
(* CPU sync, so the caches stay as the last prepare or finish left them.   *)
PutReleases(s) ==
  (IF sgt[s] # NoSgt THEN {"map", "table", "sgt"} ELSE {}) \cup {"vec", "buf"}

vb2_dc_put_userptr(s) ==
  /\ pc[s] = "idle"
  /\ live[s]
  /\ live' = [live EXCEPT ![s] = FALSE]
  /\ held' = [held EXCEPT ![s] = @ \ PutReleases(s)]
  /\ sgt' = [sgt EXCEPT ![s] = NoSgt]
  /\ pfns' = [pfns EXCEPT ![s] = <<>>]
  /\ UNCHANGED <<pc, size, vaddr, dir, owner>>

(* vb2_dc_prepare / vb2_dc_finish: sync the table for the device or for    *)
(* the CPU.  With no table there is nothing to sync and nothing changes.   *)
vb2_dc_prepare(s) ==
  /\ live[s]
  /\ sgt[s] # NoSgt
  /\ owner' = [owner EXCEPT ![s] = "device"]
  /\ UNCHANGED <<pc, live, held, size, vaddr, dir, sgt, pfns>>

vb2_dc_finish(s) ==
  /\ live[s]
  /\ sgt[s] # NoSgt
  /\ owner' = [owner EXCEPT ![s] = "cpu"]
  /\ UNCHANGED <<pc, live, held, size, vaddr, dir, sgt, pfns>>

-----------------------------------------------------------------------------
Init ==
  /\ pc = [s \in Slots |-> "idle"]
  /\ live = [s \in Slots |-> FALSE]
  /\ held = [s \in Slots |-> {}]
  /\ size = [s \in Slots |-> 0]
  /\ vaddr = [s \in Slots |-> 0]
  /\ dir = [s \in Slots |-> CHOOSE d \in Dirs : TRUE]
  /\ sgt = [s \in Slots |-> NoSgt]
  /\ pfns = [s \in Slots |-> <<>>]
  /\ owner = [s \in Slots |-> "unsynced"]

Next ==
  \/ \E s \in Slots, v \in Vaddrs, n \in Sizes, d \in Dirs : GetUserptr(s, v, n, d)
  \/ \E s \in Slots :
       \/ CreateFramevec(s) \/ PfnFallback(s) \/ AllocSgt(s) \/ InitSgt(s)
       \/ MapSg(s) \/ CheckContig(s)
       \/ vb2_dc_put_userptr(s) \/ vb2_dc_prepare(s) \/ vb2_dc_finish(s)

Spec == Init /\ [][Next]_vars

-----------------------------------------------------------------------------
(* What a returned descriptor owns: the frame vector alone when the frames *)
(* had no pages, all five resources when a table was mapped.               *)
Owned(s) ==
  IF ~live[s] THEN {}
  ELSE IF sgt[s] = NoSgt THEN {"buf", "vec"} ELSE Resources

TypeOK ==
  /\ pc \in [Slots -> {"idle", "framevec", "topages", "sgtinit", "mapsg", "contig"}]
  /\ live \in [Slots -> BOOLEAN]
  /\ held \in [Slots -> SUBSET Resources]
  /\ size \in [Slots -> Sizes \cup {0}]
  /\ vaddr \in [Slots -> Vaddrs \cup {0}]
  /\ dir \in [Slots -> Dirs]
  /\ \A s \in Slots : sgt[s] = NoSgt \/ sgt[s] \in Seq(Segment)
  /\ pfns \in [Slots -> Seq(Pfns)]
  /\ owner \in [Slots -> {"unsynced", "cpu", "device"}]

(* Whatever step of vb2_dc_get_userptr fails, once the call has returned   *)
(* the slot holds exactly what its descriptor owns: a failed call leaves   *)
(* nothing pinned, allocated or mapped, and vb2_dc_put_userptr releases    *)
(* everything a successful one took.  The goto ladder has to fall through  *)
(* every label below the one it enters.                                    *)
RollbackComplete ==
  \A s \in Slots : pc[s] = "idle" => held[s] = Owned(s)

(* A buffer handed to the framework is addressable by the device as one    *)
(* run: a mapped table chains segment to segment (dma_addr_t arithmetic)  *)
(* over the whole size, and unmapped frames are consecutive.               *)
AcceptedContiguous ==
  \A s \in Slots : pc[s] = "idle" /\ live[s] =>
    IF sgt[s] = NoSgt THEN PfnsContiguous(pfns[s])
    ELSE SegmentsChain(sgt[s]) /\ SumLens(sgt[s]) = size[s]

=============================================================================
