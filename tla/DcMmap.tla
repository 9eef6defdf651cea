------------------------------- MODULE DcMmap -------------------------------
(***************************************************************************)
(* MMAP buffers of videobuf2-dma-contig and the dma-buf exporter built on  *)
(* them.                                                                   *)
(*                                                                         *)
(* A buffer is allocated with vb2_dc_alloc and then shared by three kinds  *)
(* of holders, each owning one count of buf->refcount: the vb2 framework   *)
(* (the reference returned by alloc), every user-space mapping (vma) of    *)
(* the buffer, and every dma-buf exported from it by vb2_dc_get_dmabuf.    *)
(* Any holder may drop its reference from its own thread; vb2_dc_put does  *)
(* atomic_dec_and_test and the thread that sees zero tears the buffer     *)
(* down.  The put is split in two steps, the decrement and the test that   *)
(* follows it, so that puts of several threads interleave.                 *)
(*                                                                         *)
(* A dma-buf lives while its file is open or an importer is attached to    *)
(* it (the importer holds a file reference from dma_buf_get to             *)
(* dma_buf_put).  Its release callback drops the buffer reference.  The    *)
(* exporter attachment ops (attach, detach, map) copy and dma-map the      *)
(* buffer's base scatter table; they run under the dma-buf lock and are    *)
(* single steps.                                                           *)
(***************************************************************************)
EXTENDS Naturals, FiniteSets

CONSTANTS
  Bufs,      \* slots for struct vb2_dc_buf
  DBufs,     \* slots for exported struct dma_buf
  Atts,      \* slots for exporter attachments (struct vb2_dc_attachment)
  Threads,   \* threads that may drop a reference concurrently
  Sizes,     \* sizes the framework may request from vb2_dc_alloc
  Dirs,      \* DMA directions an importer may map with
  NONE,      \* DMA_NONE: attachment has no cached mapping
  NoBuf,     \* null buffer pointer
  NoDb,      \* null dma-buf pointer
  MaxVmas    \* bound on the number of vmas mapping one buffer

ASSUME DcMmapAssumption ==
  /\ IsFiniteSet(Bufs)
  /\ IsFiniteSet(DBufs)
  /\ Sizes \subseteq Nat
  /\ NONE \notin Dirs
  /\ NoBuf \notin Bufs
  /\ NoDb \notin DBufs
  /\ MaxVmas \in Nat

VARIABLES
  bufSt,     \* "unused" or "live" (allocated, not yet kfree'd)
  refcount,  \* buf->refcount
  bufSize,   \* buf->size
  sgtBase,   \* buf->sgt_base != NULL
  fwRef,     \* the framework still holds the reference alloc returned
  vmas,      \* number of vmas whose vm_private_data is &buf->handler
  devRefs,   \* references taken on the device by get_device
  dbSt,      \* "unused" or "live" (exported, not yet released)
  dbBuf,     \* dbuf->priv
  dbFd,      \* the file of the exported dma-buf is still open
  atSt,      \* "unused" or "attached"
  atDb,      \* the dma-buf an attachment belongs to
  atDir,     \* attach->dma_dir: direction of the cached mapping
  atMapped,  \* dma_map_sg calls on attach->sgt not yet undone
  pc,        \* "idle", or "test" between the decrement and its test
  tBuf,      \* buffer a thread is putting
  tSaw       \* value atomic_dec_and_test returned to the thread

vars == <<bufSt, refcount, bufSize, sgtBase, fwRef, vmas, devRefs, dbSt,
          dbBuf, dbFd, atSt, atDb, atDir, atMapped, pc, tBuf, tSaw>>

bufVars == <<bufSt, refcount, bufSize, sgtBase, fwRef, vmas, devRefs>>
dbVars  == <<dbSt, dbBuf, dbFd>>
atVars  == <<atSt, atDb, atDir, atMapped>>
thVars  == <<pc, tBuf, tSaw>>

-----------------------------------------------------------------------------
(* Holders of a buffer.                                                    *)

LiveDbufsOf(b) == {d \in DBufs : dbSt[d] = "live" /\ dbBuf[d] = b}

AttsOf(d) == {a \in Atts : atSt[a] = "attached" /\ atDb[a] = d}

Holders(b) == (IF fwRef[b] THEN 1 ELSE 0) + vmas[b] + Cardinality(LiveDbufsOf(b))

-----------------------------------------------------------------------------
(* vb2_dc_put, first half: atomic_dec_and_test by thread t.  DecAndTest is *)
(* the value the atomic operation returns.                                 *)

(* Mutant: the count is tested before it is decremented.                *)
DecAndTestBeforeDec(b) == refcount[b] = 0

DecAndTest(b) == refcount[b] - 1 = 0

StartPut(t, b) ==
  /\ refcount' = [refcount EXCEPT ![b] = @ - 1]
  /\ pc' = [pc EXCEPT ![t] = "test"]
  /\ tBuf' = [tBuf EXCEPT ![t] = b]
  /\ tSaw' = [tSaw EXCEPT ![t] = DecAndTest(b)]

(* The result the thread branches on after the decrement.                  *)
(* Mutant: the count is read again instead of using the atomic result.   *)
ObservedReread(t) == refcount[tBuf[t]] = 0

Observed(t) == tSaw[t]

(* vb2_dc_put, second half: the thread did not see zero and returns.       *)
PutReturn(t) ==
  /\ pc[t] = "test"
  /\ ~Observed(t)
  /\ pc' = [pc EXCEPT ![t] = "idle"]
  /\ tBuf' = [tBuf EXCEPT ![t] = NoBuf]
  /\ UNCHANGED <<bufVars, dbVars, atVars, tSaw>>

(* vb2_dc_put, second half: the thread saw zero; it frees sgt_base, the    *)
(* coherent memory, drops the device reference and frees the descriptor.   *)
PutFree(t) ==
  LET b == tBuf[t] IN
  /\ pc[t] = "test"
  /\ Observed(t)
  /\ bufSt' = [bufSt EXCEPT ![b] = "unused"]
  /\ sgtBase' = [sgtBase EXCEPT ![b] = FALSE]
  /\ devRefs' = devRefs - 1
  /\ pc' = [pc EXCEPT ![t] = "idle"]
  /\ tBuf' = [tBuf EXCEPT ![t] = NoBuf]
  /\ UNCHANGED <<refcount, bufSize, fwRef, vmas, dbVars, atVars, tSaw>>

-----------------------------------------------------------------------------
(* vb2_dc_alloc succeeds: dma_alloc_coherent returned memory for the      *)
(* requested size; the device is pinned and refcount becomes 1.  Its       *)
(* failures (kzalloc, dma_alloc_coherent) free what they took and change   *)
(* nothing.  No size is rejected: dma_alloc_coherent may or may not fail   *)
(* on any size, zero included.                                             *)
vb2_dc_alloc(b, size) ==
  /\ bufSt[b] = "unused"
  /\ bufSt' = [bufSt EXCEPT ![b] = "live"]
  /\ refcount' = [refcount EXCEPT ![b] = 1]
  /\ bufSize' = [bufSize EXCEPT ![b] = size]
  /\ fwRef' = [fwRef EXCEPT ![b] = TRUE]
  /\ devRefs' = devRefs + 1
  /\ UNCHANGED <<sgtBase, vmas, dbVars, atVars, thVars>>

(* The framework frees its buffer (__vb2_buf_mem_free calls put).          *)
FrameworkPut(t, b) ==
  /\ pc[t] = "idle"
  /\ fwRef[b]
  /\ fwRef' = [fwRef EXCEPT ![b] = FALSE]
  /\ StartPut(t, b)
  /\ UNCHANGED <<bufSt, bufSize, sgtBase, vmas, devRefs, dbVars, atVars>>

(* Mutant: mmap does not require an owner of the buffer to ask for it.    *)
MmapUnowned(b) ==
  /\ bufSt[b] = "live"
  /\ vmas[b] < MaxVmas
  /\ vmas' = [vmas EXCEPT ![b] = @ + 1]
  /\ refcount' = [refcount EXCEPT ![b] = @ + 1]
  /\ UNCHANGED <<bufSt, bufSize, sgtBase, fwRef, devRefs, dbVars, atVars,
                 thVars>>

(* vb2_dc_mmap succeeds (directly, or through vb2_dc_dmabuf_ops_mmap on an *)
(* open dma-buf): the new vma takes a reference through vm_ops->open.      *)
vb2_dc_mmap(b) ==
  /\ bufSt[b] = "live"
  /\ fwRef[b] \/ \E d \in LiveDbufsOf(b) : dbFd[d]
  /\ vmas[b] < MaxVmas
  /\ vmas' = [vmas EXCEPT ![b] = @ + 1]
  /\ refcount' = [refcount EXCEPT ![b] = @ + 1]
  /\ UNCHANGED <<bufSt, bufSize, sgtBase, fwRef, devRefs, dbVars, atVars,
                 thVars>>

(* vm_ops->open on a copied or split vma takes one more reference.         *)
VmOpen(b) ==
  /\ vmas[b] > 0
  /\ vmas[b] < MaxVmas
  /\ vmas' = [vmas EXCEPT ![b] = @ + 1]
  /\ refcount' = [refcount EXCEPT ![b] = @ + 1]
  /\ UNCHANGED <<bufSt, bufSize, sgtBase, fwRef, devRefs, dbVars, atVars,
                 thVars>>

(* vm_ops->close: the vma goes away and puts its reference.                *)
VmClose(t, b) ==
  /\ pc[t] = "idle"
  /\ vmas[b] > 0
  /\ vmas' = [vmas EXCEPT ![b] = @ - 1]
  /\ StartPut(t, b)
  /\ UNCHANGED <<bufSt, bufSize, sgtBase, fwRef, devRefs, dbVars, atVars>>

-----------------------------------------------------------------------------
(* vb2_dc_get_dmabuf.  sgt_base is built once and cached; the export then  *)
(* either fails (returning NULL, keeping the cached table) or yields a     *)
(* dma-buf that holds one more buffer reference.  When vb2_dc_get_base_sgt *)
(* fails nothing changes.                                                  *)

(* Mutant: the export does not take its buffer reference.                 *)
IncRefMissing(b) == refcount' = refcount

IncRef(b) == refcount' = [refcount EXCEPT ![b] = @ + 1]

GetDmabufExportFails(b) ==
  /\ fwRef[b]
  /\ ~sgtBase[b]
  /\ sgtBase' = [sgtBase EXCEPT ![b] = TRUE]
  /\ UNCHANGED <<bufSt, refcount, bufSize, fwRef, vmas, devRefs, dbVars,
                 atVars, thVars>>

(* Mutant: the export skips building the cached sgt_base.                 *)
GetDmabufNoBaseSgt(b, d) ==
  /\ fwRef[b]
  /\ dbSt[d] = "unused"
  /\ dbSt' = [dbSt EXCEPT ![d] = "live"]
  /\ dbBuf' = [dbBuf EXCEPT ![d] = b]
  /\ dbFd' = [dbFd EXCEPT ![d] = TRUE]
  /\ IncRef(b)
  /\ UNCHANGED <<bufSt, bufSize, sgtBase, fwRef, vmas, devRefs, atVars, thVars>>

vb2_dc_get_dmabuf(b, d) ==
  /\ fwRef[b]
  /\ dbSt[d] = "unused"
  /\ sgtBase' = [sgtBase EXCEPT ![b] = TRUE]
  /\ dbSt' = [dbSt EXCEPT ![d] = "live"]
  /\ dbBuf' = [dbBuf EXCEPT ![d] = b]
  /\ dbFd' = [dbFd EXCEPT ![d] = TRUE]
  /\ IncRef(b)
  /\ UNCHANGED <<bufSt, bufSize, fwRef, vmas, devRefs, atVars, thVars>>

(* The last file reference of dma-buf d is dropped by thread t: the        *)
(* release callback vb2_dc_dmabuf_ops_release puts the buffer.             *)
Release(t, d) ==
  /\ dbSt' = [dbSt EXCEPT ![d] = "unused"]
  /\ dbBuf' = [dbBuf EXCEPT ![d] = NoBuf]
  /\ StartPut(t, dbBuf[d])

(* The exported file is closed.                                            *)
CloseDmabufFd(t, d) ==
  /\ pc[t] = "idle"
  /\ dbSt[d] = "live"
  /\ dbFd[d]
  /\ dbFd' = [dbFd EXCEPT ![d] = FALSE]
  /\ \/ AttsOf(d) = {} /\ Release(t, d)
     \/ AttsOf(d) # {} /\ UNCHANGED <<dbSt, dbBuf, refcount, thVars>>
  /\ UNCHANGED <<bufSt, bufSize, sgtBase, fwRef, vmas, devRefs, atVars>>

-----------------------------------------------------------------------------
(* Exporter attachment ops.  attach copies the buffer's sgt_base into a    *)
(* fresh table with no cached mapping; the importer reached the open       *)
(* dma-buf through its fd and keeps a file reference while attached.  Its  *)
(* allocation failures change nothing.                                     *)
vb2_dc_dmabuf_ops_attach(a, d) ==
  /\ atSt[a] = "unused"
  /\ dbSt[d] = "live"
  /\ dbFd[d]
  /\ atSt' = [atSt EXCEPT ![a] = "attached"]
  /\ atDb' = [atDb EXCEPT ![a] = d]
  /\ atDir' = [atDir EXCEPT ![a] = NONE]
  /\ UNCHANGED <<bufVars, dbVars, atMapped, thVars>>

(* map under the dma-buf lock: the cached table is returned when the       *)
(* direction matches; otherwise any cached mapping is undone and the table *)
(* mapped in the new direction.  MapSgOk says whether dma_map_sg mapped    *)
(* any entry; on failure the attachment is left with no cached mapping.    *)
(* Mutants: the old mapping is kept, or is undone even when none exists.  *)
ReleaseCacheSkipped(a) == atMapped[a]

ReleaseCacheUnconditional(a) == atMapped[a] - 1

ReleaseCache(a) ==
  IF atDir[a] # NONE THEN atMapped[a] - 1 ELSE atMapped[a]

vb2_dc_dmabuf_ops_map(a, dir, mapSgOk) ==
  /\ atSt[a] = "attached"
  /\ atDir[a] # dir
  /\ atMapped' = [atMapped EXCEPT ![a] =
                    ReleaseCache(a) + (IF mapSgOk THEN 1 ELSE 0)]
  /\ atDir' = [atDir EXCEPT ![a] = IF mapSgOk THEN dir ELSE NONE]
  /\ UNCHANGED <<bufVars, dbVars, atSt, atDb, thVars>>

(* detach (dma_buf_detach, then the importer's dma_buf_put): the cached    *)
(* mapping is undone and the table freed; if that was the last file        *)
(* reference the dma-buf is released in the same thread.                   *)
vb2_dc_dmabuf_ops_detach(t, a) ==
  LET d == atDb[a] IN
  /\ pc[t] = "idle"
  /\ atSt[a] = "attached"
  /\ atSt' = [atSt EXCEPT ![a] = "unused"]
  /\ atDb' = [atDb EXCEPT ![a] = NoDb]
  /\ atDir' = [atDir EXCEPT ![a] = NONE]
  /\ atMapped' = [atMapped EXCEPT ![a] = ReleaseCache(a)]
  /\ \/ ~dbFd[d] /\ AttsOf(d) = {a} /\ Release(t, d)
     \/ ~(~dbFd[d] /\ AttsOf(d) = {a}) /\ UNCHANGED <<dbSt, dbBuf, refcount, thVars>>
  /\ UNCHANGED <<bufSt, bufSize, sgtBase, fwRef, vmas, devRefs, dbFd>>

-----------------------------------------------------------------------------
Init ==
  /\ bufSt = [b \in Bufs |-> "unused"]
  /\ refcount = [b \in Bufs |-> 0]
  /\ bufSize = [b \in Bufs |-> 0]
  /\ sgtBase = [b \in Bufs |-> FALSE]
  /\ fwRef = [b \in Bufs |-> FALSE]
  /\ vmas = [b \in Bufs |-> 0]
  /\ devRefs = 0
  /\ dbSt = [d \in DBufs |-> "unused"]
  /\ dbBuf = [d \in DBufs |-> NoBuf]
  /\ dbFd = [d \in DBufs |-> FALSE]
  /\ atSt = [a \in Atts |-> "unused"]
  /\ atDb = [a \in Atts |-> NoDb]
  /\ atDir = [a \in Atts |-> NONE]
  /\ atMapped = [a \in Atts |-> 0]
  /\ pc = [t \in Threads |-> "idle"]
  /\ tBuf = [t \in Threads |-> NoBuf]
  /\ tSaw = [t \in Threads |-> FALSE]

Next ==
  \/ \E b \in Bufs, s \in Sizes : vb2_dc_alloc(b, s)
  \/ \E t \in Threads, b \in Bufs : FrameworkPut(t, b) \/ VmClose(t, b)
  \/ \E b \in Bufs : vb2_dc_mmap(b) \/ VmOpen(b) \/ GetDmabufExportFails(b)
  \/ \E b \in Bufs, d \in DBufs : vb2_dc_get_dmabuf(b, d)
  \/ \E t \in Threads, d \in DBufs : CloseDmabufFd(t, d)
  \/ \E a \in Atts, d \in DBufs : vb2_dc_dmabuf_ops_attach(a, d)
  \/ \E a \in Atts, dir \in Dirs, ok \in BOOLEAN : vb2_dc_dmabuf_ops_map(a, dir, ok)
  \/ \E t \in Threads, a \in Atts : vb2_dc_dmabuf_ops_detach(t, a)
  \/ \E t \in Threads : PutReturn(t) \/ PutFree(t)

(* A thread that has decremented the count runs on to its test: the rest  *)
(* of vb2_dc_put is straight-line code with no wait in it.                 *)
Fairness == \A t \in Threads : WF_vars(PutReturn(t) \/ PutFree(t))

Spec == Init /\ [][Next]_vars

FairSpec == Spec /\ Fairness

(* The abstract lifecycle this module implements: a buffer is live while  *)
(* bufSt says so, and its holders are the framework, its vmas and its live *)
(* dma-bufs.                                                               *)
Abs == INSTANCE DcLifecycle WITH
         live <- [b \in Bufs |-> bufSt[b] = "live"],
         holders <- [b \in Bufs |-> Holders(b)]

-----------------------------------------------------------------------------
(* Type invariant.                                                         *)
TypeOK ==
  /\ bufSt \in [Bufs -> {"unused", "live"}]
  /\ refcount \in [Bufs -> Nat]
  /\ bufSize \in [Bufs -> Nat]
  /\ sgtBase \in [Bufs -> BOOLEAN]
  /\ fwRef \in [Bufs -> BOOLEAN]
  /\ vmas \in [Bufs -> 0..MaxVmas]
  /\ devRefs \in Nat
  /\ dbSt \in [DBufs -> {"unused", "live"}]
  /\ dbBuf \in [DBufs -> Bufs \cup {NoBuf}]
  /\ dbFd \in [DBufs -> BOOLEAN]
  /\ atSt \in [Atts -> {"unused", "attached"}]
  /\ atDb \in [Atts -> DBufs \cup {NoDb}]
  /\ atDir \in [Atts -> Dirs \cup {NONE}]
  /\ atMapped \in [Atts -> Nat]
  /\ pc \in [Threads -> {"idle", "test"}]
  /\ tBuf \in [Threads -> Bufs \cup {NoBuf}]
  /\ tSaw \in [Threads -> BOOLEAN]

(* buf->refcount of every allocated buffer counts exactly its holders: the *)
(* framework's reference from vb2_dc_alloc, one per vma (vm_ops open and   *)
(* close) and one per live dma-buf (vb2_dc_get_dmabuf and the release      *)
(* callback).  A put in progress has already taken its holder and its     *)
(* count away together.                                                    *)
RefcountMatchesHolders ==
  \A b \in Bufs : bufSt[b] = "live" => refcount[b] = Holders(b)

(* Nothing still reachable points at a freed buffer: the framework's       *)
(* buffer, a vma's handler and a live dma-buf's priv are allocated, and    *)
(* the buffer behind a live dma-buf has the sgt_base that                  *)
(* vb2_dc_dmabuf_ops_attach copies from without checking it.               *)
NoUseAfterFree ==
  /\ \A b \in Bufs : (fwRef[b] \/ vmas[b] > 0) => bufSt[b] = "live"
  /\ \A d \in DBufs : dbSt[d] = "live" =>
        /\ bufSt[dbBuf[d]] = "live"
        /\ sgtBase[dbBuf[d]]
  /\ \A a \in Atts : atSt[a] = "attached" => dbSt[atDb[a]] = "live"

(* Each buffer is torn down exactly once: the device references taken by  *)
(* vb2_dc_alloc (get_device) and dropped by vb2_dc_put (put_device) match  *)
(* the allocated buffers, whatever order concurrent puts run in.           *)
DeviceRefBalance ==
  devRefs = Cardinality({b \in Bufs : bufSt[b] = "live"})

(* An exporter attachment holds one dma_map_sg of its table exactly while *)
(* it caches a direction, and none once detached: remapping in a new       *)
(* direction and detaching never leak or double-undo a mapping.            *)
AttachMapBalance ==
  \A a \in Atts :
    atMapped[a] = IF atSt[a] = "attached" /\ atDir[a] # NONE THEN 1 ELSE 0

(* No count is taken on a buffer once its count has dropped to zero: from *)
(* the atomic_dec_and_test in vb2_dc_put that reached zero until the free, *)
(* no mmap, vm_ops open, export or other put touches buf->refcount, so the *)
(* teardown never races with a new holder.                                *)
NoRefAfterZero ==
  [][\A b \in Bufs :
       bufSt[b] = "live" /\ refcount[b] = 0 => refcount'[b] = 0]_vars

(* A buffer whose last holder has dropped its reference is eventually     *)
(* freed by the thread whose atomic_dec_and_test saw zero.                 *)
FreedWhenUnreferenced ==
  \A b \in Bufs :
    (bufSt[b] = "live" /\ Holders(b) = 0) ~> bufSt[b] = "unused"

(* The MMAP buffers and their exports implement the abstract lifecycle:    *)
(* vb2_dc_alloc starts a buffer with one holder, mmap, vm_ops open and     *)
(* get_dmabuf only add a holder to a buffer that still has one, the puts   *)
(* of the framework, of vm_ops close and of the dma-buf release remove     *)
(* one, and the thread whose atomic_dec_and_test saw zero frees a buffer   *)
(* with no holder left.                                                    *)
LifecycleRefined == Abs!Spec

(* vb2_dc_alloc never hands out a zero-sized buffer (spec 4.2: zero size   *)
(* is rejected with InvalidArgument).                                      *)
NoZeroSizeBuffer ==
  \A b \in Bufs : bufSt[b] = "live" => bufSize[b] > 0

-----------------------------------------------------------------------------
(* The inductive strengthening of the invariants above, used by the proofs *)
(* in DcMmapProofs.  UnusedIsUnheld: a free slot has no holder.            *)
(* PointersValid: the pointers of live objects are not null.               *)
(* PendingFree: a thread whose atomic_dec_and_test saw zero owns a live    *)
(* buffer of count zero, and no other thread saw zero on it.              *)
UnusedIsUnheld ==
  \A b \in Bufs : bufSt[b] = "unused" =>
    ~fwRef[b] /\ vmas[b] = 0 /\ LiveDbufsOf(b) = {}

PointersValid ==
  /\ \A d \in DBufs : dbSt[d] = "live" => dbBuf[d] \in Bufs
  /\ \A a \in Atts : atSt[a] = "attached" => atDb[a] \in DBufs
  /\ \A t \in Threads : pc[t] = "test" => tBuf[t] \in Bufs

PendingFree ==
  \A t \in Threads : pc[t] = "test" /\ tSaw[t] =>
    /\ bufSt[tBuf[t]] = "live"
    /\ refcount[tBuf[t]] = 0
    /\ \A u \in Threads \ {t} : ~(pc[u] = "test" /\ tSaw[u] /\ tBuf[u] = tBuf[t])

IInv ==
  /\ TypeOK
  /\ PointersValid
  /\ UnusedIsUnheld
  /\ RefcountMatchesHolders
  /\ NoUseAfterFree
  /\ PendingFree
  /\ DeviceRefBalance
  /\ AttachMapBalance

=============================================================================
