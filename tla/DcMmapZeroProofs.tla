--------------------------- MODULE DcMmapZeroProofs ---------------------------
(***************************************************************************)
(* The kref rule of vb2_dc_put: once atomic_dec_and_test has brought the   *)
(* count of a live buffer to zero, no step takes or drops a count on it    *)
(* until it is freed.  It follows from the inductive invariant of          *)
(* DcMmapProofs: a live buffer's count is its number of holders, so a      *)
(* buffer at zero has no framework reference, no vma and no live dma-buf,  *)
(* and every operation that changes the count needs one of them.           *)
(***************************************************************************)
EXTENDS DcMmapProofs

(* A live buffer whose count is zero has no holder of any kind.            *)
LEMMA ZeroHasNoHolder ==
  ASSUME IInv, NEW b \in Bufs, bufSt[b] = "live", refcount[b] = 0
  PROVE  ~fwRef[b] /\ vmas[b] = 0 /\ LiveDbufsOf(b) = {}
<1>1. Cardinality(LiveDbufsOf(b)) \in Nat
      /\ (Cardinality(LiveDbufsOf(b)) = 0 <=> LiveDbufsOf(b) = {})
  BY DbufsFinite, CardNat
<1>2. vmas[b] \in Nat
  BY DEF IInv, TypeOK
<1>3. Holders(b) = 0
  BY DEF IInv, RefcountMatchesHolders
<1>4. (IF fwRef[b] THEN 1 ELSE 0) + vmas[b] + Cardinality(LiveDbufsOf(b)) = 0
  BY <1>3 DEF Holders
<1>5. /\ (IF fwRef[b] THEN 1 ELSE 0) = 0
      /\ vmas[b] = 0
      /\ Cardinality(LiveDbufsOf(b)) = 0
  BY <1>1, <1>2, <1>4
<1>6. ~fwRef[b]
  BY <1>5
<1>7. QED
  BY <1>1, <1>5, <1>6

(* The decrement of vb2_dc_put leaves every other buffer's count alone.    *)
LEMMA StartPutOther ==
  ASSUME IInv, NEW t \in Threads, NEW c \in Bufs, StartPut(t, c),
         NEW b \in Bufs, b # c
  PROVE  refcount'[b] = refcount[b]
BY DEF StartPut, IInv, TypeOK

(* A live dma-buf's buffer has it among its holders.                       *)
LEMMA LiveDbufHeld ==
  ASSUME IInv, NEW d \in DBufs, dbSt[d] = "live"
  PROVE  d \in LiveDbufsOf(dbBuf[d])
BY DEF LiveDbufsOf

(* The release of a live dma-buf does not touch a buffer at zero.          *)
LEMMA ReleaseOther ==
  ASSUME IInv, NEW t \in Threads, NEW d \in DBufs, dbSt[d] = "live",
         Release(t, d), NEW b \in Bufs, bufSt[b] = "live", refcount[b] = 0
  PROVE  refcount'[b] = 0
<1>1. dbBuf[d] \in Bufs
  BY DEF IInv, PointersValid
<1>2. dbBuf[d] # b
  BY ZeroHasNoHolder, LiveDbufHeld
<1>3. QED
  BY <1>1, <1>2, StartPutOther DEF Release

(* Every step leaves a live buffer at zero at zero.                        *)
LEMMA ZeroStep ==
  ASSUME IInv, [Next]_vars, NEW b \in Bufs, bufSt[b] = "live", refcount[b] = 0
  PROVE  refcount'[b] = 0
<1>0. ~fwRef[b] /\ vmas[b] = 0 /\ LiveDbufsOf(b) = {}
  BY ZeroHasNoHolder
<1>1. CASE \E c \in Bufs, s \in Sizes : vb2_dc_alloc(c, s)
  BY <1>1 DEF vb2_dc_alloc, IInv, TypeOK
<1>2. CASE \E t \in Threads, c \in Bufs : FrameworkPut(t, c) \/ VmClose(t, c)
  <2>1. PICK t \in Threads, c \in Bufs : FrameworkPut(t, c) \/ VmClose(t, c)
    BY <1>2
  <2>2. c # b /\ StartPut(t, c)
    BY <1>0, <2>1 DEF FrameworkPut, VmClose
  <2>3. QED
    BY <2>2, StartPutOther
<1>3. CASE \E c \in Bufs : vb2_dc_mmap(c) \/ VmOpen(c) \/ GetDmabufExportFails(c)
  <2>1. PICK c \in Bufs : vb2_dc_mmap(c) \/ VmOpen(c) \/ GetDmabufExportFails(c)
    BY <1>3
  <2>2. CASE vb2_dc_mmap(c) \/ VmOpen(c)
    <3>1. c # b
      BY <1>0, <2>2 DEF vb2_dc_mmap, VmOpen
    <3>2. QED
      BY <2>2, <3>1 DEF vb2_dc_mmap, VmOpen, IInv, TypeOK
  <2>3. CASE GetDmabufExportFails(c)
    BY <2>3 DEF GetDmabufExportFails
  <2>4. QED
    BY <2>1, <2>2, <2>3
<1>4. CASE \E c \in Bufs, d \in DBufs : vb2_dc_get_dmabuf(c, d)
  <2>1. PICK c \in Bufs, d \in DBufs : vb2_dc_get_dmabuf(c, d)
    BY <1>4
  <2>2. c # b
    BY <1>0, <2>1 DEF vb2_dc_get_dmabuf
  <2>3. QED
    BY <2>1, <2>2 DEF vb2_dc_get_dmabuf, IncRef, IInv, TypeOK
<1>5. CASE \E t \in Threads, d \in DBufs : CloseDmabufFd(t, d)
  <2>1. PICK t \in Threads, d \in DBufs : CloseDmabufFd(t, d)
    BY <1>5
  <2>2. CASE AttsOf(d) = {} /\ Release(t, d)
    BY <2>1, <2>2, ReleaseOther DEF CloseDmabufFd
  <2>3. CASE AttsOf(d) # {} /\ UNCHANGED <<dbSt, dbBuf, refcount, thVars>>
    BY <2>3
  <2>4. QED
    BY <2>1, <2>2, <2>3 DEF CloseDmabufFd
<1>6. CASE \E a \in Atts, d \in DBufs : vb2_dc_dmabuf_ops_attach(a, d)
  BY <1>6 DEF vb2_dc_dmabuf_ops_attach, bufVars
<1>7. CASE \E a \in Atts, dir \in Dirs, ok \in BOOLEAN : vb2_dc_dmabuf_ops_map(a, dir, ok)
  BY <1>7 DEF vb2_dc_dmabuf_ops_map, bufVars
<1>8. CASE \E t \in Threads, a \in Atts : vb2_dc_dmabuf_ops_detach(t, a)
  <2>1. PICK t \in Threads, a \in Atts : vb2_dc_dmabuf_ops_detach(t, a)
    BY <1>8
  <2>2. atDb[a] \in DBufs /\ dbSt[atDb[a]] = "live"
    BY <2>1 DEF vb2_dc_dmabuf_ops_detach, IInv, PointersValid, NoUseAfterFree
  <2>3. CASE ~dbFd[atDb[a]] /\ AttsOf(atDb[a]) = {a} /\ Release(t, atDb[a])
    BY <2>2, <2>3, ReleaseOther
  <2>4. CASE ~(~dbFd[atDb[a]] /\ AttsOf(atDb[a]) = {a})
             /\ UNCHANGED <<dbSt, dbBuf, refcount, thVars>>
    BY <2>4
  <2>5. QED
    BY <2>1, <2>3, <2>4 DEF vb2_dc_dmabuf_ops_detach
<1>9. CASE \E t \in Threads : PutReturn(t) \/ PutFree(t)
  BY <1>9 DEF PutReturn, PutFree, bufVars
<1>10. CASE UNCHANGED vars
  BY <1>10 DEF vars, bufVars
<1>11. QED
  BY <1>1, <1>2, <1>3, <1>4, <1>5, <1>6, <1>7, <1>8, <1>9, <1>10 DEF Next

(* NoRefAfterZero: for any number of buffers, dma-bufs, attachments and    *)
(* threads, no mmap, vm_ops open, export or put ever changes the count of  *)
(* a live buffer that has reached zero, so the thread that saw zero in     *)
(* vb2_dc_put tears down a buffer nobody can reach any more.               *)
THEOREM NoRefAfterZeroProved == Spec => NoRefAfterZero
<1>1. IInv /\ [Next]_vars =>
        [\A b \in Bufs : bufSt[b] = "live" /\ refcount[b] = 0 => refcount'[b] = 0]_vars
  BY ZeroStep
<1>2. QED
  BY <1>1, IInvHolds, PTL DEF Spec, NoRefAfterZero

=============================================================================
