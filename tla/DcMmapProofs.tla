---------------------------- MODULE DcMmapProofs ----------------------------
(***************************************************************************)
(* Proofs that the MMAP buffer model keeps its invariants for every        *)
(* number of buffers, dma-bufs, attachments and threads.                   *)
(*                                                                         *)
(* None of TypeOK, RefcountMatchesHolders, DeviceRefBalance alone is       *)
(* inductive: a put may only decrement a count that has a holder, and a    *)
(* free may only drop a device reference of a live buffer.  IInv adds what *)
(* makes the step go through: a free slot has no holder, the pointers of   *)
(* live objects are not null, and a thread that saw zero owns a live      *)
(* buffer of count zero that no other thread saw zero on.                  *)
(***************************************************************************)
EXTENDS DcMmap, FiniteSetTheorems, TLAPS

LiveBufs == {b \in Bufs : bufSt[b] = "live"}

-----------------------------------------------------------------------------
(* Facts about finite sets used by every counting step.                    *)

LEMMA CardPlus ==
  ASSUME NEW S, NEW x, IsFiniteSet(S), x \notin S
  PROVE  /\ IsFiniteSet(S \cup {x})
         /\ Cardinality(S \cup {x}) = Cardinality(S) + 1
BY FS_AddElement

LEMMA CardMinus ==
  ASSUME NEW S, NEW x, IsFiniteSet(S), x \in S
  PROVE  /\ IsFiniteSet(S \ {x})
         /\ Cardinality(S \ {x}) = Cardinality(S) - 1
         /\ Cardinality(S) \in Nat \ {0}
BY FS_RemoveElement, FS_CardinalityType, FS_EmptySet

LEMMA CardNat ==
  ASSUME NEW S, IsFiniteSet(S)
  PROVE  /\ Cardinality(S) \in Nat
         /\ Cardinality(S) = 0 <=> S = {}
BY FS_CardinalityType, FS_EmptySet

LEMMA DbufsFinite ==
  ASSUME NEW b
  PROVE  /\ IsFiniteSet(LiveDbufsOf(b))
         /\ IsFiniteSet(LiveDbufsOf(b))'
BY DcMmapAssumption, FS_Subset DEF LiveDbufsOf

LEMMA LiveFinite ==
  IsFiniteSet(LiveBufs) /\ IsFiniteSet(LiveBufs')
BY DcMmapAssumption, FS_Subset DEF LiveBufs

-----------------------------------------------------------------------------
(* A step of the detailed module seen through the refinement mapping: a   *)
(* step of the abstract lifecycle or a stutter of it.                      *)
AbsStep == [Abs!Next]_Abs!vars

(* The abstract step each kind of detailed step maps to.                   *)
LEMMA AbsStutter ==
  ASSUME bufSt' = bufSt, \A x \in Bufs : Holders(x)' = Holders(x)
  PROVE  AbsStep
BY DEF AbsStep, Abs!vars

LEMMA AbsAlloc ==
  ASSUME NEW b \in Bufs, bufSt \in [Bufs -> {"unused", "live"}],
         bufSt[b] # "live",
         bufSt' = [bufSt EXCEPT ![b] = "live"], Holders(b)' = 1,
         \A x \in Bufs \ {b} : Holders(x)' = Holders(x)
  PROVE  AbsStep
<1>1. Abs!Alloc(b)
  BY Zenon DEF Abs!Alloc
<1>2. QED
  BY <1>1 DEF AbsStep, Abs!Next

LEMMA AbsAcquire ==
  ASSUME NEW b \in Bufs, bufSt \in [Bufs -> {"unused", "live"}],
         bufSt[b] = "live", bufSt' = bufSt,
         Holders(b) \in Nat, Holders(b) >= 1, Holders(b)' = Holders(b) + 1,
         \A x \in Bufs \ {b} : Holders(x)' = Holders(x)
  PROVE  AbsStep
<1>1. [x \in Bufs |-> Holders(x)]' = [x \in Bufs |-> Holders(x)']
  OBVIOUS
<1>2. [x \in Bufs |-> Holders(x)'] = [[x \in Bufs |-> Holders(x)] EXCEPT ![b] = @ + 1]
  BY Zenon
<1>3. [x \in Bufs |-> bufSt[x] = "live"]' = [x \in Bufs |-> bufSt[x] = "live"]
  OBVIOUS
<1>4. [x \in Bufs |-> bufSt[x] = "live"][b]
  BY Zenon
<1>5. [x \in Bufs |-> Holders(x)][b] > 0
  OBVIOUS
<1>6. Abs!Acquire(b)
  BY <1>1, <1>2, <1>3, <1>4, <1>5 DEF Abs!Acquire
<1>7. QED
  BY <1>6 DEF AbsStep, Abs!Next

LEMMA AbsDrop ==
  ASSUME NEW b \in Bufs, bufSt \in [Bufs -> {"unused", "live"}],
         bufSt' = bufSt,
         Holders(b) \in Nat, Holders(b) >= 1, Holders(b)' = Holders(b) - 1,
         \A x \in Bufs \ {b} : Holders(x)' = Holders(x)
  PROVE  AbsStep
<1>1. [x \in Bufs |-> Holders(x)]' = [x \in Bufs |-> Holders(x)']
  OBVIOUS
<1>2. [x \in Bufs |-> Holders(x)'] = [[x \in Bufs |-> Holders(x)] EXCEPT ![b] = @ - 1]
  BY Zenon
<1>3. [x \in Bufs |-> bufSt[x] = "live"]' = [x \in Bufs |-> bufSt[x] = "live"]
  OBVIOUS
<1>4. Abs!Drop(b)
  BY <1>1, <1>2, <1>3 DEF Abs!Drop
<1>5. QED
  BY <1>4 DEF AbsStep, Abs!Next

LEMMA AbsFree ==
  ASSUME NEW b \in Bufs, bufSt \in [Bufs -> {"unused", "live"}],
         bufSt[b] = "live", Holders(b) = 0,
         bufSt' = [bufSt EXCEPT ![b] = "unused"],
         \A x \in Bufs : Holders(x)' = Holders(x)
  PROVE  AbsStep
<1>1. Abs!Free(b)
  BY Zenon DEF Abs!Free
<1>2. QED
  BY <1>1 DEF AbsStep, Abs!Next

LEMMA AbsInit == Init => Abs!Init
<1> SUFFICES ASSUME Init PROVE Abs!Init
  OBVIOUS
<1>1. \A b \in Bufs : Holders(b) = 0
  <2>1. \A b \in Bufs : LiveDbufsOf(b) = {}
    BY DEF Init, LiveDbufsOf
  <2>2. \A b \in Bufs : Cardinality(LiveDbufsOf(b)) = 0
    BY <2>1, FS_EmptySet
  <2>3. QED
    BY <2>2 DEF Init, Holders
<1>2. [b \in Bufs |-> bufSt[b] = "live"] = [b \in Bufs |-> FALSE]
  BY Zenon DEF Init
<1>3. QED
  BY <1>1, <1>2, Zenon DEF Abs!Init

-----------------------------------------------------------------------------
LEMMA InitIInv == Init => IInv
<1> SUFFICES ASSUME Init PROVE IInv
  OBVIOUS
<1>1. \A b \in Bufs : LiveDbufsOf(b) = {}
  BY DEF Init, LiveDbufsOf
<1>2. LiveBufs = {}
  BY DEF Init, LiveBufs
<1>3. RefcountMatchesHolders /\ DeviceRefBalance
  BY <1>2, FS_EmptySet, Zenon DEF Init, RefcountMatchesHolders, DeviceRefBalance, LiveBufs
<1>4. QED
  BY <1>1, <1>3, DcMmapAssumption
  DEF Init, IInv, TypeOK, PointersValid, UnusedIsUnheld, NoUseAfterFree,
      PendingFree, AttachMapBalance

-----------------------------------------------------------------------------
LEMMA AllocStep ==
  ASSUME IInv, NEW b \in Bufs, NEW s \in Sizes, vb2_dc_alloc(b, s)
  PROVE  IInv' /\ AbsStep
<1> USE DcMmapAssumption DEF vb2_dc_alloc, dbVars, atVars, thVars
<1>1. TypeOK'
  BY DEF IInv, TypeOK
<1>2. PointersValid'
  BY DEF IInv, PointersValid
<1>3. UnusedIsUnheld'
  BY DEF IInv, TypeOK, UnusedIsUnheld, LiveDbufsOf
<1>4. /\ Holders(b)' = 1
      /\ \A x \in Bufs \ {b} : Holders(x)' = Holders(x)
      /\ RefcountMatchesHolders'
  <2>1. LiveDbufsOf(b)' = {}
    BY DEF IInv, UnusedIsUnheld, LiveDbufsOf
  <2>2. Holders(b)' = 1
    BY <2>1, FS_EmptySet DEF IInv, TypeOK, UnusedIsUnheld, Holders
  <2>3. \A x \in Bufs \ {b} : Holders(x)' = Holders(x)
    BY DEF IInv, TypeOK, Holders, LiveDbufsOf
  <2>4. RefcountMatchesHolders'
    BY <2>2, <2>3 DEF IInv, TypeOK, RefcountMatchesHolders
  <2>5. QED
    BY <2>2, <2>3, <2>4
<1>5. NoUseAfterFree'
  BY DEF IInv, TypeOK, NoUseAfterFree
<1>6. PendingFree'
  BY DEF IInv, TypeOK, PendingFree, PointersValid
<1>7. DeviceRefBalance'
  <2>1. LiveBufs' = LiveBufs \cup {b} /\ b \notin LiveBufs
    BY DEF IInv, TypeOK, LiveBufs
  <2>2. QED
    BY <2>1, LiveFinite, CardPlus, Zenon DEF IInv, DeviceRefBalance, LiveBufs
<1>8. AttachMapBalance'
  BY DEF IInv, AttachMapBalance
<1>9. AbsStep
  BY <1>4, AbsAlloc, Zenon DEF IInv, TypeOK
<1>10. QED
  BY <1>1, <1>2, <1>3, <1>4, <1>5, <1>6, <1>7, <1>8, <1>9 DEF IInv

-----------------------------------------------------------------------------
(* The decrement of vb2_dc_put, by an idle thread on a live buffer with a  *)
(* holder, keeps the thread fields typed and PendingFree: a thread that    *)
(* sees zero is the only one, since any other would have left the count    *)
(* at zero with no holder to drop.                                         *)
LEMMA StartPutStep ==
  ASSUME IInv, NEW t \in Threads, NEW b \in Bufs, pc[t] = "idle",
         bufSt[b] = "live", refcount[b] >= 1, StartPut(t, b),
         UNCHANGED bufSt
  PROVE  /\ refcount' \in [Bufs -> Nat]
         /\ pc' \in [Threads -> {"idle", "test"}]
         /\ tBuf' \in [Threads -> Bufs \cup {NoBuf}]
         /\ tSaw' \in [Threads -> BOOLEAN]
         /\ \A u \in Threads : pc'[u] = "test" => tBuf'[u] \in Bufs
         /\ PendingFree'
<1> USE DEF StartPut
<1>1. refcount' \in [Bufs -> Nat]
  BY DEF IInv, TypeOK
<1>2. /\ pc' \in [Threads -> {"idle", "test"}]
      /\ tBuf' \in [Threads -> Bufs \cup {NoBuf}]
      /\ tSaw' \in [Threads -> BOOLEAN]
      /\ \A u \in Threads : pc'[u] = "test" => tBuf'[u] \in Bufs
  BY DEF IInv, TypeOK, PointersValid, DecAndTest
<1>3. PendingFree'
  <2> SUFFICES ASSUME NEW u \in Threads, pc'[u] = "test", tSaw'[u]
               PROVE  /\ bufSt'[tBuf'[u]] = "live"
                      /\ refcount'[tBuf'[u]] = 0
                      /\ \A v \in Threads \ {u} :
                           ~(pc'[v] = "test" /\ tSaw'[v] /\ tBuf'[v] = tBuf'[u])
    BY DEF PendingFree
  <2>1. \A v \in Threads : pc[v] = "test" /\ tSaw[v] => tBuf[v] # b
    BY DEF IInv, PendingFree
  <2>2. CASE u = t
    <3>1. tBuf'[u] = b /\ refcount[b] = 1
      <4>1. tBuf'[u] = b /\ tSaw'[u] = DecAndTest(b)
        BY <2>2 DEF IInv, TypeOK
      <4>2. refcount[b] \in Nat
        BY DEF IInv, TypeOK
      <4>3. refcount[b] - 1 = 0
        BY <4>1, Zenon DEF DecAndTest
      <4>4. QED
        BY <4>1, <4>2, <4>3
    <3>2. bufSt'[b] = "live" /\ refcount'[b] = 0
      BY <3>1 DEF IInv, TypeOK
    <3>3. \A v \in Threads \ {u} :
            pc'[v] = pc[v] /\ tSaw'[v] = tSaw[v] /\ tBuf'[v] = tBuf[v]
      BY <2>2 DEF IInv, TypeOK
    <3>4. QED
      BY <2>1, <3>1, <3>2, <3>3
  <2>3. CASE u # t
    BY <2>1, <2>3 DEF IInv, TypeOK, PendingFree, PointersValid
  <2>4. QED
    BY <2>2, <2>3
<1>4. QED
  BY <1>1, <1>2, <1>3

(* The holders of the other buffers do not change when only b's do.        *)
LEMMA OtherHolders ==
  ASSUME TypeOK, NEW b \in Bufs, NEW x \in Bufs, x # b,
         fwRef'[x] = fwRef[x], vmas'[x] = vmas[x],
         LiveDbufsOf(x)' = LiveDbufsOf(x)
  PROVE  Holders(x)' = Holders(x)
BY DEF Holders

LEMMA FrameworkPutStep ==
  ASSUME IInv, NEW t \in Threads, NEW b \in Bufs, FrameworkPut(t, b)
  PROVE  IInv' /\ AbsStep
<1> USE DEF FrameworkPut, dbVars, atVars
<1>1. bufSt[b] = "live" /\ Holders(b) >= 1 /\ refcount[b] = Holders(b)
  BY DbufsFinite, CardNat DEF IInv, NoUseAfterFree, RefcountMatchesHolders, Holders, TypeOK
<1>2. Holders(b)' = Holders(b) - 1
  <2>1. LiveDbufsOf(b)' = LiveDbufsOf(b)
    BY DEF LiveDbufsOf
  <2>2. Cardinality(LiveDbufsOf(b)) \in Nat
    BY DbufsFinite, CardNat
  <2>3. QED
    BY <2>1, <2>2 DEF IInv, TypeOK, Holders
<1>3. \A x \in Bufs \ {b} : Holders(x)' = Holders(x)
  BY OtherHolders, Zenon DEF IInv, TypeOK, LiveDbufsOf
<1>4. /\ refcount' \in [Bufs -> Nat]
      /\ pc' \in [Threads -> {"idle", "test"}]
      /\ tBuf' \in [Threads -> Bufs \cup {NoBuf}]
      /\ tSaw' \in [Threads -> BOOLEAN]
      /\ \A u \in Threads : pc'[u] = "test" => tBuf'[u] \in Bufs
      /\ PendingFree'
  BY <1>1, StartPutStep
<1>5. TypeOK'
  BY <1>4, Zenon DEF IInv, TypeOK
<1>6. PointersValid' /\ UnusedIsUnheld' /\ NoUseAfterFree'
  BY <1>4 DEF IInv, TypeOK, PointersValid, UnusedIsUnheld, NoUseAfterFree, LiveDbufsOf
<1>7. RefcountMatchesHolders'
  BY <1>1, <1>2, <1>3 DEF IInv, TypeOK, RefcountMatchesHolders, StartPut
<1>8. DeviceRefBalance' /\ AttachMapBalance'
  BY Zenon DEF IInv, DeviceRefBalance, AttachMapBalance
<1>9. AbsStep
  BY <1>1, <1>2, <1>3, AbsDrop DEF IInv, TypeOK
<1>10. QED
  BY <1>4, <1>5, <1>6, <1>7, <1>8, <1>9 DEF IInv

LEMMA VmCloseStep ==
  ASSUME IInv, NEW t \in Threads, NEW b \in Bufs, VmClose(t, b)
  PROVE  IInv' /\ AbsStep
<1> USE DEF VmClose, dbVars, atVars
<1>1. bufSt[b] = "live" /\ Holders(b) >= 1 /\ refcount[b] = Holders(b)
  BY DbufsFinite, CardNat DEF IInv, NoUseAfterFree, RefcountMatchesHolders, Holders, TypeOK
<1>2. Holders(b)' = Holders(b) - 1
  <2>1. LiveDbufsOf(b)' = LiveDbufsOf(b)
    BY DEF LiveDbufsOf
  <2>2. Cardinality(LiveDbufsOf(b)) \in Nat
    BY DbufsFinite, CardNat
  <2>3. QED
    BY <2>1, <2>2 DEF IInv, TypeOK, Holders
<1>3. \A x \in Bufs \ {b} : Holders(x)' = Holders(x)
  BY OtherHolders DEF IInv, TypeOK, LiveDbufsOf
<1>4. /\ refcount' \in [Bufs -> Nat]
      /\ pc' \in [Threads -> {"idle", "test"}]
      /\ tBuf' \in [Threads -> Bufs \cup {NoBuf}]
      /\ tSaw' \in [Threads -> BOOLEAN]
      /\ \A u \in Threads : pc'[u] = "test" => tBuf'[u] \in Bufs
      /\ PendingFree'
  BY <1>1, StartPutStep, Zenon
<1>5. TypeOK'
  <2>1. vmas' \in [Bufs -> 0..MaxVmas]
    BY DcMmapAssumption DEF IInv, TypeOK
  <2>2. QED
    BY <1>4, <2>1 DEF IInv, TypeOK
<1>6. PointersValid' /\ UnusedIsUnheld' /\ NoUseAfterFree'
  BY <1>4 DEF IInv, TypeOK, PointersValid, UnusedIsUnheld, NoUseAfterFree, LiveDbufsOf
<1>7. RefcountMatchesHolders'
  BY <1>1, <1>2, <1>3 DEF IInv, TypeOK, RefcountMatchesHolders, StartPut
<1>8. DeviceRefBalance' /\ AttachMapBalance'
  BY Zenon DEF IInv, DeviceRefBalance, AttachMapBalance
<1>9. AbsStep
  BY <1>1, <1>2, <1>3, AbsDrop DEF IInv, TypeOK
<1>10. QED
  BY <1>4, <1>5, <1>6, <1>7, <1>8, <1>9 DEF IInv

LEMMA PutReturnStep ==
  ASSUME IInv, NEW t \in Threads, PutReturn(t)
  PROVE  IInv' /\ AbsStep
<1> USE DEF PutReturn, bufVars, dbVars, atVars
<1>1. TypeOK' /\ PointersValid'
  BY DEF IInv, TypeOK, PointersValid
<1>2. UnusedIsUnheld' /\ RefcountMatchesHolders' /\ NoUseAfterFree'
  <2>1. UnusedIsUnheld'
    BY DEF IInv, UnusedIsUnheld, LiveDbufsOf
  <2>2. \A x \in Bufs : Holders(x)' = Holders(x)
    BY DEF Holders, LiveDbufsOf
  <2>3. RefcountMatchesHolders'
    BY <2>2 DEF IInv, RefcountMatchesHolders
  <2>4. NoUseAfterFree'
    BY Zenon DEF IInv, NoUseAfterFree
  <2>5. QED
    BY <2>1, <2>3, <2>4
<1>3. PendingFree'
  BY DEF IInv, TypeOK, PendingFree
<1>4. DeviceRefBalance' /\ AttachMapBalance'
  BY DEF IInv, DeviceRefBalance, AttachMapBalance, LiveBufs
<1>5. AbsStep
  BY AbsStutter DEF Holders, LiveDbufsOf
<1>6. QED
  BY <1>1, <1>2, <1>3, <1>4, <1>5 DEF IInv

(* The thread that saw zero frees a buffer no one holds, and it is the     *)
(* only thread that will.                                                  *)
LEMMA PutFreeStep ==
  ASSUME IInv, NEW t \in Threads, PutFree(t)
  PROVE  IInv' /\ AbsStep
<1> DEFINE b == tBuf[t]
<1> USE DEF PutFree, dbVars, atVars
<1>1. b \in Bufs /\ bufSt[b] = "live" /\ refcount[b] = 0
  BY DEF IInv, PointersValid, PendingFree, Observed
<1>2. ~fwRef[b] /\ vmas[b] = 0 /\ LiveDbufsOf(b) = {}
  <2>1. Holders(b) = 0
    BY <1>1 DEF IInv, RefcountMatchesHolders
  <2>2. Cardinality(LiveDbufsOf(b)) \in Nat
    BY DbufsFinite, CardNat
  <2>3. ~fwRef[b] /\ vmas[b] = 0 /\ Cardinality(LiveDbufsOf(b)) = 0
    BY <1>1, <2>1, <2>2 DEF IInv, TypeOK, Holders
  <2>4. QED
    BY <2>3, DbufsFinite, CardNat
<1>3. \A u \in Threads \ {t} : pc[u] = "test" /\ tSaw[u] => tBuf[u] # b
  BY Zenon DEF IInv, PendingFree, Observed
<1>4. LiveBufs' = LiveBufs \ {b} /\ b \in LiveBufs
  BY <1>1 DEF IInv, TypeOK, LiveBufs
<1>5. devRefs \in Nat \ {0} /\ devRefs' = Cardinality(LiveBufs')
  BY <1>4, LiveFinite, CardMinus DEF IInv, DeviceRefBalance, LiveBufs
<1>6. TypeOK' /\ PointersValid'
  BY <1>1, <1>5 DEF IInv, TypeOK, PointersValid
<1>7. UnusedIsUnheld' /\ RefcountMatchesHolders'
  BY <1>1, <1>2 DEF IInv, TypeOK, UnusedIsUnheld, RefcountMatchesHolders,
                    Holders, LiveDbufsOf
<1>8. NoUseAfterFree'
  BY <1>1, <1>2 DEF IInv, TypeOK, NoUseAfterFree, LiveDbufsOf
<1>9. PendingFree'
  BY <1>1, <1>3 DEF IInv, TypeOK, PendingFree
<1>10. DeviceRefBalance' /\ AttachMapBalance'
  BY <1>5, Zenon DEF IInv, DeviceRefBalance, AttachMapBalance, LiveBufs
<1>11. AbsStep
  <2>1. Holders(b) = 0
    BY <1>1 DEF IInv, RefcountMatchesHolders
  <2>2. \A x \in Bufs : Holders(x)' = Holders(x)
    BY Zenon DEF Holders, LiveDbufsOf
  <2>3. QED
    BY <1>1, <2>1, <2>2, AbsFree, Zenon DEF IInv, TypeOK
<1>12. QED
  BY <1>6, <1>7, <1>8, <1>9, <1>10, <1>11 DEF IInv

(* A new vma (vb2_dc_mmap, or vm_ops->open on a copy) adds a holder and    *)
(* a count together.                                                       *)
LEMMA VmaAddStep ==
  ASSUME IInv, NEW b \in Bufs, bufSt[b] = "live", Holders(b) >= 1,
         vmas[b] < MaxVmas,
         vmas' = [vmas EXCEPT ![b] = @ + 1],
         refcount' = [refcount EXCEPT ![b] = @ + 1],
         UNCHANGED <<bufSt, bufSize, sgtBase, fwRef, devRefs, dbVars, atVars,
                     thVars>>
  PROVE  IInv' /\ AbsStep
<1> USE DEF dbVars, atVars, thVars
<1>1. TypeOK' /\ PointersValid'
  BY DcMmapAssumption DEF IInv, TypeOK, PointersValid
<1>2. \A x \in Bufs : LiveDbufsOf(x)' = LiveDbufsOf(x)
  BY Zenon DEF LiveDbufsOf
<1>3. RefcountMatchesHolders'
  <2>1. \A x \in Bufs : Cardinality(LiveDbufsOf(x)) \in Nat
    BY DbufsFinite, CardNat
  <2>2. QED
    BY <1>2, <2>1 DEF IInv, TypeOK, RefcountMatchesHolders, Holders
<1>4. UnusedIsUnheld' /\ NoUseAfterFree'
  BY <1>2 DEF IInv, TypeOK, UnusedIsUnheld, NoUseAfterFree
<1>5. PendingFree'
  <2>1. refcount[b] >= 1
    BY DEF IInv, RefcountMatchesHolders
  <2>2. \A u \in Threads : pc[u] = "test" /\ tSaw[u] => tBuf[u] # b
    BY <2>1 DEF IInv, PendingFree
  <2>3. QED
    BY <2>2 DEF IInv, TypeOK, PendingFree
<1>6. DeviceRefBalance' /\ AttachMapBalance'
  BY DEF IInv, DeviceRefBalance, AttachMapBalance
<1>7. AbsStep
  <2>1. \A x \in Bufs : Cardinality(LiveDbufsOf(x)) \in Nat
    BY DbufsFinite, CardNat
  <2>2. /\ Holders(b) \in Nat
        /\ Holders(b)' = Holders(b) + 1
        /\ \A x \in Bufs \ {b} : Holders(x)' = Holders(x)
    BY <1>2, <2>1 DEF IInv, TypeOK, Holders
  <2>3. QED
    BY <2>2, AbsAcquire DEF IInv, TypeOK
<1>8. QED
  BY <1>1, <1>3, <1>4, <1>5, <1>6, <1>7 DEF IInv

LEMMA MmapStep ==
  ASSUME IInv, NEW b \in Bufs, vb2_dc_mmap(b)
  PROVE  IInv' /\ AbsStep
<1>1. Holders(b) >= 1
  <2>1. CASE fwRef[b]
    BY <2>1, DbufsFinite, CardNat DEF IInv, TypeOK, Holders
  <2>2. CASE \E d \in LiveDbufsOf(b) : dbFd[d]
    <3>1. LiveDbufsOf(b) # {}
      BY <2>2
    <3>2. Cardinality(LiveDbufsOf(b)) \in Nat \ {0}
      BY <3>1, DbufsFinite, CardNat
    <3>3. QED
      BY <3>2 DEF IInv, TypeOK, Holders
  <2>3. QED
    BY <2>1, <2>2 DEF vb2_dc_mmap
<1>2. QED
  BY <1>1, VmaAddStep, Zenon DEF vb2_dc_mmap

LEMMA VmOpenStep ==
  ASSUME IInv, NEW b \in Bufs, VmOpen(b)
  PROVE  IInv' /\ AbsStep
<1>1. bufSt[b] = "live" /\ Holders(b) >= 1
  BY DbufsFinite, CardNat DEF VmOpen, IInv, TypeOK, NoUseAfterFree, Holders
<1>2. QED
  BY <1>1, VmaAddStep, Zenon DEF VmOpen

LEMMA ExportFailsStep ==
  ASSUME IInv, NEW b \in Bufs, GetDmabufExportFails(b)
  PROVE  IInv' /\ AbsStep
<1> USE DEF GetDmabufExportFails, dbVars, atVars, thVars
<1>1. TypeOK' /\ PointersValid' /\ PendingFree'
  BY DEF IInv, TypeOK, PointersValid, PendingFree
<1>2. UnusedIsUnheld' /\ RefcountMatchesHolders' /\ NoUseAfterFree'
  <2>1. UnusedIsUnheld'
    BY DEF IInv, UnusedIsUnheld, LiveDbufsOf
  <2>2. \A x \in Bufs : Holders(x)' = Holders(x)
    BY DEF Holders, LiveDbufsOf
  <2>3. RefcountMatchesHolders'
    BY <2>2 DEF IInv, RefcountMatchesHolders
  <2>4. NoUseAfterFree'
    BY DEF IInv, TypeOK, NoUseAfterFree
  <2>5. QED
    BY <2>1, <2>3, <2>4
<1>3. DeviceRefBalance' /\ AttachMapBalance'
  BY DEF IInv, DeviceRefBalance, AttachMapBalance, LiveBufs
<1>4. AbsStep
  BY AbsStutter DEF Holders, LiveDbufsOf
<1>5. QED
  BY <1>1, <1>2, <1>3, <1>4 DEF IInv

(* An export adds the new dma-buf to the buffer's holders and one to its   *)
(* count.                                                                  *)
LEMMA GetDmabufStep ==
  ASSUME IInv, NEW b \in Bufs, NEW d \in DBufs, vb2_dc_get_dmabuf(b, d)
  PROVE  IInv' /\ AbsStep
<1> USE DEF vb2_dc_get_dmabuf, IncRef, atVars, thVars
<1>1. bufSt[b] = "live" /\ d \notin LiveDbufsOf(b)
  BY DEF IInv, NoUseAfterFree, LiveDbufsOf
<1>2. LiveDbufsOf(b)' = LiveDbufsOf(b) \cup {d}
  BY DEF IInv, TypeOK, LiveDbufsOf
<1>3. \A x \in Bufs \ {b} : LiveDbufsOf(x)' = LiveDbufsOf(x)
  BY DEF IInv, TypeOK, LiveDbufsOf
<1>4. Holders(b)' = Holders(b) + 1
  <2>1. Cardinality(LiveDbufsOf(b)') = Cardinality(LiveDbufsOf(b)) + 1
    BY <1>1, <1>2, DbufsFinite, CardPlus, Zenon
  <2>2. Cardinality(LiveDbufsOf(b)) \in Nat
    BY DbufsFinite, CardNat
  <2>3. QED
    BY <2>1, <2>2 DEF IInv, TypeOK, Holders
<1>5. \A x \in Bufs \ {b} : Holders(x)' = Holders(x)
  BY <1>3, OtherHolders DEF IInv
<1>6. TypeOK' /\ PointersValid'
  <2>1. refcount' \in [Bufs -> Nat]
    BY DEF IInv, TypeOK
  <2>2. /\ sgtBase' \in [Bufs -> BOOLEAN]
        /\ dbSt' \in [DBufs -> {"unused", "live"}]
        /\ dbBuf' \in [DBufs -> Bufs \cup {NoBuf}]
        /\ dbFd' \in [DBufs -> BOOLEAN]
    BY DEF IInv, TypeOK
  <2>3. TypeOK'
    BY <2>1, <2>2 DEF IInv, TypeOK
  <2>4. PointersValid'
    BY DEF IInv, TypeOK, PointersValid
  <2>5. QED
    BY <2>3, <2>4
<1>7. RefcountMatchesHolders'
  BY <1>4, <1>5 DEF IInv, TypeOK, RefcountMatchesHolders
<1>8. UnusedIsUnheld'
  BY <1>1, <1>3 DEF IInv, TypeOK, UnusedIsUnheld
<1>9. NoUseAfterFree'
  <2>1. \A x \in Bufs : (fwRef'[x] \/ vmas'[x] > 0) => bufSt'[x] = "live"
    BY DEF IInv, NoUseAfterFree
  <2>2. \A e \in DBufs : dbSt'[e] = "live" =>
                          bufSt'[dbBuf'[e]] = "live" /\ sgtBase'[dbBuf'[e]]
    <3> SUFFICES ASSUME NEW e \in DBufs, dbSt'[e] = "live"
                 PROVE  bufSt'[dbBuf'[e]] = "live" /\ sgtBase'[dbBuf'[e]]
      OBVIOUS
    <3>1. CASE e = d
      BY <1>1, <3>1 DEF IInv, TypeOK
    <3>2. CASE e # d
      <4>1. dbSt[e] = "live" /\ dbBuf'[e] = dbBuf[e]
        BY <3>2 DEF IInv, TypeOK
      <4>2. dbBuf[e] \in Bufs
        BY <4>1 DEF IInv, PointersValid
      <4>3. QED
        BY <4>1, <4>2 DEF IInv, TypeOK, NoUseAfterFree
    <3>3. QED
      BY <3>1, <3>2
  <2>3. \A c \in Atts : atSt'[c] = "attached" => dbSt'[atDb'[c]] = "live"
    BY DEF IInv, TypeOK, NoUseAfterFree, PointersValid
  <2>4. QED
    BY <2>1, <2>2, <2>3 DEF NoUseAfterFree
<1>10. PendingFree'
  <2>1. \A u \in Threads : pc[u] = "test" /\ tSaw[u] => tBuf[u] # b
    <3>1. refcount[b] >= 1
      <4>1. Cardinality(LiveDbufsOf(b)) \in Nat
        BY DbufsFinite, CardNat
      <4>2. Holders(b) >= 1
        BY <4>1 DEF IInv, TypeOK, Holders
      <4>3. refcount[b] = Holders(b)
        BY <1>1 DEF IInv, RefcountMatchesHolders
      <4>4. QED
        BY <4>2, <4>3
    <3>2. SUFFICES ASSUME NEW u \in Threads, pc[u] = "test", tSaw[u]
                   PROVE  tBuf[u] # b
      OBVIOUS
    <3>3. refcount[tBuf[u]] = 0
      BY <3>2 DEF IInv, PendingFree
    <3>4. QED
      BY <3>1, <3>3
  <2>2. QED
    BY <2>1 DEF IInv, TypeOK, PendingFree
<1>11. DeviceRefBalance' /\ AttachMapBalance'
  BY Zenon DEF IInv, DeviceRefBalance, AttachMapBalance, LiveBufs
<1>12. AbsStep
  <2>1. Holders(b) \in Nat /\ Holders(b) >= 1
    BY DbufsFinite, CardNat DEF IInv, TypeOK, Holders
  <2>2. QED
    BY <1>1, <1>4, <1>5, <2>1, AbsAcquire DEF IInv, TypeOK
<1>13. QED
  BY <1>6, <1>7, <1>8, <1>9, <1>10, <1>11, <1>12 DEF IInv

(* The release callback of a live dma-buf removes it from its buffer's     *)
(* holders and drops one count, in the thread that dropped the last file   *)
(* reference.                                                              *)
LEMMA ReleaseStep ==
  ASSUME IInv, NEW t \in Threads, NEW d \in DBufs, pc[t] = "idle",
         dbSt[d] = "live", Release(t, d),
         UNCHANGED <<bufSt, bufSize, sgtBase, fwRef, vmas, devRefs>>
  PROVE  /\ refcount' \in [Bufs -> Nat]
         /\ pc' \in [Threads -> {"idle", "test"}]
         /\ tBuf' \in [Threads -> Bufs \cup {NoBuf}]
         /\ tSaw' \in [Threads -> BOOLEAN]
         /\ \A u \in Threads : pc'[u] = "test" => tBuf'[u] \in Bufs
         /\ PendingFree'
         /\ RefcountMatchesHolders'
         /\ dbSt' \in [DBufs -> {"unused", "live"}]
         /\ dbBuf' \in [DBufs -> Bufs \cup {NoBuf}]
         /\ dbSt'[d] = "unused"
         /\ \A e \in DBufs \ {d} : dbSt'[e] = dbSt[e] /\ dbBuf'[e] = dbBuf[e]
         /\ \A x \in Bufs : LiveDbufsOf(x)' = LiveDbufsOf(x) \ {d}
         /\ AbsStep
<1> USE DEF Release
<1>0. PICK b \in Bufs : b = dbBuf[d]
  BY Zenon DEF IInv, PointersValid
<1>1. bufSt[b] = "live" /\ d \in LiveDbufsOf(b)
  BY <1>0 DEF IInv, PointersValid, NoUseAfterFree, LiveDbufsOf
<1>2. \A x \in Bufs : LiveDbufsOf(x)' = LiveDbufsOf(x) \ {d}
  BY DEF IInv, TypeOK, LiveDbufsOf
<1>3. Holders(b)' = Holders(b) - 1 /\ Holders(b) >= 1
  <2>1. /\ Cardinality(LiveDbufsOf(b)') = Cardinality(LiveDbufsOf(b)) - 1
        /\ Cardinality(LiveDbufsOf(b)) \in Nat \ {0}
    BY <1>1, <1>2, DbufsFinite, CardMinus, Zenon
  <2>2. QED
    BY <2>1 DEF IInv, TypeOK, Holders
<1>4. \A x \in Bufs \ {b} : Holders(x)' = Holders(x)
  <2>1. \A x \in Bufs \ {b} : LiveDbufsOf(x)' = LiveDbufsOf(x)
    BY <1>0, <1>2 DEF LiveDbufsOf
  <2>2. QED
    BY <2>1, OtherHolders DEF IInv
<1>5. refcount[b] >= 1
  BY <1>1, <1>3, Zenon DEF IInv, RefcountMatchesHolders
<1>6. /\ refcount' \in [Bufs -> Nat]
      /\ pc' \in [Threads -> {"idle", "test"}]
      /\ tBuf' \in [Threads -> Bufs \cup {NoBuf}]
      /\ tSaw' \in [Threads -> BOOLEAN]
      /\ \A u \in Threads : pc'[u] = "test" => tBuf'[u] \in Bufs
      /\ PendingFree'
  BY <1>0, <1>1, <1>5, StartPutStep, Zenon
<1>7. RefcountMatchesHolders'
  BY <1>0, <1>1, <1>3, <1>4 DEF IInv, TypeOK, RefcountMatchesHolders, StartPut
<1>8. /\ dbSt' \in [DBufs -> {"unused", "live"}]
      /\ dbBuf' \in [DBufs -> Bufs \cup {NoBuf}]
      /\ dbSt'[d] = "unused"
      /\ \A e \in DBufs \ {d} : dbSt'[e] = dbSt[e] /\ dbBuf'[e] = dbBuf[e]
  BY DEF IInv, TypeOK
<1>9. AbsStep
  <2>1. Holders(b) \in Nat
    BY <1>1 DEF IInv, TypeOK, RefcountMatchesHolders
  <2>2. QED
    BY <1>3, <1>4, <2>1, AbsDrop DEF IInv, TypeOK
<1>10. QED
  BY <1>2, <1>6, <1>7, <1>8, <1>9

LEMMA CloseFdStep ==
  ASSUME IInv, NEW t \in Threads, NEW d \in DBufs, CloseDmabufFd(t, d)
  PROVE  IInv' /\ AbsStep
<1> USE DEF CloseDmabufFd, atVars
<1>1. CASE AttsOf(d) = {} /\ Release(t, d)
  <2>1. /\ refcount' \in [Bufs -> Nat]
        /\ pc' \in [Threads -> {"idle", "test"}]
        /\ tBuf' \in [Threads -> Bufs \cup {NoBuf}]
        /\ tSaw' \in [Threads -> BOOLEAN]
        /\ \A u \in Threads : pc'[u] = "test" => tBuf'[u] \in Bufs
        /\ PendingFree'
        /\ RefcountMatchesHolders'
        /\ dbSt' \in [DBufs -> {"unused", "live"}]
        /\ dbBuf' \in [DBufs -> Bufs \cup {NoBuf}]
        /\ dbSt'[d] = "unused"
        /\ \A e \in DBufs \ {d} : dbSt'[e] = dbSt[e] /\ dbBuf'[e] = dbBuf[e]
        /\ \A x \in Bufs : LiveDbufsOf(x)' = LiveDbufsOf(x) \ {d}
        /\ AbsStep
    BY <1>1, ReleaseStep, Zenon
  <2>2. \A a \in Atts : atSt[a] = "attached" => atDb[a] # d
    BY <1>1, Zenon DEF AttsOf
  <2>3. TypeOK' /\ PointersValid'
    BY <2>1, Zenon DEF IInv, TypeOK, PointersValid
  <2>4. UnusedIsUnheld' /\ NoUseAfterFree'
    <3>1. UnusedIsUnheld'
      BY <2>1, Zenon DEF IInv, UnusedIsUnheld
    <3>2. \A x \in Bufs : (fwRef'[x] \/ vmas'[x] > 0) => bufSt'[x] = "live"
      BY Zenon DEF IInv, NoUseAfterFree
    <3>3. \A e \in DBufs : dbSt'[e] = "live" =>
                            bufSt'[dbBuf'[e]] = "live" /\ sgtBase'[dbBuf'[e]]
      <4>1. SUFFICES ASSUME NEW e \in DBufs, dbSt'[e] = "live"
                     PROVE  bufSt'[dbBuf'[e]] = "live" /\ sgtBase'[dbBuf'[e]]
        OBVIOUS
      <4>2. dbSt[e] = "live" /\ dbBuf'[e] = dbBuf[e]
        BY <4>1, <2>1
      <4>3. bufSt' = bufSt /\ sgtBase' = sgtBase
        OBVIOUS
      <4>4. QED
        BY <4>2, <4>3, Zenon DEF IInv, NoUseAfterFree
    <3>4. \A c \in Atts : atSt'[c] = "attached" => dbSt'[atDb'[c]] = "live"
      <4>1. SUFFICES ASSUME NEW c \in Atts, atSt'[c] = "attached"
                     PROVE  dbSt'[atDb'[c]] = "live"
        OBVIOUS
      <4>2. atSt[c] = "attached" /\ atDb'[c] = atDb[c]
        BY <4>1
      <4>3. atDb[c] \in DBufs /\ atDb[c] # d /\ dbSt[atDb[c]] = "live"
        BY <4>2, <2>2, Zenon DEF IInv, PointersValid, NoUseAfterFree
      <4>4. QED
        BY <4>2, <4>3, <2>1, Zenon
    <3>5. QED
      BY <3>1, <3>2, <3>3, <3>4 DEF NoUseAfterFree
  <2>5. DeviceRefBalance' /\ AttachMapBalance'
    BY Zenon DEF IInv, DeviceRefBalance, AttachMapBalance, LiveBufs
  <2>6. QED
    BY <2>1, <2>3, <2>4, <2>5 DEF IInv
<1>2. CASE AttsOf(d) # {} /\ UNCHANGED <<dbSt, dbBuf, refcount, thVars>>
  <2> USE <1>2 DEF thVars
  <2>1. TypeOK' /\ PointersValid' /\ PendingFree'
    BY Zenon DEF IInv, TypeOK, PointersValid, PendingFree
  <2>2. UnusedIsUnheld' /\ RefcountMatchesHolders' /\ NoUseAfterFree'
    <3>1. UnusedIsUnheld'
      BY Zenon DEF IInv, UnusedIsUnheld, LiveDbufsOf
    <3>2. \A x \in Bufs : Holders(x)' = Holders(x)
      BY Zenon DEF Holders, LiveDbufsOf
    <3>3. RefcountMatchesHolders'
      BY <3>2 DEF IInv, RefcountMatchesHolders
    <3>4. NoUseAfterFree'
      BY Zenon DEF IInv, TypeOK, NoUseAfterFree
    <3>5. QED
      BY <3>1, <3>3, <3>4, Zenon
  <2>3. DeviceRefBalance' /\ AttachMapBalance'
    BY Zenon DEF IInv, DeviceRefBalance, AttachMapBalance, LiveBufs
  <2>4. AbsStep
    BY AbsStutter DEF Holders, LiveDbufsOf
  <2>5. QED
    BY <2>1, <2>2, <2>3, <2>4, Zenon DEF IInv
<1>3. QED
  BY <1>1, <1>2, Zenon

(* An attached attachment holds exactly the mapping its direction names, *)
(* so the release of its cached mapping leaves none.                      *)
LEMMA AttachedReleaseCache ==
  ASSUME IInv, NEW a \in Atts, atSt[a] = "attached"
  PROVE  ReleaseCache(a) = 0
<1>1. atMapped[a] = IF atDir[a] # NONE THEN 1 ELSE 0
  BY DEF IInv, AttachMapBalance
<1>2. QED
  BY <1>1 DEF ReleaseCache

LEMMA AttachStep ==
  ASSUME IInv, NEW a \in Atts, NEW d \in DBufs, vb2_dc_dmabuf_ops_attach(a, d)
  PROVE  IInv' /\ AbsStep
<1> USE DEF vb2_dc_dmabuf_ops_attach, bufVars, dbVars, thVars
<1>1. TypeOK' /\ PointersValid' /\ PendingFree'
  BY Zenon DEF IInv, TypeOK, PointersValid, PendingFree
<1>2. UnusedIsUnheld' /\ RefcountMatchesHolders' /\ NoUseAfterFree'
  <2>1. UnusedIsUnheld'
    BY Zenon DEF IInv, UnusedIsUnheld, LiveDbufsOf
  <2>2. \A x \in Bufs : Holders(x)' = Holders(x)
    BY DEF Holders, LiveDbufsOf
  <2>3. RefcountMatchesHolders'
    BY <2>2, Zenon DEF IInv, RefcountMatchesHolders
  <2>4. NoUseAfterFree'
    BY DEF IInv, TypeOK, NoUseAfterFree
  <2>5. QED
    BY <2>1, <2>3, <2>4
<1>3. DeviceRefBalance'
  BY Zenon DEF IInv, DeviceRefBalance, LiveBufs
<1>4. AttachMapBalance'
  BY DEF IInv, TypeOK, AttachMapBalance
<1>5. AbsStep
  BY AbsStutter, Zenon DEF Holders, LiveDbufsOf
<1>6. QED
  BY <1>1, <1>2, <1>3, <1>4, <1>5, Zenon DEF IInv

(* A remap undoes the cached mapping before making a new one, so an        *)
(* attachment never holds more than the mapping its direction names.       *)
LEMMA MapStep ==
  ASSUME IInv, NEW a \in Atts, NEW dir \in Dirs, NEW ok \in BOOLEAN,
         vb2_dc_dmabuf_ops_map(a, dir, ok)
  PROVE  IInv' /\ AbsStep
<1> USE DEF vb2_dc_dmabuf_ops_map, bufVars, dbVars, thVars
<1>1. ReleaseCache(a) = 0
  BY AttachedReleaseCache
<1>2. TypeOK'
  <2>1. atMapped' \in [Atts -> Nat]
    <3>1. ReleaseCache(a) + (IF ok THEN 1 ELSE 0) \in Nat
      BY <1>1
    <3>2. QED
      BY <3>1, Zenon DEF IInv, TypeOK
  <2>2. atDir' \in [Atts -> Dirs \cup {NONE}]
    BY DEF IInv, TypeOK
  <2>3. QED
    BY <2>1, <2>2, Zenon DEF IInv, TypeOK
<1>3. PointersValid' /\ PendingFree'
  BY Zenon DEF IInv, TypeOK, PointersValid, PendingFree
<1>4. UnusedIsUnheld' /\ RefcountMatchesHolders' /\ NoUseAfterFree'
  <2>1. UnusedIsUnheld'
    BY DEF IInv, UnusedIsUnheld, LiveDbufsOf
  <2>2. \A x \in Bufs : Holders(x)' = Holders(x)
    BY Zenon DEF Holders, LiveDbufsOf
  <2>3. RefcountMatchesHolders'
    BY <2>2, Zenon DEF IInv, RefcountMatchesHolders
  <2>4. NoUseAfterFree'
    BY Zenon DEF IInv, TypeOK, NoUseAfterFree
  <2>5. QED
    BY <2>1, <2>3, <2>4
<1>5. DeviceRefBalance'
  BY Zenon DEF IInv, DeviceRefBalance, LiveBufs
<1>6. AttachMapBalance'
  <2>1. dir # NONE
    BY DcMmapAssumption
  <2>2. atMapped'[a] = IF atSt'[a] = "attached" /\ atDir'[a] # NONE THEN 1 ELSE 0
    BY <1>1, <2>1 DEF IInv, TypeOK
  <2>3. \A c \in Atts \ {a} : atMapped'[c] = atMapped[c] /\ atDir'[c] = atDir[c]
    BY DEF IInv, TypeOK
  <2>4. QED
    BY <2>2, <2>3 DEF IInv, AttachMapBalance
<1>7. AbsStep
  BY AbsStutter, Zenon DEF Holders, LiveDbufsOf
<1>8. QED
  BY <1>2, <1>3, <1>4, <1>5, <1>6, <1>7, Zenon DEF IInv

LEMMA DetachStep ==
  ASSUME IInv, NEW t \in Threads, NEW a \in Atts,
         vb2_dc_dmabuf_ops_detach(t, a)
  PROVE  IInv' /\ AbsStep
<1> USE DEF vb2_dc_dmabuf_ops_detach
<1>0. PICK d \in DBufs : d = atDb[a]
  BY Zenon DEF IInv, PointersValid
<1>1. dbSt[d] = "live" /\ ReleaseCache(a) = 0
  <2>1. dbSt[d] = "live"
    BY <1>0 DEF IInv, NoUseAfterFree
  <2>2. QED
    BY <2>1, AttachedReleaseCache
<1>2. /\ atSt' \in [Atts -> {"unused", "attached"}]
      /\ atDb' \in [Atts -> DBufs \cup {NoDb}]
      /\ atDir' \in [Atts -> Dirs \cup {NONE}]
      /\ atMapped' \in [Atts -> Nat]
      /\ AttachMapBalance'
  <2>1. /\ atSt' \in [Atts -> {"unused", "attached"}]
        /\ atDb' \in [Atts -> DBufs \cup {NoDb}]
        /\ atDir' \in [Atts -> Dirs \cup {NONE}]
        /\ atMapped' \in [Atts -> Nat]
    BY <1>1 DEF IInv, TypeOK
  <2>2. atMapped'[a] = 0 /\ atSt'[a] = "unused"
    BY <1>1 DEF IInv, TypeOK
  <2>3. \A c \in Atts \ {a} :
          atMapped'[c] = atMapped[c] /\ atDir'[c] = atDir[c] /\ atSt'[c] = atSt[c]
    BY DEF IInv, TypeOK
  <2>4. QED
    BY <2>1, <2>2, <2>3 DEF IInv, AttachMapBalance
<1>3. CASE ~dbFd[d] /\ AttsOf(d) = {a} /\ Release(t, d)
  <2>1. /\ refcount' \in [Bufs -> Nat]
        /\ pc' \in [Threads -> {"idle", "test"}]
        /\ tBuf' \in [Threads -> Bufs \cup {NoBuf}]
        /\ tSaw' \in [Threads -> BOOLEAN]
        /\ \A u \in Threads : pc'[u] = "test" => tBuf'[u] \in Bufs
        /\ PendingFree'
        /\ RefcountMatchesHolders'
        /\ dbSt' \in [DBufs -> {"unused", "live"}]
        /\ dbBuf' \in [DBufs -> Bufs \cup {NoBuf}]
        /\ dbSt'[d] = "unused"
        /\ \A e \in DBufs \ {d} : dbSt'[e] = dbSt[e] /\ dbBuf'[e] = dbBuf[e]
        /\ \A x \in Bufs : LiveDbufsOf(x)' = LiveDbufsOf(x) \ {d}
        /\ AbsStep
    BY <1>0, <1>1, <1>3, ReleaseStep, Zenon
  <2>2. \A c \in Atts \ {a} : atSt[c] = "attached" => atDb[c] # d
    BY <1>3 DEF AttsOf
  <2>3. TypeOK' /\ PointersValid'
    BY <1>2, <2>1, Zenon DEF IInv, TypeOK, PointersValid
  <2>4. UnusedIsUnheld' /\ NoUseAfterFree'
    <3>1. UnusedIsUnheld'
      BY <2>1, Zenon DEF IInv, UnusedIsUnheld
    <3>2. \A x \in Bufs : (fwRef'[x] \/ vmas'[x] > 0) => bufSt'[x] = "live"
      BY Zenon DEF IInv, NoUseAfterFree
    <3>3. \A e \in DBufs : dbSt'[e] = "live" =>
                            bufSt'[dbBuf'[e]] = "live" /\ sgtBase'[dbBuf'[e]]
      <4>1. SUFFICES ASSUME NEW e \in DBufs, dbSt'[e] = "live"
                     PROVE  bufSt'[dbBuf'[e]] = "live" /\ sgtBase'[dbBuf'[e]]
        BY Zenon
      <4>2. dbSt[e] = "live" /\ dbBuf'[e] = dbBuf[e]
        BY <4>1, <2>1
      <4>3. bufSt' = bufSt /\ sgtBase' = sgtBase
        OBVIOUS
      <4>4. QED
        BY <4>2, <4>3, Zenon DEF IInv, NoUseAfterFree
    <3>4. \A c \in Atts : atSt'[c] = "attached" => dbSt'[atDb'[c]] = "live"
      <4>1. SUFFICES ASSUME NEW c \in Atts, atSt'[c] = "attached"
                     PROVE  dbSt'[atDb'[c]] = "live"
        BY Zenon
      <4>2. c # a /\ atSt[c] = "attached" /\ atDb'[c] = atDb[c]
        BY <4>1, Zenon DEF IInv, TypeOK
      <4>3. atDb[c] \in DBufs /\ atDb[c] # d /\ dbSt[atDb[c]] = "live"
        BY <4>2, <2>2, Zenon DEF IInv, PointersValid, NoUseAfterFree
      <4>4. QED
        BY <4>2, <4>3, <2>1, Zenon
    <3>5. QED
      BY <3>1, <3>2, <3>3, <3>4, Zenon DEF NoUseAfterFree
  <2>5. DeviceRefBalance'
    BY DEF IInv, DeviceRefBalance, LiveBufs
  <2>6. QED
    BY <1>2, <2>1, <2>3, <2>4, <2>5, Zenon DEF IInv
<1>4. CASE ~(~dbFd[d] /\ AttsOf(d) = {a}) /\ UNCHANGED <<dbSt, dbBuf, refcount, thVars>>
  <2> USE <1>4 DEF thVars
  <2>1. TypeOK' /\ PointersValid' /\ PendingFree'
    BY <1>2, Zenon DEF IInv, TypeOK, PointersValid, PendingFree
  <2>2. UnusedIsUnheld'
    BY Zenon DEF IInv, UnusedIsUnheld, LiveDbufsOf
  <2>3. \A x \in Bufs : Holders(x)' = Holders(x)
    BY Zenon DEF Holders, LiveDbufsOf
  <2>4. RefcountMatchesHolders'
    BY <2>3, Zenon DEF IInv, RefcountMatchesHolders
  <2>5. NoUseAfterFree'
    <3>1. \A x \in Bufs : (fwRef'[x] \/ vmas'[x] > 0) => bufSt'[x] = "live"
      BY DEF IInv, NoUseAfterFree
    <3>2. \A e \in DBufs : dbSt'[e] = "live" =>
                            bufSt'[dbBuf'[e]] = "live" /\ sgtBase'[dbBuf'[e]]
      BY DEF IInv, NoUseAfterFree
    <3>3. \A c \in Atts : atSt'[c] = "attached" => dbSt'[atDb'[c]] = "live"
      BY DEF IInv, TypeOK, NoUseAfterFree
    <3>4. QED
      BY <3>1, <3>2, <3>3 DEF NoUseAfterFree
  <2>6. DeviceRefBalance'
    BY Zenon DEF IInv, DeviceRefBalance, LiveBufs
  <2>7. AbsStep
    BY <2>3, AbsStutter
  <2>8. QED
    BY <1>2, <2>1, <2>2, <2>4, <2>5, <2>6, <2>7, Zenon DEF IInv
<1>5. QED
  BY <1>0, <1>3, <1>4

-----------------------------------------------------------------------------
LEMMA NextIInv == IInv /\ [Next]_vars => IInv' /\ AbsStep
<1> SUFFICES ASSUME IInv, [Next]_vars PROVE IInv' /\ AbsStep
  OBVIOUS
<1>1. CASE \E b \in Bufs, s \in Sizes : vb2_dc_alloc(b, s)
  BY <1>1, AllocStep
<1>2. CASE \E t \in Threads, b \in Bufs : FrameworkPut(t, b) \/ VmClose(t, b)
  BY <1>2, FrameworkPutStep, VmCloseStep
<1>3. CASE \E b \in Bufs : vb2_dc_mmap(b) \/ VmOpen(b) \/ GetDmabufExportFails(b)
  BY <1>3, MmapStep, VmOpenStep, ExportFailsStep
<1>4. CASE \E b \in Bufs, d \in DBufs : vb2_dc_get_dmabuf(b, d)
  BY <1>4, GetDmabufStep
<1>5. CASE \E t \in Threads, d \in DBufs : CloseDmabufFd(t, d)
  BY <1>5, CloseFdStep
<1>6. CASE \E a \in Atts, d \in DBufs : vb2_dc_dmabuf_ops_attach(a, d)
  BY <1>6, AttachStep
<1>7. CASE \E a \in Atts, dir \in Dirs, ok \in BOOLEAN : vb2_dc_dmabuf_ops_map(a, dir, ok)
  BY <1>7, MapStep
<1>8. CASE \E t \in Threads, a \in Atts : vb2_dc_dmabuf_ops_detach(t, a)
  BY <1>8, DetachStep
<1>9. CASE \E t \in Threads : PutReturn(t) \/ PutFree(t)
  BY <1>9, PutReturnStep, PutFreeStep
<1>10. CASE UNCHANGED vars
  <2>1. UNCHANGED <<bufSt, refcount, bufSize, sgtBase, fwRef, vmas, devRefs,
                    dbSt, dbBuf, dbFd, atSt, atDb, atDir, atMapped, pc, tBuf, tSaw>>
    BY <1>10 DEF vars, bufVars, dbVars, atVars, thVars
  <2>2. TypeOK' /\ PointersValid'
    BY <2>1, Zenon DEF IInv, TypeOK, PointersValid
  <2>3. UnusedIsUnheld' /\ NoUseAfterFree' /\ PendingFree'
    BY <2>1, Zenon DEF IInv, UnusedIsUnheld, NoUseAfterFree, PendingFree, LiveDbufsOf
  <2>4. \A x \in Bufs : Holders(x)' = Holders(x)
    BY <2>1, Zenon DEF Holders, LiveDbufsOf
  <2>5. RefcountMatchesHolders'
    BY <2>1, <2>4, Zenon DEF IInv, RefcountMatchesHolders
  <2>6. DeviceRefBalance' /\ AttachMapBalance'
    BY <2>1 DEF IInv, DeviceRefBalance, AttachMapBalance, LiveBufs
  <2>7. AbsStep
    BY <2>1, <2>4, AbsStutter
  <2>8. QED
    BY <2>2, <2>3, <2>5, <2>6, <2>7 DEF IInv
<1>11. QED
  BY <1>1, <1>2, <1>3, <1>4, <1>5, <1>6, <1>7, <1>8, <1>9, <1>10, Zenon DEF Next

THEOREM IInvHolds == Spec => []IInv
BY InitIInv, NextIInv, PTL DEF Spec

(* LifecycleRefined: seen through the refinement mapping (a buffer is live *)
(* while bufSt says so, and its holders are the framework reference, the   *)
(* vmas and the live dma-bufs), every behaviour of the threads racing on   *)
(* vb2_dc_put, mmap, the vm ops and the dma-buf exporter is one of the     *)
(* abstract lifecycle: a buffer gains holders only while it has one, and   *)
(* is freed only when it has none.                                         *)
THEOREM LifecycleRefinement == Spec => LifecycleRefined
<1>1. Init => Abs!Init
  BY AbsInit
<1>2. IInv /\ [Next]_vars => AbsStep
  BY NextIInv
<1>3. QED
  BY <1>1, <1>2, IInvHolds, PTL DEF Spec, LifecycleRefined, Abs!Spec, AbsStep

-----------------------------------------------------------------------------
(* TypeOK: every variable keeps its type; in particular no count or        *)
(* reference total (refcount, devRefs, atMapped) ever goes below zero.     *)
THEOREM TypeCorrect == Spec => []TypeOK
BY IInvHolds, PTL DEF IInv

(* RefcountMatchesHolders: buf->refcount counts exactly the framework, the *)
(* vmas and the live dma-bufs holding the buffer, for any number of them.  *)
THEOREM RefcountCorrect == Spec => []RefcountMatchesHolders
BY IInvHolds, PTL DEF IInv

(* NoUseAfterFree: no holder of a buffer, and no attachment of a dma-buf,  *)
(* ever points at freed memory, whatever order the puts run in.            *)
THEOREM NoUseAfterFreeHolds == Spec => []NoUseAfterFree
BY IInvHolds, PTL DEF IInv

(* DeviceRefBalance: vb2_dc_put drops the device reference exactly once   *)
(* per buffer, for any number of threads racing on atomic_dec_and_test.    *)
THEOREM DeviceRefsBalanced == Spec => []DeviceRefBalance
BY IInvHolds, PTL DEF IInv

(* AttachMapBalance: the exporter's per-attachment mapping cache never     *)
(* leaks a dma_map_sg, across any sequence of remaps and the detach.       *)
THEOREM AttachMapsBalanced == Spec => []AttachMapBalance
BY IInvHolds, PTL DEF IInv

=============================================================================
