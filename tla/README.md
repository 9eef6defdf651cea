# TLA+ models of videobuf2-dma-contig

This directory holds TLA+ specifications, TLC configurations and TLAPS proofs for
`src/drivers/media/v4l2-core/videobuf2-dma-contig.c`. That file is the
DMA-contiguous memory allocator of videobuf2 (vb2), as backported for the
TI wl18xx tree. Line numbers below refer to that file.

## The system

The file is a set of callbacks (`vb2_dma_contig_memops`). The vb2 core calls them
for each plane of a video buffer. There are three ways to obtain memory, and
they share one descriptor, `struct vb2_dc_buf`, lines 24-44.

* **MMAP**
  * `vb2_dc_alloc` (141-172) allocates coherent memory. It pins the device with
    `get_device` and sets `refcount` to 1.
  * Further holders each take a reference:
    * every user mapping: `vb2_dc_mmap` (220-255), then the `vm_ops` open and
      close of videobuf2-memops;
    * every exported dma-buf: `vb2_dc_get_dmabuf` (453-478). Its release
      callback (381-385) gives the reference back.
  * Every holder drops its reference through `vb2_dc_put` (125-139). The
    thread whose `atomic_dec_and_test` sees zero frees the buffer.
* **dma-buf exporter ops** (263-425)
  * Each importer that attaches gets its own copy of the buffer's `sgt_base`
    (`attach`, 269-305). `sgt_base` is built lazily by `get_dmabuf`, lines
    464-465.
  * `map` (331-369) caches one DMA mapping per attachment, keyed by direction.
    It remaps when the direction changes and runs under the dma-buf lock.
  * `detach` (309-327) undoes the cached mapping.
* **USERPTR**
  * `vb2_dc_get_userptr` (547-664) checks alignment and size, then:
    1. pins the user pages (`vb2_create_framevec`);
    2. builds a scatter table from them;
    3. maps it with `dma_map_sg`;
    4. checks with `vb2_dc_get_contiguous_size` (50-64) that the mapping is one
       contiguous run.
  * If the frames have no `struct page`, it checks that the frame numbers are
    consecutive and uses them directly (591-603).
  * Every failure unwinds through the goto ladder `fail_map_sg` .. `fail_buf`
    (648-663).
  * `vb2_dc_put_userptr` (485-514) undoes all of it. It unmaps without a CPU
    sync, relying on `finish`.
* **DMABUF importer** (671-782)
  * `attach_dmabuf`, `map_dmabuf`, `unmap_dmabuf`, `detach_dmabuf`.
  * `vb2_dc_vaddr` (77-87) vmaps an imported buffer on demand.
* **Cache-sync bracket**
  * `vb2_dc_prepare` and `vb2_dc_finish` (96-119) sync the table for the device
    or for the CPU.
  * They do nothing for a buffer with no table or an imported one.

How the parts interact:

* The MMAP buffer's reference count is shared by the framework, the mm layer
  (vma open and close) and the dma-buf core (release). Each of these can drop
  its reference from its own thread.
* The exporter ops read `sgt_base`, which `get_dmabuf` wrote, and
  `buf->refcount` keeps the buffer alive under them.
* The contiguity check is used by USERPTR and by the importer.

## Modules

| module | models | state | actions |
|---|---|---|---|
| `DcContig` | `vb2_dc_get_contiguous_size` and the frame-number check | (operators) | `SegEnd`, `ContigStep`: one loop iteration, with the `dma_addr_t` wrap; `PfnsContiguous`; `SumLens`, `SegmentsChain` and `ContigRunCoversAll`, what the loop's result says of a table |
| `DcContigLoop` | the loop run one segment per step | `sgt`, `i`, `st` | `Iterate` |
| `DcContigProofs` | TLAPS proofs about `vb2_dc_get_contiguous_size` on tables of any length: the loop and sum functions, `ContigLoopSound` | | |
| `DcContigLoopProofs` | TLAPS proofs of the loop's `TypeOK` and of `ContigSizeCorrect` | | |
| `DcMmap` | MMAP buffers, vmas, exported dma-bufs, exporter attachments | per buffer: `bufSt`, `refcount`, `bufSize`, `sgtBase`, `fwRef`, `vmas`; `devRefs`; per dma-buf: `dbSt`, `dbBuf`, `dbFd`; per attachment: `atSt`, `atDb`, `atDir`, `atMapped`; per thread: `pc`, `tBuf`, `tSaw` | `vb2_dc_alloc`, `FrameworkPut`, `vb2_dc_mmap`, `VmOpen`, `VmClose`, `GetDmabufExportFails`, `vb2_dc_get_dmabuf`, `CloseDmabufFd`, `vb2_dc_dmabuf_ops_attach`, `vb2_dc_dmabuf_ops_map`, `vb2_dc_dmabuf_ops_detach`, `PutReturn`, `PutFree` |
| `DcMmapProofs` | TLAPS proofs about `DcMmap`, the refinement included | | |
| `DcMmapZeroProofs` | TLAPS proof of `NoRefAfterZero`, on top of `DcMmapProofs` | | |
| `DcLifecycle` | the abstract buffer lifecycle that `DcMmap` implements | per buffer: `live`, `holders` | `Alloc`, `Acquire`, `Drop`, `Free` |
| `DcDmabuf` | the DMABUF importer and `vb2_dc_vaddr` | per plane: `att` (`db_attach` set), `size`, `dir`, `sgt`, `dmaAddr`, `vaddr`; on the exporter's side: `attaches`, `mappings`, `vmaps` | `vb2_dc_attach_dmabuf`, `vb2_dc_map_dmabuf`, `vb2_dc_unmap_dmabuf`, `vb2_dc_detach_dmabuf`, `vb2_dc_vaddr` |
| `DcDmabufProofs` | TLAPS proof of `ExporterRefsBalanced` | | |
| `DcUserptr` | USERPTR buffers and prepare/finish | per slot: `pc` (the step of `get_userptr`), `live`, `held` (the resources the call holds), `size`, `vaddr`, `dir`, `sgt`, `pfns`, `owner` | `GetUserptr`, `CreateFramevec`, `PfnFallback`, `AllocSgt`, `InitSgt`, `MapSg`, `CheckContig`, `vb2_dc_put_userptr`, `vb2_dc_prepare`, `vb2_dc_finish` |
| `DcUserptrProofs` | TLAPS proofs of `RollbackComplete` and `AcceptedContiguous`, the latter on top of `DcContigProofs` | | |
| `MCDcMmap`, `MCDcUserptr`, `MCDcDmabuf` | model values and symmetry for TLC | | |

How the modules map to the code:

* **Two-step put.** `vb2_dc_put` is split at its atomic operation.
  * `StartPut` is the `atomic_dec_and_test`. It records in `tSaw` what the
    operation returned.
  * `PutReturn` and `PutFree` are the branch on that result. `PutFree` frees
    `sgt_base`, the memory and the device reference.
  * So the puts of the framework, of a vma close and of a dma-buf release, made
    from different threads, interleave between the decrement and the test.
* **Failures that change nothing** are not actions, because they are stutters.
  Examples:
  * the allocation failures of `vb2_dc_alloc` and of `attach`;
  * the alignment and zero-size returns of `get_userptr`;
  * the branch of `map` that returns the cached table.
* **Failures that took something first** are actions. Each step of
  `get_userptr` is one action, with a success and a failure disjunct. `Fail`
  enters the ladder at the step's label. `Unwind` computes what that label and
  every label below it release.
* **Free choices.** The model picks these nondeterministically:
  * the table that `dma_map_sg` returns: any table of up to one segment per
    page, whose lengths add up to the size, over `MapAddrs`;
  * the frame numbers of pages that have no `struct page`.
* **The importer.** Each callback is one step, because the vb2 core calls a
  plane's callbacks from one thread under its queue lock.
  * The WARN_ON returns of `map_dmabuf`, `unmap_dmabuf` are stutters. So are
    a failed `dma_buf_map_attachment` and the too-short table that
    `map_dmabuf` maps and at once unmaps.
  * `detach_dmabuf` has two disjuncts, on its test `StillMapped`
    (`buf->dma_addr != 0`).
  * The exporter is seen only through what it hands out: `attaches`,
    `mappings` and `vmaps` count `dma_buf_attach`, `dma_buf_map_attachment`
    and `dma_buf_vmap` calls not yet undone. The table it returns is any
    table in `ForeignTables`.
* **Spec-modelled parts.** `VmOpen`, `VmClose` and `CloseDmabufFd` model code
  outside this file, from the spec:
  * the vm_ops of videobuf2-memops;
  * the dma-buf core's rule that `release` runs when the last file reference
    goes. An attached importer holds such a reference.

## Runs

| run | cfg | checks | result |
|---|---|---|---|
| `mmap_safety` | `MCDcMmap.cfg` | `TypeOK`, `RefcountMatchesHolders`, `NoUseAfterFree`, `DeviceRefBalance`, `AttachMapBalance`, `NoRefAfterZero` | pass, about 56k states |
| `mmap_liveness` | `MCDcMmapLive.cfg` | `FreedWhenUnreferenced` under `FairSpec` | pass, about 615k states |
| `alloc_zero_size` | `MCDcMmapZero.cfg` | `NoZeroSizeBuffer` | violation (a finding) |
| `contig` | `DcContigLoop.cfg` | `TypeOK`, `ContigSizeCorrect`; the assumption `LoopCoversAll` | pass |
| `userptr` | `MCDcUserptr.cfg` | `RollbackComplete`, `AcceptedContiguous` | pass, about 55k states |
| `dmabuf` | `MCDcDmabuf.cfg` | `ExporterRefsBalanced` | pass, about 65k states |
| `dmabuf_detach_addr0` | `MCDcDmabufAddr0.cfg` | `ExporterRefsBalanced`, with tables that may start at 0 | violation (a finding) |
| `dmabuf_vmap_leak` | `MCDcDmabufVmap.cfg` | `VmapsBalanced` | violation (a finding) |
| `mmap_refinement` | `MCDcMmapRefine.cfg` | `LifecycleRefined` | pass, about 56k states |

What the properties say:

* `RefcountMatchesHolders`: the count equals the number of holders, with a put
  in progress counted as gone.
* `NoUseAfterFree` covers every pointer that stays reachable: the framework's,
  a vma's `vm_private_data`, `dbuf->priv`, and an attachment's dma-buf. It also
  says that a live dma-buf's buffer has the `sgt_base` that `attach`
  dereferences without a check.
* `DeviceRefBalance` says each buffer is torn down exactly once: one
  `put_device` per `get_device`.
* `NoRefAfterZero` is an action property: once the `atomic_dec_and_test` of
  `vb2_dc_put` has brought a live buffer's count to zero, no step changes that
  count until the buffer is freed. No mmap, vma open, export or other put
  can take or drop a reference on a buffer whose teardown has started.
* `AttachMapBalance` says that `map` and `detach` never leak or double-undo the
  cached `dma_map_sg`.
* `LoopCoversAll` is an `ASSUME` of `DcContigLoop`, so TLC evaluates it on
  every table of up to `MaxSegs` segments. It states `ContigRunCoversAll`:
  when no segment is empty, a contiguous size at least the sum of the
  lengths means the whole table chains. This is the fact `get_userptr` relies
  on. `AcceptedProved` takes it as a hypothesis, and `LoopSoundProved` proves it.
* `ContigSizeCorrect` compares the loop with a reference definition: the
  longest prefix in which each segment starts where the previous ended.
* `RollbackComplete`: after any `get_userptr` failure nothing stays pinned,
  allocated or mapped. After `put_userptr` nothing stays held either.
  `put_userptr` releases the table, its struct and the mapping only under
  its `if (sgt)` (lines 492-511), and the frame vector and descriptor in
  every case (`PutReleases`). So the property also checks that a returned
  descriptor records a table exactly when it holds one.
* `AcceptedContiguous`: a buffer returned to the framework is one device run.
* `ExporterRefsBalanced`: the exporter holds exactly the attachment and the
  mapping that the importer's descriptors record. This holds whatever order
  the framework calls the importer callbacks in, detach of a mapped buffer
  included.
* `VmapsBalanced`: every `dma_buf_vmap` that `vb2_dc_vaddr` takes is the one
  `buf->vaddr` records.
* `LifecycleRefined` is `Abs!Spec`, where `Abs` instantiates `DcLifecycle`
  with this mapping:
  * a buffer is live while `bufSt` says so;
  * its holders are `Holders(b)`: the framework reference, the vmas and the
    live dma-bufs.

  So every behaviour of the concurrent model is a behaviour of the abstract
  lifecycle. A holder joins only a live buffer that has one, and a buffer is
  freed only when it has none.

Every property of a passing run has a mutant in `PROJECT.json`: a plausible bug
in the mapped code that the property catches. The mutants include:

* an export that takes no reference;
* a re-read of the count in place of the atomic result;
* a ladder that does not fall through;
* a dropped size check;
* a detach that never unmaps;
* an mmap that does not require the caller to hold the buffer.

### Bounds

* **`MCDcMmap`.** Two buffers, two dma-bufs, two attachments, two threads and
  two directions, with at most 2 vmas per buffer. The symmetry is over all
  five sets.
  * Two threads are enough for a put to interleave with another holder's put.
  * Two attachments on one dma-buf let one detach while the other is mapped.
  * Two directions make `map` drop and remake its cache.
  * The liveness run has no symmetry, because TLC must not combine symmetry with
    liveness checking.
* **`DcContigLoop`.**
  * `dma_addr_t` is 6 bits wide.
  * Segment addresses are 0, 1, 2, 62 and 63, so runs both start at 0 and wrap
    past the top.
  * Lengths are 1 and 2, with up to 3 segments: enough for a gap, an overlap
    and a later segment that lines up again.
* **`MCDcDmabuf`.**
  * Two planes and two directions. Dma-buf and plane sizes are 1 and 2, so
    `attach` refuses a dma-buf that is too small.
  * Foreign tables have up to 2 segments with lengths 1 and 2. Addresses are
    2 bits wide and start at 1 or 2, so a table can be contiguous, have a gap,
    or wrap.
  * Each exporter count is bounded by 2, enough for a second map or vmap.
  * The passing run leaves out address 0. The run `dmabuf_detach_addr0` adds
    it and shows why it must be left out.
* **`MCDcUserptr`.**
  * Pages are 4 bytes, cache lines 2 bytes, and DMA addresses 3 bits wide.
  * The user address 2 with size 4 spans two pages, so a mapped table can have
    a gap that the contiguity check must reject.
  * Address 3 and size 3 hit the alignment return.
  * Frame numbers {0, 1, 3} give both consecutive and non-consecutive frames.

### Fairness

Only `FairSpec` (`mmap_liveness`) assumes fairness: weak fairness of the second
half of `vb2_dc_put` for each thread. Between `atomic_dec_and_test` and the free
the code is straight-line: no lock, no wait, no allocation that can block. The
other operations are requests from the framework or from user space, and are
never assumed to happen.

## Findings

**`vb2_dc_alloc` has no size check** (line 141). Spec 4.2 says a zero size is
rejected with InvalidArgument. The code passes the size straight to
`dma_alloc_coherent`, and when that call succeeds a zero-sized buffer is live.
`alloc_zero_size` shows that trace. `get_userptr` does check the size (line 571).

**The importer's CPU mapping leaks** (lines 82 and 705). Spec 4.6 says the lazy
CPU mapping is made only for imported buffers that already have a device
mapping. The code does something else:

* `vb2_dc_vaddr` vmaps any attached buffer whose `vaddr` is NULL.
* A later `map_dmabuf` sets `buf->vaddr = NULL` without `dma_buf_vunmap`.

`dmabuf_vmap_leak` shows the trace: attach, vaddr, map. The exporter then
holds a vmap that nothing records.

**Detach skips the unmap of a mapping at DMA address 0** (line 744). Spec 4.4
says detach forces an unmap as a safety net. The code decides that the buffer
is still mapped from `buf->dma_addr`, not from `buf->dma_sgt`. An IOMMU or a
device whose memory starts at bus address 0 can hand out a table that starts
at 0. Detach then leaves that mapping on the exporter. `dmabuf_detach_addr0`
shows the trace.

## Proofs

`DcMmapProofs` proves, for every finite set of buffers and dma-bufs and any sets
of attachments, threads and directions, that `Spec => []IInv`.

`IInv` strengthens the five invariants of `mmap_safety` with three conjuncts:

* **`UnusedIsUnheld`**: a free slot has no holder. This is needed so that
  `vb2_dc_alloc` can set the count to 1 in a slot that no vma or dma-buf still
  counts.
* **`PointersValid`**: the pointers of live objects are not null.
* **`PendingFree`**: a thread whose decrement saw zero owns a live buffer of
  count zero, and it is the only thread that saw zero on that buffer. This is
  what makes `PutFree` keep `DeviceRefBalance` and the exactly-once free.

About the proof itself:

* There is one lemma per action.
* Cardinality facts come from `FiniteSetTheorems`: `FS_AddElement`,
  `FS_RemoveElement` and `FS_Subset`.
* The theorems listed in `PROJECT.json` take each invariant from `IInvHolds`.
* Assumptions: `DcMmapAssumption`. The buffer and dma-buf sets are finite, the
  null values are outside their sets, and `MaxVmas` is a natural number.

`DcMmapProofs` also proves `LifecycleRefinement`, that `Spec => LifecycleRefined`:

* **Initial states.** The initial states map to initial states (`AbsInit`).
* **Steps.** Every step, under `IInv`, maps to a step of `DcLifecycle` or to
  a stutter. Each action lemma now also concludes `AbsStep`:
  * `vb2_dc_alloc` is `Alloc`;
  * mmap, vma open and an export are `Acquire`;
  * the framework put, vma close and a dma-buf release are `Drop`;
  * `PutFree` is `Free`;
  * the rest are stutters.
* **Why `IInv` is needed.** `Acquire` needs the buffer to have a holder
  already, and `Free` needs `Holders(b) = 0`. Both come from
  `RefcountMatchesHolders`.

`DcDmabufProofs` proves `ExporterRefsProved`: `Spec => []ExporterRefsBalanced`
for any set of planes, assuming `0 \notin MapAddrs`.

* The strengthening is `MappedAddr`: an attached plane has a nonzero
  `dma_addr` exactly when it holds a table.
* `MappedAddr` is what makes detach's test of `dma_addr` a test of the
  mapping.
* The hypothesis on address 0 cannot be dropped. That is the address-0
  finding.

`DcUserptrProofs` proves `RollbackProved`: `Spec => []RollbackComplete` for any
sets of planes, addresses and sizes.

* The strengthening is `HeldByStep`. It fixes which resources the call holds
  at each step of `get_userptr`.
* `UnwindLabels` computes what each label of the ladder releases.
* The result: entering the ladder at the failing call's label releases
  exactly what was taken.

`DcUserptrProofs` also proves `AcceptedProved`:
`ASSUME ContigLoopSound PROVE Spec => []AcceptedContiguous`, for any sets of
planes, addresses and sizes. Then `AcceptedContiguousHolds` drops the
hypothesis: `Spec => []AcceptedContiguous`, by `AcceptedProved` and
`LoopSoundProved` of `DcContigProofs`.

* **The hypothesis.** `ContigLoopSound` is `ContigRunCoversAll` for every
  table of any length. It is a fact about the loop of
  `vb2_dc_get_contiguous_size`, proved in `DcContigProofs` (below). TLC
  also checks it on every table of the `contig` run (`LoopCoversAll`),
  tables that wrap at the top of `dma_addr_t` included.
* **The strengthening.** `AInv` adds what holds between `dma_map_sg` and the
  size check. At `pc = "contig"` the slot's table is non-empty, has no empty
  segment, and its lengths add up to the size (`MappedWhole`). So a run that
  covers the size covers every segment. `AInv` also types `pfns`, so that the
  frames of a page-less buffer stay the consecutive ones `PfnFallback`
  accepted.
* **The steps.** `MappedTablesWhole` shows that every table `dma_map_sg` may
  return is whole in that sense. `CheckContigAInv` applies the hypothesis
  when the size check passes. Every other step either leaves the slot alone
  (`AInvFrame`) or leaves it with no descriptor handed out (`AInvVacuous`).

`DcContigProofs` proves facts about `vb2_dc_get_contiguous_size` and
`SumLens` on tables of every length and every width of `dma_addr_t`.

* **Induction without an operator parameter.** The library's induction
  theorems take the property as an operator, which the installed provers
  cannot instantiate. Here the property is passed as the set `P` of the
  positions that have it. `SetInduction` proves `0 .. n \subseteq P` from a
  least counterexample: `NatLeast` gets a least element of a non-empty set
  of naturals from `WFMin` and `NatLessThanWellFounded`.
* **The recursive functions.** The `LET` functions of
  `vb2_dc_get_contiguous_size` and `SumLens` unfold to a `CHOOSE` of a
  fixpoint (`LoopFn`, `SumUpTo`). `FiniteRecursion` builds a function that
  follows the recursion, with the step passed as a function value.
  `FixpointUnique` shows that two functions following it agree. So
  `LoopFnDef` and `SumUpToDef` give the defining equations.
* **`LoopSoundProved`.** Its proof is an induction on the number of segments
  the loop has seen, with `LoopInv`. Once it stops, the loop's size is below
  the sum of the lengths, because no segment is empty. While it runs, the size
  is the sum, the segments seen chain, and it expects the end of the last one.
  A size at least the total therefore means the loop never stopped, and the
  whole table chains.
* **`LoopResult`.** Its proof is an induction with `LoopBreak`. A stopped loop
  met a first segment `m` that does not chain, and its size is the sum before
  `m`. With `StopPersists` and `SumMono`, this gives what the loop returns:
  the largest sum over a chained prefix.

`DcContigLoopProofs` proves `ContigTypeCorrect`: `Spec => []TypeOK` for the
loop, for every width of `dma_addr_t` of at least 4 bits. Narrower widths are
excluded by the `SpecExamples` assumption of `DcContigLoop`: its first table
needs `2^AddrBits >= 12`. Real `dma_addr_t` has 32 or 64 bits.

* `TypeOK` is inductive as it stands.
* The content is `SegEndInRange`: the end address computed modulo
  `AddrLimit` is a `dma_addr_t` again, however the sum wraps.
* It rests on `AddrLimitPositive` (`2^AddrBits` is a positive integer). This
  is an `ASSUME` of `DcContig`, because the provers have no rule for `^`. TLC
  evaluates it on every run.

`DcContigLoopProofs` also proves `ContigSizeProved`:
`Spec => []ContigSizeCorrect`, for every width of `dma_addr_t` of at least 4
bits (as above) and any sets
`Addrs`, `Lens` and bound `MaxSegs`.

* The inductive invariant is `CInv`. It is `TypeOK` together with
  `st = LoopFn(sgt)[i - 1]`: the loop state is the loop function of
  `DcContigProofs` at the segments seen so far.
* When the loop is over, `LoopResult` gives the size.
* `RefIs` shows that the `CHOOSE` of `ContigSizeRef` picks that size.
  `PrefixLen` is `SumUpTo`, by `SumUpToPrefix`.

`DcMmapZeroProofs` proves `NoRefAfterZeroProved`: `Spec => NoRefAfterZero`
for any sets of buffers, dma-bufs, attachments and threads.

* It needs no new invariant. `ZeroHasNoHolder` derives from `IInv` that a
  live buffer at count zero has no framework reference, no vma and no live
  dma-buf.
* Every action that changes a count needs one of those holders (mmap, vma
  open, export, framework put, vma close), or a live dma-buf of the buffer
  (release). So none of them can touch a buffer at zero.
* `ZeroStep` has one case per disjunct of `Next`.

The assumptions `DcDmabufAssumption` and `DcUserptrAssumption` include that
the null table `NoSgt` is not a table.

Only model-checked:

* `FreedWhenUnreferenced`, because the prover does not handle liveness or
  `ENABLED`.
* The `SpecExamples` and `LoopCoversAll` assumptions of `DcContigLoop`. TLC
  evaluates them. `LoopSoundProved` states for every table what
  `LoopCoversAll` checks on the bounded ones.
* Every other invariant and action property that a passing run checks has a
  theorem for every value of the constants. Induction over the positions of a
  table is done by hand (see `DcContigProofs`), so the recursive loop is not
  a limit. The limit is liveness and `ENABLED`.

## Not modelled

* **The allocator context** (`init_ctx`, `cleanup_ctx`) and the memops table.
* **The pre-3.9 `vb2_dc_mmap`** and the kernel-version conditionals. The model
  follows a kernel at 3.9 or later.
* **`vb2_dc_pfn_to_dma`**: one address computation.
* **cookie, `num_users`, the exporter's `kmap`, `vmap` and `unmap`**: these
  only return values and change no state.

## Plan

1. Split `get_dmabuf` in a run that allows concurrent exports, to show the
   unlocked `sgt_base` initialisation (line 464). This matters only for
   drivers that export without the queue lock.
2. Refine `DcUserptr` and `DcDmabuf` to an abstract acquire/release
   specification.
3. Model the vb2 core's prepare, finish and put ordering to state the
   stale-cache property that `owner` is there for.
