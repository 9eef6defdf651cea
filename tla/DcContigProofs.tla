--------------------------- MODULE DcContigProofs ---------------------------
(***************************************************************************)
(* Proofs about the scatter-table operators of DcContig for tables of any  *)
(* length.  vb2_dc_get_contiguous_size and SumLens are recursive functions *)
(* over the positions of the table.  Their defining equations, and the     *)
(* facts about them, are proved by induction on the position, done here as *)
(* a least counterexample: the ordering of Nat is well founded (WFMin of   *)
(* WellFoundedInduction), so no induction theorem with an operator         *)
(* parameter is needed.  A recursion step is passed to the generic lemma   *)
(* as a function value, for the same reason.                               *)
(***************************************************************************)
EXTENDS DcContig, WellFoundedInduction, SequenceTheorems, TLAPS

(* A non-empty set of naturals has a least element.                        *)
LEMMA NatLeast ==
  ASSUME NEW T \in SUBSET Nat, T # {}
  PROVE  \E x \in T : \A y \in T : x <= y
<1>1. PICK x \in T : \A y \in T : ~(<<y, x>> \in OpToRel(<, Nat))
  BY WFMin, NatLessThanWellFounded, Zenon
<1>2. \A y \in T : y < x => <<y, x>> \in OpToRel(<, Nat)
  BY Zenon DEF OpToRel
<1>3. \A y \in T : ~(y < x)
  BY <1>1, <1>2, Zenon
<1>4. QED
  BY <1>3

(* Induction over 0 .. n, the property given as the set P of the positions *)
(* that have it.                                                           *)
LEMMA SetInduction ==
  ASSUME NEW n \in Nat, NEW P, 0 \in P,
         \A k \in 1 .. n : k - 1 \in P => k \in P
  PROVE  0 .. n \subseteq P
<1> DEFINE Bad == {k \in 0 .. n : k \notin P}
<1> SUFFICES ASSUME Bad # {} PROVE FALSE
  OBVIOUS
<1>1. PICK m \in Bad : \A y \in Bad : m <= y
  <2>1. Bad \in SUBSET Nat
    OBVIOUS
  <2>2. QED
    BY <2>1, NatLeast, Zenon
<1>2. m \in 1 .. n
  BY <1>1
<1>3. m - 1 \in P
  <2>1. m - 1 \in 0 .. n /\ ~(m <= m - 1)
    BY <1>2
  <2>2. QED
    BY <1>1, <2>1
<1>4. QED
  BY <1>1, <1>2, <1>3

(* The shape of a recursion over 0 .. n with start value c and step F,   *)
(* the step given as a function value: F maps S into S, g follows it, and  *)
(* f follows it wherever its previous value is in S.  Naming the formulas  *)
(* lets the lemmas below be cited for a concrete S, c, n and F.            *)
Closed(S, n, F) == \A v \in S, i \in 1 .. n : F[i][v] \in S

RecFrom(g, c, n, F) == g[0] = c /\ \A j \in 1 .. n : g[j] = F[j][g[j - 1]]

StepsIn(f, S, n, F) == \A i \in 1 .. n : f[i - 1] \in S => f[i] = F[i][f[i - 1]]

Agree(f, g, n) == \A j \in 0 .. n : f[j] = g[j]

(* A function on 0 .. n given by a start value c and a step F exists.      *)
LEMMA FiniteRecursion ==
  ASSUME NEW S, NEW c \in S, NEW n \in Nat, NEW F, Closed(S, n, F)
  PROVE  \E g \in [0 .. n -> S] : RecFrom(g, c, n, F)
<1> DEFINE Ok(m, g) == /\ g \in [0 .. m -> S]
                       /\ \A j \in 0 .. m : g[j] = IF j = 0 THEN c ELSE F[j][g[j - 1]]
           P == {m \in 0 .. n : \E g : Ok(m, g)}
<1>1. 0 \in P
  <2>1. Ok(0, [j \in 0 .. 0 |-> c])
    OBVIOUS
  <2>2. \E g : Ok(0, g)
    BY <2>1, Zenon
  <2>3. 0 \in 0 .. n
    OBVIOUS
  <2>4. QED
    BY <2>2, <2>3, Zenon DEF P
<1>2. ASSUME NEW k \in 1 .. n, k - 1 \in P PROVE k \in P
  <2>1. PICK g : Ok(k - 1, g)
    BY <1>2 DEF P
  <2> DEFINE h == [j \in 0 .. k |-> IF j < k THEN g[j] ELSE F[k][g[k - 1]]]
  <2>2. F[k][g[k - 1]] \in S
    BY <2>1 DEF Closed
  <2>3. h \in [0 .. k -> S]
    BY <2>1, <2>2
  <2>4. ASSUME NEW j \in 0 .. k
        PROVE  h[j] = IF j = 0 THEN c ELSE F[j][h[j - 1]]
    <3>1. CASE j < k
      BY <2>1, <3>1
    <3>2. CASE j = k
      <4>1. h[k - 1] = g[k - 1]
        OBVIOUS
      <4>2. QED
        BY <3>2, <4>1
    <3>3. j < k \/ j = k
      OBVIOUS
    <3>4. QED
      BY <3>1, <3>2, <3>3, Zenon
  <2>5. Ok(k, h)
    BY <2>3, <2>4, Zenon DEF Ok
  <2>6. k \in 0 .. n
    OBVIOUS
  <2>7. QED
    BY <2>5, <2>6, Zenon DEF P
<1>3. 0 .. n \subseteq P
  BY <1>1, <1>2, SetInduction, Zenon
<1>4. PICK g : Ok(n, g)
  BY <1>3 DEF P
<1>5. QED
  BY <1>4 DEF Ok, RecFrom

(* Two functions on 0 .. n that follow the same recursion agree.          *)
LEMMA FixpointUnique ==
  ASSUME NEW S, NEW c \in S, NEW n \in Nat, NEW F, Closed(S, n, F),
         NEW g \in [0 .. n -> S], RecFrom(g, c, n, F),
         NEW f, f[0] = c, StepsIn(f, S, n, F)
  PROVE  Agree(f, g, n)
<1> DEFINE P == {j \in 0 .. n : f[j] = g[j]}
<1>1. 0 \in P
  BY DEF P, RecFrom
<1>2. ASSUME NEW k \in 1 .. n, k - 1 \in P PROVE k \in P
  <2>1. f[k - 1] = g[k - 1] /\ g[k - 1] \in S
    BY <1>2 DEF P
  <2>2. f[k] = F[k][g[k - 1]]
    BY <2>1 DEF StepsIn
  <2>3. g[k] = F[k][g[k - 1]]
    BY DEF RecFrom
  <2>4. QED
    BY <2>2, <2>3 DEF P
<1>3. 0 .. n \subseteq P
  BY <1>1, <1>2, SetInduction, Zenon
<1>4. QED
  BY <1>3 DEF P, Agree

-----------------------------------------------------------------------------
(* The state of the loop of vb2_dc_get_contiguous_size.                    *)
LoopState == [expected : 0 .. AddrLimit - 1, size : Nat, stop : BOOLEAN]

(* The functions over the positions of a table that the LET definitions of *)
(* vb2_dc_get_contiguous_size and SumLens name.                             *)
LoopFn(t) ==
  CHOOSE loop : loop = [i \in 0 .. Len(t) |->
                          IF i = 0 THEN ContigStart(t) ELSE ContigStep(loop[i - 1], t[i])]

SumUpTo(t, k) ==
  CHOOSE sum : sum = [j \in 0 .. k |-> IF j = 0 THEN 0 ELSE sum[j - 1] + t[j].len]

LEMMA LoopFnIs ==
  ASSUME NEW t
  PROVE  vb2_dc_get_contiguous_size(t) = LoopFn(t)[Len(t)].size
BY DEF vb2_dc_get_contiguous_size, LoopFn

LEMMA SumFnIs ==
  ASSUME NEW t
  PROVE  SumLens(t) = SumUpTo(t, Len(t))[Len(t)]
BY DEF SumLens, SumUpTo

(* One iteration keeps the loop state well formed.                         *)
LEMMA ContigStepState ==
  ASSUME NEW ls \in LoopState, NEW seg \in Segment
  PROVE  ContigStep(ls, seg) \in LoopState
<1>1. seg.addr \in 0 .. AddrLimit - 1 /\ seg.len \in Nat
  BY Zenon DEF Segment
<1>2. SegEnd(seg) \in 0 .. AddrLimit - 1
  BY <1>1, AddrLimitPositive DEF SegEnd
<1>3. ls.size \in Nat
  BY Zenon DEF LoopState
<1>4. ls.size + seg.len \in Nat
  BY <1>1, <1>3
<1>5. [ls EXCEPT !.stop = TRUE] \in LoopState
  BY Zenon DEF LoopState
<1>6. [expected |-> SegEnd(seg), size |-> ls.size + seg.len, stop |-> FALSE] \in LoopState
  BY <1>2, <1>4 DEF LoopState
<1>7. QED
  BY <1>5, <1>6 DEF ContigStep

(* The positions of a table hold segments.                                *)
LEMMA SegmentsOf ==
  ASSUME NEW t \in Seq(Segment)
  PROVE  /\ Len(t) \in Nat
         /\ \A i \in 1 .. Len(t) : t[i] \in Segment
BY LenProperties, ElementOfSeq

(* The loop function of a non-empty table is the loop: it starts at the   *)
(* first address and takes one ContigStep per segment.                     *)
LEMMA LoopFnDef ==
  ASSUME NEW t \in Seq(Segment), Len(t) >= 1
  PROVE  /\ LoopFn(t) \in [0 .. Len(t) -> LoopState]
         /\ LoopFn(t)[0] = ContigStart(t)
         /\ \A i \in 1 .. Len(t) : LoopFn(t)[i] = ContigStep(LoopFn(t)[i - 1], t[i])
<1> DEFINE n == Len(t)
           F == [i \in 1 .. n |-> [v \in LoopState |-> ContigStep(v, t[i])]]
           L == LoopFn(t)
<1>1. n \in Nat /\ \A i \in 1 .. n : t[i] \in Segment
  BY SegmentsOf
<1>2. ContigStart(t) \in LoopState
  <2>1. t[1] \in Segment
    BY <1>1
  <2>2. t[1].addr \in 0 .. AddrLimit - 1
    BY <2>1, Zenon DEF Segment
  <2>3. QED
    BY <2>2 DEF ContigStart, LoopState
<1>3. Closed(LoopState, n, F)
  BY <1>1, ContigStepState DEF Closed
<1>4. PICK g \in [0 .. n -> LoopState] : RecFrom(g, ContigStart(t), n, F)
  BY <1>1, <1>2, <1>3, FiniteRecursion, Zenon
<1>5. g = [i \in 0 .. n |-> IF i = 0 THEN ContigStart(t) ELSE ContigStep(g[i - 1], t[i])]
  <2>1. \A i \in 1 .. n : g[i] = ContigStep(g[i - 1], t[i])
    BY <1>1, <1>4 DEF RecFrom, F
  <2>2. QED
    BY <1>4, <2>1 DEF RecFrom
<1>6. L = [i \in 0 .. n |-> IF i = 0 THEN ContigStart(t) ELSE ContigStep(L[i - 1], t[i])]
  BY <1>5, Zenon DEF L, LoopFn, n
<1>7. L[0] = ContigStart(t) /\ StepsIn(L, LoopState, n, F)
  BY <1>1, <1>6 DEF StepsIn, F
<1>8. Agree(L, g, n)
  BY <1>1, <1>2, <1>3, <1>4, <1>7, FixpointUnique, Zenon
<1>9. LoopFn(t) = g
  BY <1>4, <1>6, <1>8 DEF Agree, L
<1>10. g[0] = ContigStart(t) /\ \A i \in 1 .. n : g[i] = ContigStep(g[i - 1], t[i])
  BY <1>5
<1>11. QED
  BY <1>4, <1>9, <1>10 DEF n

(* The sum function of the first k positions of a table adds the lengths *)
(* one position at a time.                                                 *)
LEMMA SumUpToDef ==
  ASSUME NEW t \in Seq(Segment), NEW k \in 0 .. Len(t)
  PROVE  /\ SumUpTo(t, k) \in [0 .. k -> Nat]
         /\ SumUpTo(t, k)[0] = 0
         /\ \A j \in 1 .. k : SumUpTo(t, k)[j] = SumUpTo(t, k)[j - 1] + t[j].len
<1> DEFINE F == [i \in 1 .. k |-> [v \in Nat |-> v + t[i].len]]
           U == SumUpTo(t, k)
<1>1. k \in Nat /\ \A i \in 1 .. k : t[i].len \in Nat
  <2>1. Len(t) \in Nat /\ \A i \in 1 .. Len(t) : t[i] \in Segment
    BY SegmentsOf
  <2>2. \A i \in 1 .. Len(t) : t[i].len \in Nat
    BY <2>1, Zenon DEF Segment
  <2>3. QED
    BY <2>1, <2>2
<1>2. Closed(Nat, k, F)
  BY <1>1 DEF Closed
<1>3. PICK g \in [0 .. k -> Nat] : RecFrom(g, 0, k, F)
  BY <1>1, <1>2, FiniteRecursion, Zenon
<1>4. g = [j \in 0 .. k |-> IF j = 0 THEN 0 ELSE g[j - 1] + t[j].len]
  <2>1. \A j \in 1 .. k : g[j] = g[j - 1] + t[j].len
    <3>1. \A j \in 1 .. k : g[j] = F[j][g[j - 1]]
      BY <1>3, Zenon DEF RecFrom
    <3>2. \A j \in 1 .. k : g[j - 1] \in Nat
      BY <1>1
    <3>3. QED
      BY <3>1, <3>2, Zenon DEF F
  <2>2. QED
    BY <1>3, <2>1 DEF RecFrom
<1>5. U = [j \in 0 .. k |-> IF j = 0 THEN 0 ELSE U[j - 1] + t[j].len]
  BY <1>4, Zenon DEF U, SumUpTo
<1>6. U[0] = 0 /\ StepsIn(U, Nat, k, F)
  <2>1. U[0] = 0 /\ \A i \in 1 .. k : U[i] = U[i - 1] + t[i].len
    BY <1>1, <1>5
  <2>2. \A i \in 1 .. k : \A v \in Nat : F[i][v] = v + t[i].len
    BY DEF F
  <2>3. QED
    BY <2>1, <2>2, Zenon DEF StepsIn
<1>7. Agree(U, g, k)
  BY <1>1, <1>2, <1>3, <1>6, FixpointUnique, Zenon
<1>8. SumUpTo(t, k) = g
  BY <1>3, <1>5, <1>7 DEF Agree, U
<1>9. /\ g \in [0 .. k -> Nat]
      /\ g[0] = 0
      /\ \A j \in 1 .. k : g[j] = g[j - 1] + t[j].len
  BY <1>3, <1>4
<1>10. QED
  BY <1>8, <1>9, Zenon

(* The sum of the first k lengths is the k-th running sum of the table.   *)
LEMMA SumUpToPrefix ==
  ASSUME NEW t \in Seq(Segment), NEW k \in 0 .. Len(t), NEW j \in 0 .. k
  PROVE  SumUpTo(t, k)[j] = SumUpTo(t, Len(t))[j]
<1> DEFINE F == [i \in 1 .. k |-> [v \in Nat |-> v + t[i].len]]
           g == SumUpTo(t, k)
           f == SumUpTo(t, Len(t))
<1>1. Len(t) \in Nat /\ k \in Nat
  BY SegmentsOf
<1>2. /\ g \in [0 .. k -> Nat] /\ g[0] = 0
      /\ \A i \in 1 .. k : g[i] = g[i - 1] + t[i].len
  BY SumUpToDef, Zenon
<1>3. /\ f \in [0 .. Len(t) -> Nat] /\ f[0] = 0
      /\ \A i \in 1 .. Len(t) : f[i] = f[i - 1] + t[i].len
  <2>1. Len(t) \in 0 .. Len(t)
    BY <1>1
  <2>2. QED
    BY <2>1, SumUpToDef
<1>4. \A i \in 1 .. k : \A v \in Nat : F[i][v] = v + t[i].len
  BY DEF F
<1>5. Closed(Nat, k, F)
  <2>1. \A i \in 1 .. k : t[i].len \in Nat
    <3>1. \A i \in 1 .. Len(t) : t[i] \in Segment
      BY SegmentsOf
    <3>2. \A i \in 1 .. Len(t) : t[i].len \in Nat
      BY <3>1, Zenon DEF Segment
    <3>3. QED
      BY <1>1, <3>2
  <2>2. QED
    BY <1>4, <2>1 DEF Closed
<1>6. RecFrom(g, 0, k, F)
  BY <1>2, <1>4 DEF RecFrom
<1>7. StepsIn(f, Nat, k, F)
  BY <1>1, <1>3, <1>4 DEF StepsIn
<1>8. Agree(f, g, k)
  BY <1>1, <1>2, <1>3, <1>5, <1>6, <1>7, FixpointUnique, Zenon
<1>9. QED
  BY <1>8 DEF Agree, g, f

-----------------------------------------------------------------------------
(* What the loop of vb2_dc_get_contiguous_size knows after k segments of  *)
(* t, with L its loop function and U the running sum of the lengths: once *)
(* it has stopped its size is short of the sum; while it runs its size is *)
(* the sum, the first k segments chain, and it expects the end of the k-th *)
(* segment (the first address before any).                                *)
LoopInv(t, L, U, k) ==
  /\ L[k].stop => L[k].size < U[k]
  /\ ~L[k].stop => /\ L[k].size = U[k]
                   /\ \A j \in 2 .. k : t[j].addr = SegEnd(t[j - 1])
                   /\ L[k].expected = IF k = 0 THEN t[1].addr ELSE SegEnd(t[k])

(* ContigLoopSound for every table: when no segment is empty and the loop *)
(* of vb2_dc_get_contiguous_size counts the whole length of the table,    *)
(* every segment starts where the one before it ends.  The loop either    *)
(* stops short of the sum or runs along a chain, by induction on the      *)
(* number of segments it has seen.                                         *)
THEOREM LoopSoundProved == ContigLoopSound
<1> SUFFICES ASSUME NEW t \in Seq(Segment), Len(t) >= 1,
                    \A j \in 1 .. Len(t) : t[j].len > 0,
                    vb2_dc_get_contiguous_size(t) >= SumLens(t)
             PROVE  SegmentsChain(t)
  BY DEF ContigLoopSound, ContigRunCoversAll
<1> DEFINE n == Len(t)
           L == LoopFn(t)
           U == SumUpTo(t, n)
           P == {k \in 0 .. n : LoopInv(t, L, U, k)}
<1>1. n \in Nat /\ \A i \in 1 .. n : t[i] \in Segment
  BY SegmentsOf
<1>2. /\ L \in [0 .. n -> LoopState]
      /\ L[0] = ContigStart(t)
      /\ \A i \in 1 .. n : L[i] = ContigStep(L[i - 1], t[i])
  BY LoopFnDef
<1>3. /\ U \in [0 .. n -> Nat]
      /\ U[0] = 0
      /\ \A i \in 1 .. n : U[i] = U[i - 1] + t[i].len
  <2>1. n \in 0 .. Len(t)
    BY <1>1
  <2>2. QED
    BY <2>1, SumUpToDef
<1>4. 0 \in P
  BY <1>1, <1>2, <1>3 DEF P, LoopInv, ContigStart
<1>5. ASSUME NEW k \in 1 .. n, k - 1 \in P PROVE k \in P
  <2>1. LoopInv(t, L, U, k - 1)
    BY <1>5 DEF P
  <2>2. L[k - 1] \in LoopState /\ U[k - 1] \in Nat
    <3>1. k - 1 \in 0 .. n
      BY <1>1
    <3>2. QED
      BY <1>2, <1>3, <3>1, Zenon
  <2>3. L[k - 1].size \in Nat /\ L[k - 1].stop \in BOOLEAN
    BY <2>2, Zenon DEF LoopState
  <2>4. t[k].len \in Nat /\ t[k].len > 0
    <3>1. t[k] \in Segment
      BY <1>1
    <3>2. QED
      BY <3>1, Zenon DEF Segment
  <2>5. U[k] = U[k - 1] + t[k].len
    BY <1>3
  <2>6. L[k - 1].size <= U[k - 1]
    BY <2>1, <2>2, <2>3 DEF LoopInv
  <2>7. CASE L[k - 1].stop \/ t[k].addr # L[k - 1].expected
    <3>1. L[k] = [L[k - 1] EXCEPT !.stop = TRUE]
      BY <1>2, <2>7, Zenon DEF ContigStep
    <3>2. L[k].stop /\ L[k].size = L[k - 1].size
      BY <2>2, <3>1 DEF LoopState
    <3>3. L[k - 1].size < U[k]
      BY <2>2, <2>3, <2>4, <2>5, <2>6
    <3>4. QED
      BY <3>2, <3>3 DEF P, LoopInv
  <2>8. CASE ~L[k - 1].stop /\ t[k].addr = L[k - 1].expected
    <3>1. L[k] = [expected |-> SegEnd(t[k]), size |-> L[k - 1].size + t[k].len,
                  stop |-> FALSE]
      BY <1>2, <2>8, Zenon DEF ContigStep
    <3>2. /\ L[k - 1].size = U[k - 1]
          /\ \A j \in 2 .. k - 1 : t[j].addr = SegEnd(t[j - 1])
          /\ L[k - 1].expected = IF k - 1 = 0 THEN t[1].addr ELSE SegEnd(t[k - 1])
      BY <2>1, <2>8 DEF LoopInv
    <3>3. \A j \in 2 .. k : t[j].addr = SegEnd(t[j - 1])
      <4>1. CASE k = 1
        BY <4>1
      <4>2. CASE k > 1
        <5>1. t[k].addr = SegEnd(t[k - 1])
          BY <2>8, <3>2, <4>2
        <5>2. QED
          BY <3>2, <5>1
      <4>3. QED
        BY <4>1, <4>2
    <3>4. L[k].size = U[k]
      BY <2>5, <3>1, <3>2
    <3>5. QED
      BY <3>1, <3>3, <3>4 DEF P, LoopInv
  <2>9. QED
    BY <2>7, <2>8
<1>6. 0 .. n \subseteq P
  BY <1>1, <1>4, <1>5, SetInduction, Zenon
<1>7. LoopInv(t, L, U, n)
  BY <1>1, <1>6 DEF P
<1>8. L[n].size >= U[n]
  BY LoopFnIs, SumFnIs, Zenon DEF L, U, n
<1>9. L[n].size \in Nat /\ U[n] \in Nat
  <2>1. L[n] \in LoopState /\ U[n] \in Nat
    BY <1>1, <1>2, <1>3
  <2>2. QED
    BY <2>1, Zenon DEF LoopState
<1>10. ~L[n].stop
  BY <1>7, <1>8, <1>9 DEF LoopInv
<1>11. QED
  BY <1>7, <1>10 DEF LoopInv, SegmentsChain, n

-----------------------------------------------------------------------------
(* The first k segments of t chain: each starts where the one before it   *)
(* ends.                                                                   *)
Chained(t, k) == \A j \in 2 .. k : t[j].addr = SegEnd(t[j - 1])

(* The running sums of the lengths never decrease.                        *)
LEMMA SumMono ==
  ASSUME NEW t \in Seq(Segment), NEW j \in 0 .. Len(t), NEW k \in j .. Len(t)
  PROVE  SumUpTo(t, Len(t))[j] <= SumUpTo(t, Len(t))[k]
<1> DEFINE n == Len(t)
           U == SumUpTo(t, n)
           P == {m \in 0 .. n : j <= m => U[j] <= U[m]}
<1>1. n \in Nat /\ \A i \in 1 .. n : t[i] \in Segment
  BY SegmentsOf
<1>2. /\ U \in [0 .. n -> Nat]
      /\ \A i \in 1 .. n : U[i] = U[i - 1] + t[i].len
  <2>1. n \in 0 .. n
    BY <1>1
  <2>2. QED
    BY <2>1, SumUpToDef
<1>3. 0 \in P
  BY <1>1, <1>2 DEF P
<1>4. ASSUME NEW m \in 1 .. n, m - 1 \in P PROVE m \in P
  <2>1. t[m].len \in Nat
    <3>1. t[m] \in Segment
      BY <1>1
    <3>2. QED
      BY <3>1, Zenon DEF Segment
  <2>2. U[m - 1] \in Nat /\ U[j] \in Nat /\ U[m] = U[m - 1] + t[m].len
    BY <1>1, <1>2
  <2>3. j <= m - 1 => U[j] <= U[m - 1]
    BY <1>4 DEF P
  <2>4. QED
    BY <2>1, <2>2, <2>3 DEF P
<1>5. 0 .. n \subseteq P
  BY <1>1, <1>3, <1>4, SetInduction, Zenon
<1>6. QED
  BY <1>5 DEF P

(* What the loop knows of the place where it broke: while it runs it has   *)
(* counted every length and the segments so far chain; once it stopped,    *)
(* some segment m did not start at the end of segment m - 1, all before it *)
(* chain, and the size is the sum of the lengths before it.                *)
LoopBreak(t, L, U, k) ==
  /\ ~L[k].stop => /\ L[k].size = U[k]
                   /\ Chained(t, k)
                   /\ L[k].expected = IF k = 0 THEN t[1].addr ELSE SegEnd(t[k])
  /\ L[k].stop => \E m \in 2 .. k : /\ Chained(t, m - 1)
                                    /\ ~Chained(t, m)
                                    /\ L[k].size = U[m - 1]

LEMMA LoopBreakAll ==
  ASSUME NEW t \in Seq(Segment), Len(t) >= 1
  PROVE  \A k \in 0 .. Len(t) : LoopBreak(t, LoopFn(t), SumUpTo(t, Len(t)), k)
<1> DEFINE n == Len(t)
           L == LoopFn(t)
           U == SumUpTo(t, n)
           P == {k \in 0 .. n : LoopBreak(t, L, U, k)}
<1>1. n \in Nat /\ \A i \in 1 .. n : t[i] \in Segment
  BY SegmentsOf
<1>2. /\ L \in [0 .. n -> LoopState]
      /\ L[0] = ContigStart(t)
      /\ \A i \in 1 .. n : L[i] = ContigStep(L[i - 1], t[i])
  BY LoopFnDef
<1>3. /\ U \in [0 .. n -> Nat]
      /\ U[0] = 0
      /\ \A i \in 1 .. n : U[i] = U[i - 1] + t[i].len
  <2>1. n \in 0 .. Len(t)
    BY <1>1
  <2>2. QED
    BY <2>1, SumUpToDef
<1>4. 0 \in P
  BY <1>1, <1>2, <1>3 DEF P, LoopBreak, Chained, ContigStart
<1>5. ASSUME NEW k \in 1 .. n, k - 1 \in P PROVE k \in P
  <2>1. LoopBreak(t, L, U, k - 1)
    BY <1>5 DEF P
  <2>2. L[k - 1] \in LoopState
    <3>1. k - 1 \in 0 .. n
      BY <1>1
    <3>2. QED
      BY <1>2, <3>1
  <2>3. U[k] = U[k - 1] + t[k].len
    BY <1>3
  <2>4. CASE L[k - 1].stop
    <3>1. L[k] = [L[k - 1] EXCEPT !.stop = TRUE]
      BY <1>2, <2>4, Zenon DEF ContigStep
    <3>2. L[k].stop /\ L[k].size = L[k - 1].size
      BY <2>2, <3>1 DEF LoopState
    <3>3. PICK m \in 2 .. k - 1 : /\ Chained(t, m - 1)
                                 /\ ~Chained(t, m)
                                 /\ L[k - 1].size = U[m - 1]
      BY <2>1, <2>4 DEF LoopBreak
    <3>4. m \in 2 .. k
      OBVIOUS
    <3>5. QED
      BY <3>2, <3>3, <3>4 DEF P, LoopBreak
  <2>5. CASE ~L[k - 1].stop /\ t[k].addr # L[k - 1].expected
    <3>1. L[k] = [L[k - 1] EXCEPT !.stop = TRUE]
      BY <1>2, <2>5, Zenon DEF ContigStep
    <3>2. L[k].stop /\ L[k].size = L[k - 1].size
      BY <2>2, <3>1 DEF LoopState
    <3>3. /\ L[k - 1].size = U[k - 1]
          /\ Chained(t, k - 1)
          /\ L[k - 1].expected = IF k - 1 = 0 THEN t[1].addr ELSE SegEnd(t[k - 1])
      BY <2>1, <2>5 DEF LoopBreak
    <3>4. k # 1
      BY <2>5, <3>3
    <3>5. t[k].addr # SegEnd(t[k - 1])
      BY <2>5, <3>3, <3>4
    <3>6. ~Chained(t, k)
      BY <3>4, <3>5 DEF Chained
    <3>7. k \in 2 .. k
      BY <3>4
    <3>8. QED
      BY <3>2, <3>3, <3>6, <3>7 DEF P, LoopBreak
  <2>6. CASE ~L[k - 1].stop /\ t[k].addr = L[k - 1].expected
    <3>1. L[k] = [expected |-> SegEnd(t[k]), size |-> L[k - 1].size + t[k].len,
                  stop |-> FALSE]
      BY <1>2, <2>6, Zenon DEF ContigStep
    <3>2. /\ L[k - 1].size = U[k - 1]
          /\ Chained(t, k - 1)
          /\ L[k - 1].expected = IF k - 1 = 0 THEN t[1].addr ELSE SegEnd(t[k - 1])
      BY <2>1, <2>6 DEF LoopBreak
    <3>3. Chained(t, k)
      <4>1. CASE k = 1
        BY <4>1 DEF Chained
      <4>2. CASE k > 1
        <5>1. t[k].addr = SegEnd(t[k - 1])
          BY <2>6, <3>2, <4>2
        <5>2. QED
          BY <3>2, <5>1 DEF Chained
      <4>3. QED
        BY <4>1, <4>2
    <3>4. L[k].size = U[k]
      BY <2>3, <3>1, <3>2
    <3>5. QED
      BY <3>1, <3>3, <3>4 DEF P, LoopBreak
  <2>7. QED
    BY <2>4, <2>5, <2>6
<1>6. 0 .. n \subseteq P
  BY <1>1, <1>4, <1>5, SetInduction, Zenon
<1>7. QED
  BY <1>6 DEF P

(* Once the loop has stopped it stays stopped and its size stays put.      *)
LEMMA StopPersists ==
  ASSUME NEW t \in Seq(Segment), Len(t) >= 1, NEW k \in 0 .. Len(t),
         LoopFn(t)[k].stop
  PROVE  LoopFn(t)[Len(t)].stop /\ LoopFn(t)[Len(t)].size = LoopFn(t)[k].size
<1> DEFINE n == Len(t)
           L == LoopFn(t)
           P == {j \in 0 .. n : k <= j => L[j].stop /\ L[j].size = L[k].size}
<1>1. n \in Nat
  BY SegmentsOf
<1>2. /\ L \in [0 .. n -> LoopState]
      /\ \A i \in 1 .. n : L[i] = ContigStep(L[i - 1], t[i])
  BY LoopFnDef
<1>3. 0 \in P
  BY <1>1 DEF P
<1>4. ASSUME NEW j \in 1 .. n, j - 1 \in P PROVE j \in P
  <2>1. CASE k = j
    BY <1>1, <2>1 DEF P
  <2>2. CASE k <= j - 1
    <3>1. L[j - 1].stop /\ L[j - 1].size = L[k].size
      BY <1>4, <2>2 DEF P
    <3>2. L[j - 1] \in LoopState
      <4>1. j - 1 \in 0 .. n
        BY <1>1
      <4>2. QED
        BY <1>2, <4>1
    <3>3. L[j] = [L[j - 1] EXCEPT !.stop = TRUE]
      BY <1>2, <3>1, Zenon DEF ContigStep
    <3>4. L[j].stop /\ L[j].size = L[j - 1].size
      BY <3>2, <3>3 DEF LoopState
    <3>5. QED
      BY <1>1, <3>1, <3>4 DEF P
  <2>3. CASE j < k
    BY <1>1, <2>3 DEF P
  <2>4. QED
    BY <2>1, <2>2, <2>3
<1>5. 0 .. n \subseteq P
  BY <1>1, <1>3, <1>4, SetInduction, Zenon
<1>6. QED
  BY <1>1, <1>5 DEF P

(* When the loop of vb2_dc_get_contiguous_size has stopped or seen every   *)
(* segment, its size is what the function returns, it is the sum of the    *)
(* lengths of a chained prefix of the table, and no chained prefix is      *)
(* longer.                                                                 *)
LEMMA LoopResult ==
  ASSUME NEW t \in Seq(Segment), Len(t) >= 1, NEW k \in 0 .. Len(t),
         LoopFn(t)[k].stop \/ k = Len(t)
  PROVE  LET U == SumUpTo(t, Len(t))
             size == LoopFn(t)[k].size
         IN  /\ vb2_dc_get_contiguous_size(t) = size
             /\ \E c \in 0 .. Len(t) : Chained(t, c) /\ size = U[c]
             /\ \A c \in 0 .. Len(t) : Chained(t, c) => U[c] <= size
<1> DEFINE n == Len(t)
           L == LoopFn(t)
           U == SumUpTo(t, n)
<1>1. n \in Nat
  BY SegmentsOf
<1>2. L[k].size \in Nat
  <2>1. L \in [0 .. n -> LoopState]
    BY LoopFnDef
  <2>2. L[k] \in LoopState
    BY <2>1
  <2>3. QED
    BY <2>2, Zenon DEF LoopState
<1>3. U \in [0 .. n -> Nat]
  <2>1. n \in 0 .. n
    BY <1>1
  <2>2. QED
    BY <2>1, SumUpToDef
<1>4. LoopBreak(t, L, U, k)
  BY LoopBreakAll
<1>5. vb2_dc_get_contiguous_size(t) = L[k].size
  <2>1. vb2_dc_get_contiguous_size(t) = L[n].size
    BY LoopFnIs
  <2>2. CASE L[k].stop
    BY <2>1, <2>2, StopPersists
  <2>3. CASE k = n
    BY <2>1, <2>3
  <2>4. QED
    BY <2>2, <2>3
<1>6. CASE ~L[k].stop
  <2>1. k = n /\ L[k].size = U[n] /\ Chained(t, n)
    BY <1>4, <1>6 DEF LoopBreak
  <2>2. \E c \in 0 .. n : Chained(t, c) /\ L[k].size = U[c]
    BY <1>1, <2>1
  <2>3. \A c \in 0 .. n : U[c] <= U[n]
    BY <1>1, SumMono
  <2>4. QED
    BY <1>5, <2>1, <2>2, <2>3
<1>7. CASE L[k].stop
  <2>1. PICK m \in 2 .. k : /\ Chained(t, m - 1)
                           /\ ~Chained(t, m)
                           /\ L[k].size = U[m - 1]
    BY <1>4, <1>7 DEF LoopBreak
  <2>2. m - 1 \in 0 .. n
    BY <1>1
  <2>3. ASSUME NEW c \in 0 .. n, Chained(t, c) PROVE U[c] <= U[m - 1]
    <3>1. c <= m - 1
      <4>1. SUFFICES ASSUME m <= c PROVE FALSE
        OBVIOUS
      <4>2. Chained(t, m)
        BY <2>3, <4>1 DEF Chained
      <4>3. QED
        BY <2>1, <4>2
    <3>2. QED
      BY <1>1, <2>2, <3>1, SumMono
  <2>4. QED
    BY <1>5, <2>1, <2>2, <2>3
<1>8. QED
  BY <1>6, <1>7

=============================================================================
