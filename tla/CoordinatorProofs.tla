------------------------- MODULE CoordinatorProofs -------------------------
(***************************************************************************)
(* Proofs about the coordinator: about ChunkPlan, which cuts the file, for *)
(* files and probe windows of any size and any number of chunks; and about *)
(* Distribute, which runs the query over the parts, for any number of      *)
(* shards and of worker crashes.                                           *)
(***************************************************************************)
EXTENDS ChunkPlan, Distribute, TLAPS

-----------------------------------------------------------------------------
(* ChunkPlan. *)

\* What PlanChunks guarantees: ranges that follow each other from 0 to the
\* planned size.
NaiveShape ==
    /\ Len(naive) >= 1
    /\ Len(naive) <= IF want < 1 THEN 1 ELSE want
    /\ naive[1].offset = 0
    /\ \A k \in DOMAIN naive :
          /\ naive[k].offset >= 0
          /\ naive[k].length >= 0
          /\ k < Len(naive) => naive[k + 1].offset = naive[k].offset + naive[k].length
    /\ naive[Len(naive)].offset + naive[Len(naive)].length = planned
    /\ Len(naive) > 1 => planned > 0

\* A place where a line may be cut off: the file's start, just after a newline,
\* or the end of the bytes to read.
Boundary(b) == b = 0 \/ b = size \/ b - 1 \in nl

\* The ranges cut so far follow each other, and yield the lines of [0, start).
Cut ==
    /\ \A k \in DOMAIN aligned :
          /\ aligned[k].offset >= 0
          /\ aligned[k].length >= 0
          /\ aligned[k].offset + aligned[k].length <= start
          /\ k = 1 => aligned[k].offset = 0
          /\ k > 1 => aligned[k].offset > 0
    /\ \A j, k \in DOMAIN aligned :
          j < k => aligned[j].offset + aligned[j].length <= aligned[k].offset
    /\ \A k \in DOMAIN aligned : LinesOfChunk(aligned[k]) \subseteq LinesOf(nl, 0, start)
    /\ \A l \in LinesOf(nl, 0, start) :
          \E k \in DOMAIN aligned : l \in LinesOfChunk(aligned[k])
    /\ aligned # <<>> => aligned[Len(aligned)].offset + aligned[Len(aligned)].length = start

\* AlignChunks between two iterations.  The last line is why the next boundary
\* is never before start: past the naive boundary of the range just cut there
\* is no newline before the one that ended it.
Cutting ==
    /\ Len(naive) > 1
    /\ Len(aligned) < Len(naive)
    /\ 0 < size /\ planned <= size
    /\ 0 <= start /\ start <= size
    /\ Boundary(start)
    /\ aligned = <<>> => start = 0
    /\ aligned # <<>> => start > 0
    /\ \A q \in nl : naive[Len(aligned) + 1].offset <= q => start - 1 <= q \/ size <= q

Probing ==
    /\ Len(aligned) + 1 < Len(naive)
    /\ NaiveBoundary <= pos /\ pos < size
    /\ \A q \in nl : NaiveBoundary <= q => pos <= q

Fresh == naive = <<>> /\ aligned = <<>> /\ parts = <<>> /\ start = 0 /\ pos = 0

PlanIInv ==
    /\ PlanTypeOK
    /\ pc = "size" => Fresh
    /\ naive # <<>> => NaiveShape
    /\ pc = "align" => naive # <<>> /\ aligned = <<>> /\ start = 0 /\ pos = 0
    /\ pc \in {"chunk", "probe"} => naive # <<>> /\ Cutting /\ Cut
    /\ pc = "probe" => Probing
    /\ pc \in {"aligned", "ready"} =>
          /\ Cut
          /\ start = size
          /\ planned <= size
    /\ pc = "ready" =>
          /\ Len(parts) = Len(aligned)
          /\ \A k \in DOMAIN parts :
                /\ parts[k].offset = aligned[k].offset
                /\ parts[k].length = aligned[k].length
                /\ parts[k].skipHeader = (hasHeader /\ k = 1)

-----------------------------------------------------------------------------
(* Lines. *)

\* Cutting at a boundary loses no line and makes none: reading [0, mid) and
\* [mid, hi) apart yields the lines of [0, hi).
LEMMA LinesSplit ==
    ASSUME NEW S, S \subseteq Int, NEW mid \in Int, NEW hi \in Int,
           0 <= mid, mid <= hi,
           mid = 0 \/ mid = hi \/ mid - 1 \in S
    PROVE  LinesOf(S, 0, hi) = LinesOf(S, 0, mid) \cup LinesOf(S, mid, hi)
<1>1. ASSUME NEW l \in LinesOf(S, 0, hi)
      PROVE  l \in LinesOf(S, 0, mid) \cup LinesOf(S, mid, hi)
  <2>1. PICK a \in 0..hi, b \in 0..hi : l = <<a, b>>
    BY <1>1 DEF LinesOf
  <2>2. /\ a < b
        /\ a = 0 \/ a - 1 \in S
        /\ b = hi \/ b - 1 \in S
        /\ \A p \in S : ~(a <= p /\ p < b - 1)
    BY <1>1, <2>1 DEF LinesOf
  <2>3. CASE b <= mid
    BY <2>1, <2>2, <2>3 DEF LinesOf
  <2>4. CASE b > mid
    <3>1. a >= mid
      BY <2>1, <2>2, <2>4
    <3> QED BY <2>1, <2>2, <2>4, <3>1 DEF LinesOf
  <2> QED BY <2>1, <2>3, <2>4
<1>2. ASSUME NEW l \in LinesOf(S, 0, mid)
      PROVE  l \in LinesOf(S, 0, hi)
  <2>1. PICK a \in 0..mid, b \in 0..mid : l = <<a, b>>
    BY <1>2 DEF LinesOf
  <2>2. /\ a < b
        /\ a = 0 \/ a - 1 \in S
        /\ b = mid \/ b - 1 \in S
        /\ \A p \in S : ~(a <= p /\ p < b - 1)
    BY <1>2, <2>1 DEF LinesOf
  <2> QED BY <2>1, <2>2 DEF LinesOf
<1>3. ASSUME NEW l \in LinesOf(S, mid, hi)
      PROVE  l \in LinesOf(S, 0, hi)
  <2>1. PICK a \in mid..hi, b \in mid..hi : l = <<a, b>>
    BY <1>3 DEF LinesOf
  <2>2. /\ a < b
        /\ a = mid \/ a - 1 \in S
        /\ b = hi \/ b - 1 \in S
        /\ \A p \in S : ~(a <= p /\ p < b - 1)
    BY <1>3, <2>1 DEF LinesOf
  <2> QED BY <2>1, <2>2 DEF LinesOf
<1> QED BY <1>1, <1>2, <1>3

\* What is appended to a file does not change the lines before it.
LEMMA LinesStable ==
    ASSUME NEW S, S \subseteq Int, NEW T, T \subseteq Int,
           NEW lo \in Int, NEW hi \in Int,
           \A p \in Int : p < hi => (p \in S <=> p \in T)
    PROVE  LinesOf(S, lo, hi) = LinesOf(T, lo, hi)
<1>1. ASSUME NEW l \in (lo..hi) \X (lo..hi)
      PROVE  l \in LinesOf(S, lo, hi) <=> l \in LinesOf(T, lo, hi)
  <2>1. PICK a \in lo..hi, b \in lo..hi : l = <<a, b>>
    BY <1>1
  <2>2. (a - 1 \in S <=> a - 1 \in T) /\ (b - 1 \in S <=> b - 1 \in T)
    BY <2>1
  <2>3. (\A p \in S : ~(a <= p /\ p < b - 1)) <=> (\A p \in T : ~(a <= p /\ p < b - 1))
    BY <2>1
  <2> QED BY <1>1, <2>1, <2>2, <2>3 DEF LinesOf
<1> QED BY <1>1 DEF LinesOf

-----------------------------------------------------------------------------
(* The planner's pieces. *)

\* One multiple more.
LEMMA NextMultiple ==
    \A a, b \in Int : a * b = (a - 1) * b + b
OBVIOUS

\* What integer division leaves is not negative.
LEMMA Quotient ==
    \A a \in Nat, b \in Nat \ {0} : a \div b \in Nat /\ b * (a \div b) <= a
OBVIOUS

\* PlanChunks cuts [0, sz) into at most w ranges that follow each other.
LEMMA PlanChunksShape ==
    ASSUME NEW sz \in Nat, NEW w \in Int, NEW c, c = PlanChunks(sz, w)
    PROVE  /\ c \in Seq(Chunk)
           /\ Len(c) >= 1
           /\ Len(c) <= IF w < 1 THEN 1 ELSE w
           /\ c[1].offset = 0
           /\ \A k \in DOMAIN c :
                 /\ c[k].offset >= 0
                 /\ c[k].length >= 0
                 /\ k < Len(c) => c[k + 1].offset = c[k].offset + c[k].length
           /\ c[Len(c)].offset + c[Len(c)].length = sz
           /\ Len(c) > 1 => sz > 0
<1> DEFINE m == IF w < 1 THEN 1 ELSE w
           base == sz \div m
<1>1. m \in Nat \ {0}
  OBVIOUS
<1>2. base \in Nat /\ m * base <= sz
  BY <1>1, Quotient
<1>3. CASE sz = 0
  <2>1. c = <<[offset |-> 0, length |-> 0]>>
    BY <1>3 DEF PlanChunks
  <2> QED BY <2>1, <1>3, <1>1 DEF Chunk
<1>4. CASE sz > 0
  <2>1. c = [k \in 1..m |->
               [offset |-> (k - 1) * base,
                length |-> IF k = m THEN sz - (k - 1) * base ELSE base]]
    BY <1>4 DEF PlanChunks
  <2>2. \A k \in 1..m : (k - 1) * base \in Nat
    BY <1>1, <1>2
  <2>3. (m - 1) * base <= sz
    BY <1>1, <1>2
  <2> HIDE DEF base, m
  <2>4. \A k \in 1..m : k * base = (k - 1) * base + base
    BY <1>1, <1>2, NextMultiple
  <2>5. c \in Seq(Chunk) /\ Len(c) = m /\ DOMAIN c = 1..m
    BY <2>1, <2>2, <1>1, <1>2 DEF Chunk
  <2>6. \A k \in 1..m : /\ c[k].offset = (k - 1) * base
                        /\ c[k].length = IF k = m THEN sz - (k - 1) * base ELSE base
    BY <2>1
  <2>7. c[1].offset = 0
    BY <2>6, <1>1, <1>2
  <2>8. ASSUME NEW k \in 1..m
        PROVE  /\ c[k].offset >= 0
               /\ c[k].length >= 0
               /\ k < m => c[k + 1].offset = c[k].offset + c[k].length
    <3>1. c[k].offset >= 0
      BY <2>2, <2>6
    <3>2. c[k].length >= 0
      BY <2>3, <2>6, <1>1, <1>2
    <3>3. ASSUME k < m PROVE c[k + 1].offset = c[k].offset + c[k].length
      <4>1. k + 1 \in 1..m
        BY <3>3, <1>1
      <4>2. c[k + 1].offset = k * base
        BY <4>1, <2>6, <1>1
      <4>3. c[k].length = base
        BY <2>6, <3>3
      <4> QED BY <4>2, <4>3, <2>4, <2>6, <3>3
    <3> QED BY <3>1, <3>2, <3>3
  <2>9. c[m].offset + c[m].length = sz
    BY <2>6, <2>2, <1>1
  <2>10. Len(c) <= IF w < 1 THEN 1 ELSE w
    BY <2>5 DEF m
  <2> QED BY <2>5, <2>7, <2>8, <2>9, <2>10, <1>4, <1>1
<1> QED BY <1>3, <1>4

\* Append leaves the old elements in place and puts the new one last: what the
\* lemmas about ending a range need to know of `aligned = append(aligned, ...)`.
LEMMA AppendFacts ==
    ASSUME NEW S, NEW s \in Seq(S), NEW e \in S, NEW t, t = Append(s, e)
    PROVE  /\ t \in Seq(S)
           /\ Len(s) \in Nat
           /\ Len(t) = Len(s) + 1
           /\ DOMAIN s = 1..Len(s)
           /\ DOMAIN t = 1..(Len(s) + 1)
           /\ \A k \in 1..Len(s) : t[k] = s[k] /\ s[k] \in S
           /\ t[Len(s) + 1] = e
           /\ s = <<>> <=> Len(s) = 0
OBVIOUS

\* One more range, from where the last one ended to a later place, keeps the
\* ranges in order and adds exactly the lines up to that place.
LEMMA CutExtends ==
    ASSUME PlanTypeOK, Cut, NEW end \in Int,
           0 <= start, start <= end,
           start = 0 \/ start = end \/ start - 1 \in nl,
           aligned = <<>> => start = 0,
           aligned # <<>> => start > 0,
           aligned' = Append(aligned, [offset |-> start, length |-> end - start]),
           start' = end,
           nl' = nl
    PROVE  Cut'
<1> DEFINE new == [offset |-> start, length |-> end - start]
<1>1. /\ start \in Int
      /\ aligned \in Seq(Chunk)
      /\ nl \subseteq Int
  BY DEF PlanTypeOK
<1>2. /\ DOMAIN aligned = 1..Len(aligned)
      /\ DOMAIN aligned' = 1..(Len(aligned) + 1)
      /\ Len(aligned) \in Nat
      /\ \A k \in 1..Len(aligned) : aligned'[k] = aligned[k] /\ aligned[k] \in Chunk
      /\ aligned'[Len(aligned) + 1] = new
  <2>1. new \in Chunk
    BY <1>1 DEF Chunk
  <2> HIDE DEF new
  <2>2. aligned' = Append(aligned, new)
    BY DEF new
  <2> QED BY <1>1, <2>1, <2>2, AppendFacts
<1>3. aligned = <<>> <=> Len(aligned) = 0
  BY <1>1
<1>4. ASSUME NEW k \in DOMAIN aligned'
      PROVE  /\ aligned'[k].offset >= 0
             /\ aligned'[k].length >= 0
             /\ aligned'[k].offset + aligned'[k].length <= start'
             /\ k = 1 => aligned'[k].offset = 0
             /\ k > 1 => aligned'[k].offset > 0
  <2>1. CASE k = Len(aligned) + 1
    BY <2>1, <1>1, <1>2, <1>3
  <2>2. CASE k \in 1..Len(aligned)
    BY <2>2, <1>1, <1>2 DEF Cut, Chunk
  <2> QED BY <2>1, <2>2, <1>2
<1>5. ASSUME NEW j \in DOMAIN aligned', NEW k \in DOMAIN aligned', j < k
      PROVE  aligned'[j].offset + aligned'[j].length <= aligned'[k].offset
  <2>1. CASE k = Len(aligned) + 1
    BY <2>1, <1>5, <1>1, <1>2 DEF Cut, Chunk
  <2>2. CASE k \in 1..Len(aligned)
    BY <2>2, <1>5, <1>1, <1>2 DEF Cut
  <2> QED BY <2>1, <2>2, <1>2
<1> DEFINE L(k)  == LinesOf(nl, aligned[k].offset, aligned[k].offset + aligned[k].length)
           LL(k) == LinesOf(nl', aligned'[k].offset, aligned'[k].offset + aligned'[k].length)
<1>6. /\ \A k \in DOMAIN aligned' : LL(k) \subseteq LinesOf(nl', 0, start')
      /\ \A l \in LinesOf(nl', 0, start') : \E k \in DOMAIN aligned' : l \in LL(k)
  <2>1. \A k \in 1..Len(aligned) : LL(k) = L(k)
    BY <1>2
  <2>2. LL(Len(aligned) + 1) = LinesOf(nl, start, end)
    <3>1. new.offset = start /\ new.offset + new.length = end
      BY <1>1
    <3> HIDE DEF new
    <3> QED BY <3>1, <1>2
  <2>3. /\ \A k \in DOMAIN aligned : L(k) \subseteq LinesOf(nl, 0, start)
        /\ \A l \in LinesOf(nl, 0, start) : \E k \in DOMAIN aligned : l \in L(k)
    BY DEF Cut, LinesOfChunk
  <2>4. LinesOf(nl', 0, start') = LinesOf(nl, 0, start) \cup LinesOf(nl, start, end)
    BY LinesSplit, <1>1
  <2> HIDE DEF L, LL
  <2>5. ASSUME NEW k \in DOMAIN aligned'
        PROVE  LL(k) \subseteq LinesOf(nl', 0, start')
    <3>1. CASE k = Len(aligned) + 1
      BY <3>1, <2>2, <2>4
    <3>2. CASE k \in 1..Len(aligned)
      BY <3>2, <2>1, <2>3, <2>4, <1>2
    <3> QED BY <3>1, <3>2, <1>2
  <2>6. ASSUME NEW l \in LinesOf(nl', 0, start')
        PROVE  \E k \in DOMAIN aligned' : l \in LL(k)
    <3>1. CASE l \in LinesOf(nl, 0, start)
      BY <3>1, <2>1, <2>3, <1>2
    <3>2. CASE l \in LinesOf(nl, start, end)
      BY <3>2, <2>2, <1>2
    <3> QED BY <3>1, <3>2, <2>4, <2>6
  <2> QED BY <2>5, <2>6
<1>7. aligned' # <<>> => aligned'[Len(aligned')].offset + aligned'[Len(aligned')].length = start'
  <2>1. Len(aligned') = Len(aligned) + 1
    BY <1>1
  <2> QED BY <1>1, <1>2, <2>1
<1> QED BY <1>4, <1>5, <1>6, <1>7 DEF Cut, LinesOfChunk

\* Appending changes the file and nothing else, and no byte it had.
LEMMA GrowFileFacts ==
    ASSUME PlanTypeOK, GrowFile
    PROVE  /\ fsize' \in 0..MaxSize /\ fsize <= fsize'
           /\ nl' \subseteq 0..(fsize' - 1)
           /\ \A p \in nl : p \in nl' /\ p < fsize
           /\ \A p \in nl' : p \in nl \/ p >= fsize
           /\ UNCHANGED <<caller, want, hasHeader, pc, planned, naive, size, start,
                         pos, aligned, parts>>
<1>1. PICK sz \in (fsize + 1)..MaxSize, S \in SUBSET (fsize..(MaxSize - 1)) :
          /\ \A p \in S : p < sz
          /\ fsize' = sz
          /\ nl' = nl \cup S
  BY DEF GrowFile
<1>2. /\ fsize \in Int /\ 0 <= fsize /\ MaxSize \in Int
      /\ \A p \in nl : p \in Int /\ 0 <= p /\ p < fsize
  BY ChunkPlanAssumption DEF PlanTypeOK
<1>3. \A p \in S : p \in Int /\ fsize <= p /\ p < sz
  BY <1>1, <1>2
<1>4. UNCHANGED <<caller, want, hasHeader, pc, planned, naive, size, start, pos,
                  aligned, parts>>
  BY DEF GrowFile, input
<1>5. fsize' \in 0..MaxSize /\ fsize <= fsize'
  BY <1>1, <1>2
<1>6. nl' \subseteq 0..(fsize' - 1)
  <2>1. ASSUME NEW p \in nl' PROVE p \in Int /\ 0 <= p /\ p < fsize'
    <3>1. CASE p \in nl
      BY <3>1, <1>2, <1>5
    <3>2. CASE p \in S
      BY <3>2, <1>1, <1>2, <1>3
    <3> QED BY <3>1, <3>2, <1>1, <2>1
  <2>2. fsize' \in Int
    BY <1>5
  <2> QED BY <2>1, <2>2
<1>7. (\A p \in nl : p \in nl' /\ p < fsize) /\ (\A p \in nl' : p \in nl \/ p >= fsize)
  BY <1>1, <1>2, <1>3
<1> QED BY <1>4, <1>5, <1>6, <1>7

\* Whatever is appended leaves the ranges cut so far as they are.
LEMMA CutStable ==
    ASSUME PlanTypeOK, Cut, start <= size, GrowFile
    PROVE  Cut'
<1>1. /\ aligned' = aligned /\ start' = start
      /\ nl \subseteq Int /\ nl' \subseteq Int
      /\ aligned \in Seq(Chunk)
      /\ start \in Int /\ size \in Int /\ fsize \in Int /\ size <= fsize
  BY GrowFileFacts DEF PlanTypeOK
<1>2. \A p \in Int : p < fsize => (p \in nl <=> p \in nl')
  BY <1>1, GrowFileFacts
<1>3. ASSUME NEW lo \in Int, NEW hi \in Int, hi <= start
      PROVE  LinesOf(nl, lo, hi) = LinesOf(nl', lo, hi)
  <2>1. \A p \in Int : p < hi => (p \in nl <=> p \in nl')
    BY <1>1, <1>2, <1>3
  <2> QED BY <1>1, <2>1, LinesStable
<1>4. ASSUME NEW k \in DOMAIN aligned
      PROVE  LinesOf(nl, aligned[k].offset, aligned[k].offset + aligned[k].length)
               = LinesOf(nl', aligned[k].offset, aligned[k].offset + aligned[k].length)
  <2>1. /\ aligned[k].offset \in Int
        /\ aligned[k].offset + aligned[k].length \in Int
        /\ aligned[k].offset + aligned[k].length <= start
    <3>1. aligned[k] \in Chunk
      BY <1>1
    <3>2. aligned[k].offset \in Int /\ aligned[k].length \in Int
      BY <3>1 DEF Chunk
    <3> QED BY <3>2 DEF Cut
  <2> QED BY <2>1, <1>3
<1>5. LinesOf(nl, 0, start) = LinesOf(nl', 0, start)
  BY <1>1, <1>3
<1> QED BY <1>1, <1>4, <1>5 DEF Cut, LinesOfChunk

-----------------------------------------------------------------------------
(* The inductive invariant. *)

\* PlanIInv holds before the planner has done anything.
LEMMA PlanInitInv == PlanInit => PlanIInv
  BY DEF PlanInit, PlanIInv, PlanTypeOK, Fresh, Chunk

\* Somebody appending to the file, at any moment, preserves PlanIInv.
LEMMA GrowFileInv == PlanIInv /\ GrowFile => PlanIInv'
<1> SUFFICES ASSUME PlanIInv, GrowFile PROVE PlanIInv'
  OBVIOUS
<1>1. UNCHANGED <<caller, want, hasHeader, pc, planned, naive, size, start, pos,
                  aligned, parts>>
  BY GrowFileFacts DEF PlanIInv
<1>2. /\ fsize' \in 0..MaxSize /\ fsize <= fsize'
      /\ nl' \subseteq 0..(fsize' - 1)
      /\ \A p \in nl : p \in nl' /\ p < fsize
      /\ \A q \in nl' : q \in nl \/ q >= fsize
  BY GrowFileFacts DEF PlanIInv
<1>3. PlanTypeOK'
  <2>1. planned \in 0..fsize' /\ size \in 0..fsize'
    BY <1>2 DEF PlanIInv, PlanTypeOK
  <2> QED BY <1>1, <1>2, <2>1 DEF PlanIInv, PlanTypeOK
<1>4. Fresh' = Fresh /\ NaiveShape' = NaiveShape /\ NaiveBoundary' = NaiveBoundary
  BY <1>1 DEF Fresh, NaiveShape, NaiveBoundary
<1>5. pc \in {"chunk", "probe"} => Cutting'
  BY <1>1, <1>2 DEF PlanIInv, PlanTypeOK, Cutting, Boundary
<1>6. pc = "probe" => Probing'
  BY <1>1, <1>2, <1>4 DEF PlanIInv, PlanTypeOK, Probing
<1>7. pc \in {"chunk", "probe", "aligned", "ready"} => Cut'
  <2>1. pc \in {"chunk", "probe", "aligned", "ready"} => Cut /\ start <= size
    BY DEF PlanIInv, PlanTypeOK, Cutting
  <2> QED BY <2>1, CutStable DEF PlanIInv
<1> QED BY <1>1, <1>2, <1>3, <1>4, <1>5, <1>6, <1>7 DEF PlanIInv

\* Planning naive ranges from the size that was read establishes NaiveShape.
LEMMA PlanInv == PlanIInv /\ Plan => PlanIInv'
<1> SUFFICES ASSUME PlanIInv, Plan PROVE PlanIInv'
  OBVIOUS
<1> USE DEF file, input
<1>1. CASE pc' = "align"
  <2>1. /\ planned' = fsize
        /\ naive' = PlanChunks(fsize, want)
        /\ UNCHANGED <<fsize, nl, caller, want, hasHeader, size, start, pos, aligned, parts>>
    BY <1>1 DEF Plan
  <2>2. fsize \in Nat /\ want \in Int
    BY ChunkPlanAssumption DEF PlanIInv, PlanTypeOK
  <2>3. NaiveShape' /\ naive' \in Seq(Chunk) /\ naive' # <<>>
    <3> DEFINE c == PlanChunks(fsize, want)
    <3>1. /\ c \in Seq(Chunk)
          /\ Len(c) >= 1
          /\ Len(c) <= IF want < 1 THEN 1 ELSE want
          /\ c[1].offset = 0
          /\ \A k \in DOMAIN c :
                /\ c[k].offset >= 0
                /\ c[k].length >= 0
                /\ k < Len(c) => c[k + 1].offset = c[k].offset + c[k].length
          /\ c[Len(c)].offset + c[Len(c)].length = fsize
          /\ Len(c) > 1 => fsize > 0
      BY <2>2, PlanChunksShape
    <3> HIDE DEF c
    <3>2. naive' = c
      BY <2>1 DEF c
    <3>3. c # <<>>
      BY <3>1
    <3> QED BY <2>1, <3>1, <3>2, <3>3 DEF NaiveShape
  <2>4. PlanTypeOK'
    BY <1>1, <2>1, <2>2, <2>3 DEF PlanIInv, PlanTypeOK
  <2>5. aligned' = <<>> /\ start' = 0 /\ pos' = 0
    BY <2>1 DEF PlanIInv, Plan, Fresh
  <2> QED BY <1>1, <2>3, <2>4, <2>5 DEF PlanIInv
<1>2. CASE pc' \in {"single", "failed"}
  <2>1. UNCHANGED <<fsize, nl, caller, want, hasHeader, planned, naive, size, start, pos, aligned, parts>>
    BY <1>2 DEF Plan
  <2>2. PlanTypeOK'
    BY <1>2, <2>1 DEF PlanIInv, PlanTypeOK
  <2>3. NaiveShape' = NaiveShape
    BY <2>1 DEF NaiveShape
  <2> QED BY <1>2, <2>1, <2>2, <2>3 DEF PlanIInv
<1> QED BY <1>1, <1>2 DEF Plan

\* AlignChunks' start: a single range is final, several are cut from offset 0.
LEMMA AlignBeginInv == PlanIInv /\ AlignBegin => PlanIInv'
<1> SUFFICES ASSUME PlanIInv, AlignBegin PROVE PlanIInv'
  OBVIOUS
<1>1. /\ UNCHANGED <<fsize, nl, caller, want, hasHeader, planned, naive, pos, parts>>
      /\ pc = "align" /\ naive # <<>> /\ NaiveShape /\ aligned = <<>> /\ pos = 0
  BY DEF PlanIInv, AlignBegin, file, input
<1>2. /\ naive \in Seq(Chunk) /\ Len(naive) \in Nat
      /\ fsize \in Nat /\ planned \in 0..fsize
      /\ \A k \in DOMAIN naive : naive[k].offset \in Int /\ naive[k].length \in Int
      /\ DOMAIN naive = 1..Len(naive)
  <2>1. /\ naive \in Seq(Chunk) /\ Len(naive) \in Nat /\ DOMAIN naive = 1..Len(naive)
        /\ fsize \in Nat /\ planned \in 0..fsize
    BY ChunkPlanAssumption DEF PlanIInv, PlanTypeOK
  <2>2. \A k \in DOMAIN naive : naive[k] \in Chunk
    BY <2>1
  <2> QED BY <2>1, <2>2 DEF Chunk
<1>3. NaiveShape'
  BY <1>1 DEF NaiveShape
<1>4. CASE Len(naive) <= 1
  <2>1. /\ aligned' = naive /\ size' = planned /\ pc' = "aligned"
        /\ start' = naive[1].offset + naive[1].length
    BY <1>4 DEF AlignBegin
  <2>2. /\ Len(naive) = 1 /\ DOMAIN naive = {1}
        /\ naive[1].offset = 0 /\ naive[1].length = planned /\ start' = planned
    BY <1>1, <1>2, <1>4, <2>1 DEF NaiveShape
  <2>3. PlanTypeOK'
    BY <1>1, <1>2, <2>1, <2>2 DEF PlanIInv, PlanTypeOK
  <2>4. Cut'
    BY <1>1, <1>2, <2>1, <2>2 DEF Cut, LinesOfChunk
  <2> QED BY <1>1, <1>2, <1>3, <2>1, <2>2, <2>3, <2>4 DEF PlanIInv
<1>5. CASE Len(naive) > 1
  <2>1. /\ aligned' = <<>> /\ size' = fsize /\ start' = 0 /\ pc' = "chunk"
    BY <1>1, <1>2, <1>5 DEF AlignBegin, NaiveShape
  <2>2. PlanTypeOK'
    BY <1>1, <1>2, <2>1 DEF PlanIInv, PlanTypeOK
  <2>3. Cutting'
    BY <1>1, <1>2, <1>5, <2>1 DEF PlanIInv, PlanTypeOK, Cutting, Boundary, NaiveShape
  <2>4. LinesOf(nl', 0, start') = {}
    BY <2>1 DEF LinesOf
  <2>5. Cut'
    BY <2>1, <2>4 DEF Cut
  <2> QED BY <1>1, <1>3, <2>1, <2>2, <2>3, <2>5 DEF PlanIInv
<1> QED BY <1>2, <1>4, <1>5

\* A range ended at a place that is no earlier than the last one, is a place
\* where a line ends, and is the first such place past the naive boundary.
LEMMA EndChunkInv ==
    ASSUME PlanIInv, pc \in {"chunk", "probe"}, Len(aligned) + 1 < Len(naive),
           NEW end \in Int, start <= end, 0 < end, end <= size,
           end = size \/ end - 1 \in nl,
           \A q \in nl : NaiveBoundary <= q => end - 1 <= q \/ size <= q,
           EndChunkAt(end),
           UNCHANGED <<file, input, planned, naive, size, parts>>,
           pos' \in 0..size
    PROVE  PlanIInv'
<1>1. /\ UNCHANGED <<fsize, nl, caller, want, hasHeader, planned, naive, size, parts>>
      /\ pc' = "chunk" /\ start' = end
      /\ aligned' = Append(aligned, [offset |-> start, length |-> end - start])
  BY DEF EndChunkAt, file, input
<1>2. /\ PlanTypeOK /\ naive # <<>> /\ NaiveShape /\ Cutting /\ Cut
  BY DEF PlanIInv
<1>3. /\ aligned \in Seq(Chunk) /\ start \in Int /\ end - start \in Int
      /\ naive \in Seq(Chunk) /\ Len(naive) \in Nat /\ DOMAIN naive = 1..Len(naive)
      /\ size \in Int /\ planned \in Int
  BY <1>2 DEF PlanTypeOK
<1>4. /\ aligned' \in Seq(Chunk) /\ Len(aligned) \in Nat
      /\ Len(aligned') = Len(aligned) + 1 /\ aligned' # <<>>
  <2> DEFINE new == [offset |-> start, length |-> end - start]
  <2>1. new \in Chunk
    BY <1>3 DEF Chunk
  <2> HIDE DEF new
  <2>2. aligned' = Append(aligned, new)
    BY <1>1 DEF new
  <2> QED BY <1>3, <2>1, <2>2, AppendFacts
<1>5. PlanTypeOK'
  BY <1>1, <1>2, <1>4 DEF PlanTypeOK
<1>6. NaiveShape'
  BY <1>1, <1>2 DEF NaiveShape
<1>7. Cut'
  <2>1. start = 0 \/ start = end \/ start - 1 \in nl
    BY <1>2, <1>3 DEF Cutting, Boundary
  <2> QED BY <1>1, <1>2, <2>1, CutExtends DEF Cutting
<1>8. Cutting'
  <2>1. naive[Len(aligned) + 2].offset = NaiveBoundary
    <3>1. Len(aligned) + 1 \in DOMAIN naive /\ Len(aligned) + 1 < Len(naive)
      BY <1>3, <1>4
    <3>2. naive[Len(aligned) + 1 + 1].offset = NaiveBoundary
      BY <1>2, <3>1 DEF NaiveShape, NaiveBoundary
    <3> QED BY <3>2, <1>4
  <2>2. naive'[Len(aligned') + 1].offset = NaiveBoundary
    BY <1>1, <1>4, <2>1
  <2>3. \A q \in nl' : naive'[Len(aligned') + 1].offset <= q => start' - 1 <= q \/ size' <= q
    BY <1>1, <2>2
  <2>4. Boundary(start)'
    BY <1>1 DEF Boundary
  <2> QED BY <1>1, <1>2, <1>3, <1>4, <2>3, <2>4 DEF Cutting
<1> QED BY <1>1, <1>2, <1>5, <1>6, <1>7, <1>8 DEF PlanIInv

\* The last range takes what is left up to the size, and so all lines are cut.
LEMMA LastChunkInv == PlanIInv /\ LastChunk => PlanIInv'
<1> SUFFICES ASSUME PlanIInv, LastChunk PROVE PlanIInv'
  OBVIOUS
<1>1. /\ UNCHANGED <<fsize, nl, caller, want, hasHeader, planned, naive, size, pos, parts>>
      /\ pc = "chunk" /\ pc' = "aligned" /\ start' = size
      /\ aligned' = Append(aligned, [offset |-> start, length |-> size - start])
  BY DEF LastChunk, file, input
<1>2. /\ PlanTypeOK /\ naive # <<>> /\ NaiveShape /\ Cutting /\ Cut
  BY <1>1 DEF PlanIInv
<1>3. /\ aligned \in Seq(Chunk) /\ start \in Int /\ size \in Int /\ planned \in Int
  BY <1>2 DEF PlanTypeOK
<1>4. aligned' \in Seq(Chunk)
  BY <1>1, <1>3 DEF Chunk
<1>5. PlanTypeOK'
  BY <1>1, <1>2, <1>3, <1>4 DEF PlanTypeOK
<1>6. Cut'
  <2>1. start = 0 \/ start = size \/ start - 1 \in nl
    BY <1>2 DEF Cutting, Boundary
  <2> QED BY <1>1, <1>2, <1>3, <2>1, CutExtends DEF Cutting
<1>7. NaiveShape'
  BY <1>1, <1>2 DEF NaiveShape
<1> QED BY <1>1, <1>2, <1>5, <1>6, <1>7 DEF PlanIInv, Cutting

\* The naive boundary of the range being cut is past its naive start.
LEMMA NaiveBoundaryFacts ==
    ASSUME PlanIInv, pc \in {"chunk", "probe"}, Len(aligned) + 1 < Len(naive)
    PROVE  /\ NaiveBoundary \in Int
           /\ 0 <= NaiveBoundary
           /\ naive[Len(aligned) + 1].offset \in Int
           /\ naive[Len(aligned) + 1].offset <= NaiveBoundary
<1>1. /\ naive \in Seq(Chunk) /\ aligned \in Seq(Chunk) /\ NaiveShape
  BY DEF PlanIInv, PlanTypeOK
<1>2. Len(aligned) + 1 \in DOMAIN naive
  BY <1>1
<1>3. naive[Len(aligned) + 1] \in Chunk
  BY <1>1, <1>2
<1> QED BY <1>1, <1>2, <1>3, SMTT(30) DEF NaiveBoundary, NaiveShape, Chunk

\* A probe begins at the naive boundary, or the range ends at the file's end.
LEMMA ProbeBeginInv == PlanIInv /\ ProbeBegin => PlanIInv'
<1> SUFFICES ASSUME PlanIInv, ProbeBegin PROVE PlanIInv'
  OBVIOUS
<1>1. /\ UNCHANGED <<file, input, planned, naive, size, parts>>
      /\ UNCHANGED <<fsize, nl, caller, want, hasHeader>>
      /\ pc = "chunk" /\ Len(aligned) + 1 < Len(naive)
      /\ naive # <<>> /\ NaiveShape /\ Cutting /\ Cut /\ PlanTypeOK
  BY DEF ProbeBegin, PlanIInv, file, input
<1>2. /\ NaiveBoundary \in Int /\ 0 <= NaiveBoundary
  BY <1>1, NaiveBoundaryFacts
<1>3. /\ size \in Int /\ start \in Int /\ pos \in 0..size /\ nl \subseteq Int
      /\ 0 < size /\ start <= size
  BY <1>1 DEF PlanTypeOK, Cutting
<1>4. CASE NaiveBoundary >= size
  <2>1. EndChunkAt(size) /\ pos' = pos
    BY <1>4 DEF ProbeBegin
  <2>2. \A q \in nl : NaiveBoundary <= q => size - 1 <= q \/ size <= q
    BY <1>2, <1>3, <1>4
  <2> QED BY <1>1, <1>3, <2>1, <2>2, EndChunkInv
<1>5. CASE NaiveBoundary < size
  <2>1. pos' = NaiveBoundary /\ pc' = "probe" /\ UNCHANGED <<aligned, start>>
    BY <1>2, <1>3, <1>5 DEF ProbeBegin
  <2>2. PlanTypeOK'
    BY <1>1, <1>2, <1>3, <1>5, <2>1 DEF PlanTypeOK
  <2>3. NaiveShape' /\ Cutting' /\ Cut'
    BY <1>1, <2>1 DEF NaiveShape, Cutting, Cut, Boundary, LinesOfChunk
  <2>4. Probing'
    BY <1>1, <1>2, <1>3, <1>5, <2>1 DEF Probing, NaiveBoundary
  <2> QED BY <1>1, <2>1, <2>2, <2>3, <2>4 DEF PlanIInv
<1> QED BY <1>2, <1>3, <1>4, <1>5

\* A window without newline moves the probe on and has skipped no line end; one
\* with a newline, and the end of the file, end the range.
LEMMA ProbeInv == PlanIInv /\ Probe => PlanIInv'
<1> SUFFICES ASSUME PlanIInv, Probe PROVE PlanIInv'
  OBVIOUS
<1>1. /\ UNCHANGED <<file, input, planned, naive, size, parts>>
      /\ UNCHANGED <<fsize, nl, caller, want, hasHeader>>
      /\ pc = "probe" /\ naive # <<>> /\ NaiveShape /\ Cutting /\ Cut /\ PlanTypeOK /\ Probing
  BY DEF Probe, PlanIInv, file, input
<1>2. /\ Len(aligned) + 1 < Len(naive)
      /\ NaiveBoundary <= pos /\ pos < size
      /\ \A q \in nl : NaiveBoundary <= q => pos <= q
  BY <1>1 DEF Probing
<1>3. /\ NaiveBoundary \in Int /\ 0 <= NaiveBoundary
      /\ naive[Len(aligned) + 1].offset \in Int
      /\ naive[Len(aligned) + 1].offset <= NaiveBoundary
  BY <1>1, <1>2, NaiveBoundaryFacts
<1>4. /\ size \in Int /\ start \in Int /\ pos \in 0..size /\ nl \subseteq Int
      /\ 0 < size /\ start <= size /\ ProbeWindow \in Int /\ ProbeWindow > 0
  BY <1>1, ChunkPlanAssumption DEF PlanTypeOK, Cutting
<1>5. CASE NewlineFound
  <2>1. PICK q \in Window(pos) : /\ \A r \in Window(pos) : q <= r
                                /\ EndChunkAt(q + 1)
                                /\ pos' = pos
    BY <1>5 DEF NewlineFound
  <2>2. q \in nl /\ q \in Int /\ pos <= q /\ q < pos + ProbeWindow /\ q < size
    BY <1>4 DEF Window
  <2>3. start <= q + 1
    BY <1>1, <1>2, <1>3, <1>4, <2>2 DEF Cutting
  <2>4. ASSUME NEW r \in nl, NaiveBoundary <= r
        PROVE  (q + 1) - 1 <= r \/ size <= r
    <3>1. pos <= r /\ r \in Int
      BY <1>2, <1>4, <2>4
    <3>2. CASE r < q
      BY <3>1, <3>2, <2>1, <2>2, <1>4 DEF Window
    <3> QED BY <3>1, <3>2, <2>2
  <2>5. q + 1 \in Int /\ 0 < q + 1 /\ q + 1 <= size /\ (q + 1) - 1 \in nl
    BY <2>2, <1>2, <1>3, <1>4
  <2> QED BY <1>1, <1>2, <1>4, <2>1, <2>3, <2>4, <2>5, EndChunkInv
<1>6. CASE Window(pos) = {} /\ pos + ProbeWindow < size /\ pos' = pos + ProbeWindow
             /\ UNCHANGED <<pc, aligned, start>>
  <2>1. PlanTypeOK'
    BY <1>1, <1>4, <1>6 DEF PlanTypeOK
  <2>2. NaiveShape' /\ Cutting' /\ Cut'
    BY <1>1, <1>6 DEF NaiveShape, Cutting, Cut, Boundary, LinesOfChunk
  <2>3. ASSUME NEW r \in nl, NaiveBoundary <= r
        PROVE  pos + ProbeWindow <= r
    BY <1>2, <1>4, <1>6, <2>3 DEF Window
  <2>4. Probing'
    BY <1>1, <1>2, <1>3, <1>4, <1>6, <2>3 DEF Probing, NaiveBoundary
  <2> QED BY <1>1, <1>6, <2>1, <2>2, <2>4 DEF PlanIInv
<1>7. CASE Window(pos) = {} /\ pos + ProbeWindow >= size /\ EndChunkAt(size) /\ pos' = pos
  <2>1. ASSUME NEW r \in nl, NaiveBoundary <= r
        PROVE  size - 1 <= r \/ size <= r
    BY <1>2, <1>4, <1>7, <2>1 DEF Window
  <2> QED BY <1>1, <1>2, <1>4, <1>7, <2>1, EndChunkInv
<1> QED BY <1>5, <1>6, <1>7 DEF Probe

\* Handing out the ranges changes none of them and marks one for the header.
LEMMA AssignInv == PlanIInv /\ Assign => PlanIInv'
<1> SUFFICES ASSUME PlanIInv, Assign PROVE PlanIInv'
  OBVIOUS
<1>1. /\ UNCHANGED <<fsize, nl, caller, want, hasHeader, planned, naive, size, start, pos, aligned>>
      /\ pc = "aligned" /\ pc' = "ready"
      /\ parts' = [k \in 1..Len(aligned) |->
                      [offset |-> aligned[k].offset, length |-> aligned[k].length,
                       skipHeader |-> hasHeader /\ k = 1]]
  BY DEF Assign, file, input
<1>2. /\ PlanTypeOK /\ Cut /\ start = size /\ planned <= size
  BY <1>1 DEF PlanIInv
<1>3. /\ aligned \in Seq(Chunk) /\ Len(aligned) \in Nat /\ hasHeader \in BOOLEAN
      /\ \A k \in 1..Len(aligned) : aligned[k].offset \in Int /\ aligned[k].length \in Int
  <2>1. aligned \in Seq(Chunk) /\ Len(aligned) \in Nat /\ hasHeader \in BOOLEAN
    BY <1>2 DEF PlanTypeOK
  <2>2. \A k \in 1..Len(aligned) : aligned[k] \in Chunk
    BY <2>1
  <2> QED BY <2>1, <2>2 DEF Chunk
<1>4. /\ parts' \in Seq([offset : Int, length : Int, skipHeader : BOOLEAN])
      /\ Len(parts') = Len(aligned) /\ DOMAIN parts' = 1..Len(aligned)
  BY <1>1, <1>3
<1>5. \A k \in DOMAIN parts' : /\ parts'[k].offset = aligned[k].offset
                              /\ parts'[k].length = aligned[k].length
                              /\ parts'[k].skipHeader = (hasHeader /\ k = 1)
  BY <1>1, <1>4
<1>6. PlanTypeOK'
  BY <1>1, <1>2, <1>4 DEF PlanTypeOK
<1>7. Cut' /\ (naive # <<>> => NaiveShape')
  BY <1>1, <1>2 DEF PlanIInv, Cut, LinesOfChunk, NaiveShape
<1> QED BY <1>1, <1>2, <1>4, <1>5, <1>6, <1>7 DEF PlanIInv

\* PlanIInv is inductive: every action preserves it.
LEMMA PlanStepInv == PlanIInv /\ [PlanNext]_planVars => PlanIInv'
<1>1. PlanIInv /\ PlanFails => PlanIInv'
  <2> SUFFICES ASSUME PlanIInv, PlanFails PROVE PlanIInv'
    OBVIOUS
  <2>1. /\ pc' = "failed"
        /\ UNCHANGED <<fsize, nl, caller, want, hasHeader, planned, naive, size, start, pos,
                      aligned, parts>>
    BY DEF PlanFails, file, input
  <2>2. PlanTypeOK'
    BY <2>1 DEF PlanIInv, PlanTypeOK
  <2>3. NaiveShape' = NaiveShape
    BY <2>1 DEF NaiveShape
  <2> QED BY <2>1, <2>2, <2>3 DEF PlanIInv
<1>2. PlanIInv /\ UNCHANGED planVars => PlanIInv'
  <2> SUFFICES ASSUME PlanIInv, UNCHANGED planVars PROVE PlanIInv'
    OBVIOUS
  <2>1. UNCHANGED <<fsize, nl, caller, want, hasHeader, pc, planned, naive, size, start, pos,
                    aligned, parts>>
    BY DEF planVars
  <2>2. /\ PlanTypeOK' = PlanTypeOK /\ Fresh' = Fresh /\ NaiveShape' = NaiveShape
        /\ Cutting' = Cutting /\ Cut' = Cut /\ Probing' = Probing
    BY <2>1 DEF PlanTypeOK, Fresh, NaiveShape, Cutting, Cut, Probing, Boundary, LinesOfChunk,
                NaiveBoundary
  <2> QED BY <2>1, <2>2 DEF PlanIInv
<1> QED BY <1>1, <1>2, GrowFileInv, PlanInv, AlignBeginInv, LastChunkInv, ProbeBeginInv,
          ProbeInv, AssignInv DEF PlanNext, Step

\* The ranges cut so far hold, between them, exactly the lines of the bytes
\* they cover, at every moment of AlignChunks' run.
THEOREM PlanInvariance == PlanSpec => []PlanIInv
BY PlanInitInv, PlanStepInv, PTL DEF PlanSpec

-----------------------------------------------------------------------------
(* What follows from it. *)

\* Every variable of the planner keeps its type, and the sizes it works with
\* never exceed the file's.
THEOREM PlanTypeCorrect == PlanSpec => []PlanTypeOK
<1>1. PlanIInv => PlanTypeOK
  BY DEF PlanIInv
<1> QED BY <1>1, PlanInvariance, PTL

\* PlanChunks' ranges are a partition of the planned bytes into no more ranges
\* than were asked for.
THEOREM NaiveCorrect == PlanSpec => []NaivePartition
<1>1. PlanIInv => NaivePartition
  BY DEF PlanIInv, NaivePartition, NaiveShape
<1> QED BY <1>1, PlanInvariance, PTL

\* The ranges handed to the readers yield every row of the file once, and its
\* header never, whatever the number of chunks, the size of the file, of its
\* lines and of the probe window.
THEOREM RowsCorrect == PlanSpec => []RowsOnce
<1>1. PlanIInv => RowsOnce
  <2> SUFFICES ASSUME PlanIInv, pc = "ready" PROVE RowsOnce
    BY DEF RowsOnce
  <2>1. /\ Cut /\ start = size /\ Len(parts) = Len(aligned)
        /\ \A k \in DOMAIN parts : /\ parts[k].offset = aligned[k].offset
                                  /\ parts[k].length = aligned[k].length
                                  /\ parts[k].skipHeader = (hasHeader /\ k = 1)
    BY DEF PlanIInv
  <2>2. /\ DOMAIN parts = DOMAIN aligned /\ DOMAIN aligned = 1..Len(aligned) /\ Len(aligned) \in Nat
        /\ \A k \in DOMAIN parts : aligned[k].offset \in Int /\ aligned[k].length \in Int
    <3>1. aligned \in Seq(Chunk)
          /\ parts \in Seq([offset : Int, length : Int, skipHeader : BOOLEAN])
      BY DEF PlanIInv, PlanTypeOK
    <3>2. \A k \in DOMAIN aligned : aligned[k] \in Chunk
      BY <3>1
    <3> QED BY <2>1, <3>1, <3>2 DEF Chunk
  <2>3. ASSUME NEW k \in DOMAIN parts
        PROVE  LinesOfChunk(parts[k]) = LinesOfChunk(aligned[k])
    BY <2>1 DEF LinesOfChunk
  <2>4. ASSUME NEW k \in DOMAIN parts, NEW l \in LinesOfChunk(parts[k])
        PROVE  /\ l[1] \in Int /\ l[2] \in Int /\ l[1] < l[2]
               /\ aligned[k].offset <= l[1]
               /\ l[2] <= aligned[k].offset + aligned[k].length
    BY <2>2, <2>3, <2>4 DEF LinesOfChunk, LinesOf
  <2>5. ASSUME NEW k \in DOMAIN parts, NEW l \in LinesOfChunk(parts[k])
        PROVE  l \in RowsOf(parts[k]) <=> ~(hasHeader /\ l[1] = 0)
    <3>1. CASE k = 1
      BY <3>1, <2>1, <2>2, <2>5 DEF RowsOf, Cut
    <3>2. CASE k # 1
      <4>1. l[1] # 0
        BY <3>2, <2>1, <2>2, <2>4, <2>5 DEF Cut
      <4> QED BY <3>2, <4>1, <2>1, <2>5 DEF RowsOf
    <3> QED BY <3>1, <3>2
  <2>6. ASSUME NEW l
        PROVE  l \in UNION {RowsOf(parts[k]) : k \in DOMAIN parts}
                 <=> l \in {x \in LinesOf(nl, 0, size) : ~(hasHeader /\ x[1] = 0)}
    <3>1. ASSUME NEW k \in DOMAIN parts, l \in RowsOf(parts[k])
          PROVE  l \in LinesOf(nl, 0, size) /\ ~(hasHeader /\ l[1] = 0)
      <4>1. l \in LinesOfChunk(parts[k])
        BY <3>1 DEF RowsOf
      <4> QED BY <3>1, <4>1, <2>1, <2>2, <2>3, <2>5 DEF Cut
    <3>2. ASSUME l \in LinesOf(nl, 0, size), ~(hasHeader /\ l[1] = 0)
          PROVE  \E k \in DOMAIN parts : l \in RowsOf(parts[k])
      <4>1. PICK k \in DOMAIN aligned : l \in LinesOfChunk(aligned[k])
        BY <3>2, <2>1 DEF Cut
      <4> QED BY <3>2, <4>1, <2>2, <2>3, <2>5
    <3> QED BY <3>1, <3>2
  <2>7. ASSUME NEW j \in DOMAIN parts, NEW k \in DOMAIN parts, j < k,
               NEW l \in RowsOf(parts[j]), l \in RowsOf(parts[k])
        PROVE  FALSE
    <3>1. l \in LinesOfChunk(parts[j]) /\ l \in LinesOfChunk(parts[k])
      BY <2>7 DEF RowsOf
    <3>2. aligned[j].offset + aligned[j].length <= aligned[k].offset
      BY <2>1, <2>2, <2>7 DEF Cut
    <3> QED BY <3>1, <3>2, <2>2, <2>4
  <2>8. ASSUME NEW j \in DOMAIN parts, NEW k \in DOMAIN parts, j # k
        PROVE  RowsOf(parts[j]) \cap RowsOf(parts[k]) = {}
    <3>1. j < k \/ k < j
      BY <2>2, <2>8
    <3> QED BY <2>7, <3>1
  <2> QED BY <2>6, <2>8 DEF RowsOnce
<1> QED BY <1>1, PlanInvariance, PTL

\* No line that was complete when the file was sized is missed, however the
\* file grows while it is being cut.
THEOREM NoneMissed == PlanSpec => []NothingMissed
<1>1. PlanIInv => NothingMissed
  <2> SUFFICES ASSUME PlanIInv, pc = "ready",
                      NEW l \in LinesOf(nl, 0, planned), l[2] - 1 \in nl
               PROVE  \E k \in DOMAIN parts : l \in LinesOfChunk(parts[k])
    BY DEF NothingMissed
  <2>1. /\ Cut /\ start = size /\ planned <= size /\ Len(parts) = Len(aligned)
        /\ planned \in Int /\ size \in Int
        /\ \A k \in DOMAIN parts : /\ parts[k].offset = aligned[k].offset
                                  /\ parts[k].length = aligned[k].length
    BY DEF PlanIInv, PlanTypeOK
  <2>2. DOMAIN parts = DOMAIN aligned
    BY <2>1 DEF PlanIInv, PlanTypeOK
  <2>3. l \in LinesOf(nl, 0, size)
    BY <2>1 DEF LinesOf
  <2>4. PICK k \in DOMAIN aligned : l \in LinesOfChunk(aligned[k])
    BY <2>1, <2>3 DEF Cut
  <2> QED BY <2>1, <2>2, <2>4 DEF LinesOfChunk
<1> QED BY <1>1, PlanInvariance, PTL

\* What CutsAreFinal asks of one step.
Final ==
    /\ \A k \in DOMAIN aligned : k \in DOMAIN aligned' /\ aligned'[k] = aligned[k]
    /\ \A k \in DOMAIN aligned' \ DOMAIN aligned :
          /\ aligned'[k].offset = IF k = 1 THEN 0 ELSE aligned[k - 1].offset + aligned[k - 1].length
          /\ aligned'[k].length >= 0

\* A range appended by the loop of AlignChunks changes none of the ranges before it,
\* begins where the last of them ended, and is not of negative length.
LEMMA EndChunkFinal ==
    ASSUME PlanIInv, PlanIInv', NEW end \in Int,
           pc \in {"chunk", "probe"}, pc' \in {"chunk", "aligned"},
           aligned' = Append(aligned, [offset |-> start, length |-> end - start])
    PROVE  Final
<1>. DEFINE e == [offset |-> start, length |-> end - start]
<1>1. aligned' = Append(aligned, e)
  OBVIOUS
<1>2. aligned \in Seq(Chunk) /\ start \in Int /\ e \in Chunk
  BY DEF PlanIInv, PlanTypeOK, Chunk
<1>3. /\ DOMAIN aligned = 1..Len(aligned) /\ DOMAIN aligned' = 1..(Len(aligned) + 1)
      /\ Len(aligned) \in Nat
      /\ \A k \in 1..Len(aligned) : aligned'[k] = aligned[k]
      /\ aligned'[Len(aligned) + 1] = e
  <2>. HIDE DEF e
  <2>. QED
    BY <1>1, <1>2, AppendFacts
<1>4. e.length >= 0
  BY <1>3 DEF PlanIInv, Cut
<1>5. e.offset = IF Len(aligned) = 0 THEN 0
                 ELSE aligned[Len(aligned)].offset + aligned[Len(aligned)].length
  <2>1. aligned = <<>> => start = 0
    BY DEF PlanIInv, Cutting
  <2>2. aligned # <<>> => aligned[Len(aligned)].offset + aligned[Len(aligned)].length = start
    BY DEF PlanIInv, Cut
  <2>3. aligned = <<>> <=> Len(aligned) = 0
    BY <1>2
  <2>. QED
    BY <2>1, <2>2, <2>3
<1>. HIDE DEF e
<1>6. \A k \in DOMAIN aligned : k \in DOMAIN aligned' /\ aligned'[k] = aligned[k]
  BY <1>3
<1>7. ASSUME NEW k \in DOMAIN aligned' \ DOMAIN aligned
      PROVE  /\ aligned'[k].offset = IF k = 1 THEN 0 ELSE aligned[k - 1].offset + aligned[k - 1].length
             /\ aligned'[k].length >= 0
  <2>1. k = Len(aligned) + 1 /\ k - 1 = Len(aligned) /\ (k = 1 <=> Len(aligned) = 0)
    BY <1>3
  <2>. QED
    BY <2>1, <1>3, <1>4, <1>5
<1>. QED
  BY <1>6, <1>7 DEF Final

\* AlignChunks goes through the file once, from its start to its end: a range it
\* has cut is never changed or dropped, and the next one starts where it ended, at
\* whatever place between two lines the probe found.
THEOREM CutsStay == PlanSpec => CutsAreFinal
<1>1. PlanIInv /\ PlanIInv' /\ [PlanNext]_planVars => [Final]_planVars
  <2>. SUFFICES ASSUME PlanIInv, PlanIInv', PlanNext
                PROVE  Final
    OBVIOUS
  <2>1. start \in Int /\ size \in Int
    BY DEF PlanIInv, PlanTypeOK
  <2>2. CASE UNCHANGED aligned
    BY <2>2 DEF Final
  <2>3. CASE GrowFile \/ Plan \/ Assign \/ PlanFails
    BY <2>2, <2>3 DEF GrowFile, Plan, Assign, PlanFails
  <2>4. CASE AlignBegin
    <3>1. aligned = <<>> /\ start = 0 /\ naive # <<>> /\ NaiveShape /\ naive \in Seq(Chunk)
      BY <2>4 DEF AlignBegin, PlanIInv, PlanTypeOK
    <3>2. CASE aligned' = naive /\ Len(naive) <= 1
      <4>1. Len(naive) = 1 /\ DOMAIN naive = {1}
        BY <3>1, <3>2 DEF NaiveShape
      <4>2. naive[1].offset = 0 /\ naive[1].length >= 0
        BY <3>1, <4>1 DEF NaiveShape
      <4>3. DOMAIN aligned = {}
        BY <3>1
      <4>. QED
        BY <3>2, <4>1, <4>2, <4>3 DEF Final
    <3>. QED
      BY <2>2, <2>4, <3>2 DEF AlignBegin
  <2>5. CASE LastChunk
    BY <2>1, <2>5, EndChunkFinal DEF LastChunk
  <2>6. ASSUME NEW end \in Int, pc \in {"chunk", "probe"}, EndChunkAt(end) PROVE Final
    BY <2>6, EndChunkFinal DEF EndChunkAt
  <2>7. CASE ProbeBegin
    BY <2>1, <2>2, <2>6, <2>7 DEF ProbeBegin
  <2>8. CASE Probe
    <3>1. ASSUME NEW q \in nl PROVE q + 1 \in Int
      BY DEF PlanIInv, PlanTypeOK
    <3>. QED
      BY <2>1, <2>2, <2>6, <2>8, <3>1 DEF Probe, NewlineFound, Window
  <2>. QED
    BY <2>3, <2>4, <2>5, <2>7, <2>8 DEF PlanNext, Step
<1>. QED
  BY <1>1, PlanInvariance, PTL DEF PlanSpec, CutsAreFinal, Final

-----------------------------------------------------------------------------
(* Distribute. *)

-----------------------------------------------------------------------------
(* The inductive invariant. *)

\* Query has a reply exactly when it has returned, and before it plans the
\* shards nothing was done.
Started ==
    /\ reply = "none" <=> qpc # "end"
    /\ qpc = "validate" => /\ \A s \in Sh : gpc[s] = "idle"
                           /\ firstErr = "nil"
    /\ qpc \in {"validate", "wait"} => merged = 0

\* The only shards with a goroutine are the planned ones, and the merge loop
\* starts when each of these is done and none has failed.
Gathered ==
    /\ \A s \in Sh \ Active : gpc[s] = "idle"
    /\ qpc \in {"merge", "end"} => \A s \in Sh : gpc[s] \in {"idle", "done"}
    /\ qpc = "merge" => firstErr = "nil" /\ \A s \in Active : gpc[s] = "done"

\* A goroutine that is done has left its result or an error; a result is a
\* response that a worker sent for its shard and that the coordinator took.
Resulted ==
    /\ \A s \in Sh : resp[s] = "ok" => fate[s] # "reject"
    /\ \A s \in results : fate[s] \notin {"reject", "toolarge"}
    /\ \A s \in Sh : gpc[s] = "done" => s \in results \/ firstErr # "nil"

\* The merge loop has merged the first results, once each.
Merged ==
    /\ acc = [s \in Sh |-> IF s <= merged THEN 1 ELSE 0]
    /\ \A s \in Sh : s <= merged => fate[s] = "answer"
    /\ reply = "ok" => merged = n

\* Only a failure cancels the derived context, and the failure that does is not
\* itself a cancellation unless the client's context was done before.
Blamed ==
    /\ ctxDone => firstErr # "nil"
    /\ \A s \in Sh : gpc[s] = "fail" =>
          gerr[s] # "nil" /\ (gerr[s] = "canceled" => CtxDone)
    /\ firstErr = "canceled" => clientGone
    /\ reply = "canceled" => clientGone

IInv == TypeOK /\ Started /\ Gathered /\ Resulted /\ Merged /\ Blamed

-----------------------------------------------------------------------------
(* Every action preserves it. *)

\* What the definitions that abbreviate groups of variables stand for.
USE DEF vars, query, goroutines, workers, coordinator

\* The shards are numbered by naturals.
LEMMA ShardType == Sh \subseteq Nat /\ NShards \in Sh
BY DistributeAssumption DEF Sh

\* No shard has a goroutine and nothing is merged.
LEMMA InitInv == Init => IInv
<1> SUFFICES ASSUME Init PROVE IInv
  OBVIOUS
<1>1. n \in Nat /\ \A s \in Sh : s \in Nat /\ ~(s <= 0)
  BY DistributeAssumption DEF Init, Sh
<1>2. TypeOK
  <2>1. crashes \in 0..MaxCrashes /\ merged \in 0..n /\ results \subseteq Active
    BY <1>1, DistributeAssumption DEF Init
  <2>2. /\ gpc \in [Sh -> {"idle", "call", "sent", "fail", "done"}]
        /\ gerr \in [Sh -> {"nil", "dial", "unavailable", "worker", "canceled"}]
        /\ acc \in [Sh -> 0..1]
    BY DEF Init
  <2>3. /\ srv \in [Sh -> {"idle", "running"}]
        /\ resp \in [Sh -> {"none", "ok", "error"}]
        /\ lost \in [Sh -> BOOLEAN]
    BY DEF Init
  <2> QED BY <2>1, <2>2, <2>3 DEF Init, TypeOK
<1>3. Started /\ Gathered /\ Resulted /\ Blamed
  BY DEF Init, Started, Gathered, Resulted, Blamed
<1>4. Merged
  BY <1>1 DEF Init, Merged
<1> QED BY <1>2, <1>3, <1>4 DEF IInv

\* Query refuses the request: nothing was started.
LEMMA RefuseInv == ASSUME IInv, Refuse PROVE IInv'
<1>1. TypeOK'
  BY ShardType, DistributeAssumption DEF IInv, Refuse, TypeOK, Active, Sh
<1>2. Started'
  BY ShardType, DistributeAssumption DEF IInv, Refuse, TypeOK, Started
<1>3. Gathered'
  BY ShardType, DistributeAssumption DEF IInv, Refuse, TypeOK, Started, Gathered, Active
<1>4. Resulted'
  BY ShardType, DistributeAssumption DEF IInv, Refuse, TypeOK, Started, Gathered, Resulted
<1>5. Merged'
  BY ShardType, DistributeAssumption DEF IInv, Refuse, TypeOK, Merged, Resulted, Gathered, Started
<1>6. Blamed'
  BY ShardType, DistributeAssumption DEF IInv, Refuse, TypeOK, Started, Blamed, CtxDone, Gathered
<1> QED BY <1>1, <1>2, <1>3, <1>4, <1>5, <1>6 DEF IInv

\* The planned shards, and only they, get a goroutine.
LEMMA DispatchInv == ASSUME IInv, Dispatch PROVE IInv'
<1>1. TypeOK'
  BY ShardType, DistributeAssumption DEF IInv, Dispatch, TypeOK, Active, Sh
<1>2. Started'
  BY ShardType, DistributeAssumption DEF IInv, Dispatch, TypeOK, Started
<1>3. Gathered'
  BY ShardType, DistributeAssumption DEF IInv, Dispatch, TypeOK, Started, Gathered, Active
<1>4. Resulted'
  BY ShardType, DistributeAssumption DEF IInv, Dispatch, TypeOK, Started, Gathered, Resulted
<1>5. Merged'
  BY ShardType, DistributeAssumption DEF IInv, Dispatch, TypeOK, Merged, Resulted, Gathered, Started
<1>6. Blamed'
  BY ShardType, DistributeAssumption DEF IInv, Dispatch, TypeOK, Started, Blamed, CtxDone, Gathered
<1> QED BY <1>1, <1>2, <1>3, <1>4, <1>5, <1>6 DEF IInv

\* A request is sent.
LEMMA CallInv == ASSUME IInv, NEW s \in Sh, Call(s) PROVE IInv'
<1>1. TypeOK'
  BY ShardType, DistributeAssumption DEF IInv, Call, GGoto, TypeOK, Active, Sh
<1>2. Started'
  BY ShardType, DistributeAssumption DEF IInv, Call, GGoto, TypeOK, Started
<1>3. Gathered'
  BY ShardType, DistributeAssumption DEF IInv, Call, GGoto, TypeOK, Started, Gathered, Active
<1>4. Resulted'
  BY ShardType, DistributeAssumption DEF IInv, Call, GGoto, TypeOK, Started, Gathered, Resulted
<1>5. Merged'
  BY ShardType, DistributeAssumption DEF IInv, Call, GGoto, TypeOK, Merged, Resulted, Gathered, Started
<1>6. Blamed'
  BY ShardType, DistributeAssumption DEF IInv, Call, GGoto, TypeOK, Started, Blamed, CtxDone, Gathered
<1> QED BY <1>1, <1>2, <1>3, <1>4, <1>5, <1>6 DEF IInv

\* A call ends in an error.
LEMMA DialFailsInv == ASSUME IInv, NEW s \in Sh, DialFails(s) PROVE IInv'
<1>1. TypeOK'
  BY ShardType, DistributeAssumption DEF IInv, DialFails, CallFails, GGoto, TypeOK, Active, Sh
<1>2. Started'
  BY ShardType, DistributeAssumption DEF IInv, DialFails, CallFails, GGoto, TypeOK, Started
<1>3. Gathered'
  BY ShardType, DistributeAssumption DEF IInv, DialFails, CallFails, GGoto, TypeOK, Started, Gathered, Active
<1>4. Resulted'
  BY ShardType, DistributeAssumption DEF IInv, DialFails, CallFails, GGoto, TypeOK, Started, Gathered, Resulted
<1>5. Merged'
  BY ShardType, DistributeAssumption DEF IInv, DialFails, CallFails, GGoto, TypeOK, Merged, Resulted, Gathered, Started
<1>6. Blamed'
  BY ShardType, DistributeAssumption DEF IInv, DialFails, CallFails, GGoto, TypeOK, Started, Blamed, CtxDone, Gathered
<1> QED BY <1>1, <1>2, <1>3, <1>4, <1>5, <1>6 DEF IInv

\* A call is cut short by the context ...
LEMMA CallCanceledInv == ASSUME IInv, NEW s \in Sh, CallCanceled(s) PROVE IInv'
<1>1. TypeOK'
  BY ShardType, DistributeAssumption DEF IInv, CallCanceled, CallFails, GGoto, TypeOK, Active, Sh
<1>2. Started'
  BY ShardType, DistributeAssumption DEF IInv, CallCanceled, CallFails, GGoto, TypeOK, Started
<1>3. Gathered'
  BY ShardType, DistributeAssumption DEF IInv, CallCanceled, CallFails, GGoto, TypeOK, Started, Gathered, Active
<1>4. Resulted'
  BY ShardType, DistributeAssumption DEF IInv, CallCanceled, CallFails, GGoto, TypeOK, Started, Gathered, Resulted
<1>5. Merged'
  BY ShardType, DistributeAssumption DEF IInv, CallCanceled, CallFails, GGoto, TypeOK, Merged, Resulted, Gathered, Started
<1>6. Blamed'
  BY ShardType, DistributeAssumption DEF IInv, CallCanceled, CallFails, GGoto, TypeOK, Started, Blamed, CtxDone, Gathered
<1> QED BY <1>1, <1>2, <1>3, <1>4, <1>5, <1>6 DEF IInv

\* ... or loses its worker or its connection ...
LEMMA CallUnavailableInv == ASSUME IInv, NEW s \in Sh, CallUnavailable(s) PROVE IInv'
<1>1. TypeOK'
  BY ShardType, DistributeAssumption DEF IInv, CallUnavailable, CallFails, GGoto, TypeOK, Active, Sh
<1>2. Started'
  BY ShardType, DistributeAssumption DEF IInv, CallUnavailable, CallFails, GGoto, TypeOK, Started
<1>3. Gathered'
  BY ShardType, DistributeAssumption DEF IInv, CallUnavailable, CallFails, GGoto, TypeOK, Started, Gathered, Active
<1>4. Resulted'
  BY ShardType, DistributeAssumption DEF IInv, CallUnavailable, CallFails, GGoto, TypeOK, Started, Gathered, Resulted
<1>5. Merged'
  BY ShardType, DistributeAssumption DEF IInv, CallUnavailable, CallFails, GGoto, TypeOK, Merged, Resulted, Gathered, Started
<1>6. Blamed'
  BY ShardType, DistributeAssumption DEF IInv, CallUnavailable, CallFails, GGoto, TypeOK, Started, Blamed, CtxDone, Gathered
<1> QED BY <1>1, <1>2, <1>3, <1>4, <1>5, <1>6 DEF IInv

\* ... or gets the worker's own error, or a response too large to be received.
LEMMA ErrorArrivesInv == ASSUME IInv, NEW s \in Sh, ErrorArrives(s) PROVE IInv'
<1>1. TypeOK'
  BY ShardType, DistributeAssumption DEF IInv, ErrorArrives, CallFails, GGoto, TypeOK, Active, Sh
<1>2. Started'
  BY ShardType, DistributeAssumption DEF IInv, ErrorArrives, CallFails, GGoto, TypeOK, Started
<1>3. Gathered'
  BY ShardType, DistributeAssumption DEF IInv, ErrorArrives, CallFails, GGoto, TypeOK, Started, Gathered, Active
<1>4. Resulted'
  BY ShardType, DistributeAssumption DEF IInv, ErrorArrives, CallFails, GGoto, TypeOK, Started, Gathered, Resulted
<1>5. Merged'
  BY ShardType, DistributeAssumption DEF IInv, ErrorArrives, CallFails, GGoto, TypeOK, Merged, Resulted, Gathered, Started
<1>6. Blamed'
  BY ShardType, DistributeAssumption DEF IInv, ErrorArrives, CallFails, GGoto, TypeOK, Started, Blamed, CtxDone, Gathered
<1> QED BY <1>1, <1>2, <1>3, <1>4, <1>5, <1>6 DEF IInv

\* A response arrives.
LEMMA ResultArrivesInv == ASSUME IInv, NEW s \in Sh, ResultArrives(s) PROVE IInv'
<1>1. TypeOK'
  <2>1. s \in Active
    BY DEF IInv, ResultArrives, Gathered
  <2>2. results' \subseteq Active' /\ gpc' \in [Sh -> {"idle", "call", "sent", "fail", "done"}]
    BY <2>1 DEF IInv, ResultArrives, GGoto, TypeOK, Active
  <2> QED BY <2>2 DEF IInv, ResultArrives, TypeOK, Active
<1>2. Started'
  BY ShardType, DistributeAssumption DEF IInv, ResultArrives, GGoto, TypeOK, Started
<1>3. Gathered'
  BY ShardType, DistributeAssumption DEF IInv, ResultArrives, GGoto, TypeOK, Started, Gathered, Active
<1>4. Resulted'
  BY ShardType, DistributeAssumption DEF IInv, ResultArrives, GGoto, TypeOK, Started, Gathered, Resulted
<1>5. Merged'
  BY ShardType, DistributeAssumption DEF IInv, ResultArrives, GGoto, TypeOK, Merged, Resulted, Gathered, Started
<1>6. Blamed'
  BY ShardType, DistributeAssumption DEF IInv, ResultArrives, GGoto, TypeOK, Started, Blamed, CtxDone, Gathered
<1> QED BY <1>1, <1>2, <1>3, <1>4, <1>5, <1>6 DEF IInv

\* The first error cancels the other calls.
LEMMA FailInv == ASSUME IInv, NEW s \in Sh, Fail(s) PROVE IInv'
<1>1. TypeOK'
  BY ShardType, DistributeAssumption DEF IInv, Fail, GGoto, TypeOK, Active, Sh
<1>2. Started'
  BY ShardType, DistributeAssumption DEF IInv, Fail, GGoto, TypeOK, Started
<1>3. Gathered'
  BY ShardType, DistributeAssumption DEF IInv, Fail, GGoto, TypeOK, Started, Gathered, Active
<1>4. Resulted'
  BY ShardType, DistributeAssumption DEF IInv, Fail, GGoto, TypeOK, Resulted, Blamed
<1>5. Merged'
  BY ShardType, DistributeAssumption DEF IInv, Fail, GGoto, TypeOK, Merged, Resulted, Gathered, Started
<1>6. Blamed'
  BY ShardType, DistributeAssumption DEF IInv, Fail, GGoto, TypeOK, Started, Blamed, CtxDone, Gathered
<1> QED BY <1>1, <1>2, <1>3, <1>4, <1>5, <1>6 DEF IInv

\* Every goroutine is done.
LEMMA GatherInv == ASSUME IInv, Gather PROVE IInv'
<1>1. TypeOK'
  BY ShardType, DistributeAssumption DEF IInv, Gather, TypeOK, Active, Sh
<1>2. Started'
  BY ShardType, DistributeAssumption DEF IInv, Gather, TypeOK, Started
<1>3. Gathered'
  BY ShardType, DistributeAssumption DEF IInv, Gather, TypeOK, Started, Gathered, Active
<1>4. Resulted'
  BY ShardType, DistributeAssumption DEF IInv, Gather, TypeOK, Started, Gathered, Resulted
<1>5. Merged'
  BY ShardType, DistributeAssumption DEF IInv, Gather, TypeOK, Merged, Resulted, Gathered, Started
<1>6. Blamed'
  BY ShardType, DistributeAssumption DEF IInv, Gather, TypeOK, Started, Blamed, CtxDone, Gathered
<1> QED BY <1>1, <1>2, <1>3, <1>4, <1>5, <1>6 DEF IInv

\* A result is merged, or refused: when the loop runs, there is one of every shard.
LEMMA MergeInv == ASSUME IInv, Merge PROVE IInv'
<1>1. /\ merged \in Nat /\ n \in Sh /\ merged < n /\ merged + 1 \in Sh /\ merged + 1 \in Active
      /\ acc = [s \in Sh |-> IF s <= merged THEN 1 ELSE 0]
  BY DistributeAssumption DEF IInv, Merge, TypeOK, Merged, Sh, Active
<1>2. /\ merged + 1 \in results
      /\ fate[merged + 1] # "misshapen" => fate[merged + 1] = "answer"
  BY <1>1 DEF IInv, Merge, TypeOK, Gathered, Resulted, Fate
<1>3. CASE fate[merged + 1] = "misshapen"
  <2>1. UNCHANGED <<n, fate, merged, acc, goroutines, clientGone, workers>>
        /\ reply' = "merge" /\ qpc' = "end"
    BY <1>2, <1>3 DEF Merge
  <2>2. TypeOK' /\ Merged'
    BY <2>1 DEF IInv, TypeOK, Merged, Active
  <2>3. Started' /\ Gathered' /\ Resulted' /\ Blamed'
    BY <2>1 DEF IInv, Merge, Started, Gathered, Resulted, Blamed, Active, TypeOK, CtxDone
  <2> QED BY <2>2, <2>3 DEF IInv
<1>4. CASE fate[merged + 1] # "misshapen"
  <2>1. /\ acc' = [acc EXCEPT ![merged + 1] = @ + 1] /\ merged' = merged + 1
        /\ UNCHANGED <<n, fate, qpc, reply, goroutines, clientGone, workers>>
    BY <1>2, <1>4 DEF Merge
  <2>2. acc' = [s \in Sh |-> IF s <= merged' THEN 1 ELSE 0]
    <3>1. \A s \in Sh : s <= merged' <=> s <= merged \/ s = merged + 1
      BY <1>1, <2>1, ShardType
    <3>2. acc[merged + 1] = 0
      BY <1>1
    <3> QED BY <1>1, <2>1, <3>1, <3>2
  <2>3. TypeOK'
    <3>1. acc' \in [Sh -> 0..1] /\ merged' \in 0..n'
      BY <1>1, <2>1, <2>2, ShardType
    <3> QED BY <2>1, <3>1 DEF IInv, TypeOK, Active
  <2>4. Merged'
    <3>1. \A s \in Sh : s <= merged' => fate[s] = "answer"
      BY <1>1, <1>2, <1>4, <2>1, ShardType DEF IInv, Merged
    <3> QED BY <2>1, <2>2, <3>1 DEF IInv, Merge, Started, Merged
  <2>5. Started' /\ Gathered' /\ Resulted' /\ Blamed'
    BY <2>1 DEF IInv, Merge, Started, Gathered, Resulted, Blamed, Active, CtxDone
  <2> QED BY <2>3, <2>4, <2>5 DEF IInv
<1> QED BY <1>3, <1>4

\* All results are merged.
LEMMA AnswerInv == ASSUME IInv, Answer PROVE IInv'
<1>1. TypeOK'
  BY ShardType, DistributeAssumption DEF IInv, Answer, TypeOK, Active, Sh
<1>2. Started'
  BY ShardType, DistributeAssumption DEF IInv, Answer, TypeOK, Started
<1>3. Gathered'
  BY ShardType, DistributeAssumption DEF IInv, Answer, TypeOK, Started, Gathered, Active
<1>4. Resulted'
  BY ShardType, DistributeAssumption DEF IInv, Answer, TypeOK, Started, Gathered, Resulted
<1>5. Merged'
  BY ShardType, DistributeAssumption DEF IInv, Answer, TypeOK, Merged, Resulted, Gathered, Started
<1>6. Blamed'
  BY ShardType, DistributeAssumption DEF IInv, Answer, TypeOK, Started, Blamed, CtxDone, Gathered
<1> QED BY <1>1, <1>2, <1>3, <1>4, <1>5, <1>6 DEF IInv

\* The merged result cannot be put into a message.
LEMMA ConvertFailsInv == ASSUME IInv, ConvertFails PROVE IInv'
<1>1. TypeOK'
  BY ShardType, DistributeAssumption DEF IInv, ConvertFails, TypeOK, Active, Sh
<1>2. Started'
  BY ShardType, DistributeAssumption DEF IInv, ConvertFails, TypeOK, Started
<1>3. Gathered'
  BY ShardType, DistributeAssumption DEF IInv, ConvertFails, TypeOK, Started, Gathered, Active
<1>4. Resulted'
  BY ShardType, DistributeAssumption DEF IInv, ConvertFails, TypeOK, Started, Gathered, Resulted
<1>5. Merged'
  BY ShardType, DistributeAssumption DEF IInv, ConvertFails, TypeOK, Merged, Resulted, Gathered, Started
<1>6. Blamed'
  BY ShardType, DistributeAssumption DEF IInv, ConvertFails, TypeOK, Started, Blamed, CtxDone, Gathered
<1> QED BY <1>1, <1>2, <1>3, <1>4, <1>5, <1>6 DEF IInv

\* The client gives up.
LEMMA ClientGoneInv == ASSUME IInv, ClientGone PROVE IInv'
<1>1. TypeOK'
  BY ShardType, DistributeAssumption DEF IInv, ClientGone, TypeOK, Active, Sh
<1>2. Started'
  BY ShardType, DistributeAssumption DEF IInv, ClientGone, TypeOK, Started
<1>3. Gathered'
  BY ShardType, DistributeAssumption DEF IInv, ClientGone, TypeOK, Started, Gathered, Active
<1>4. Resulted'
  BY ShardType, DistributeAssumption DEF IInv, ClientGone, TypeOK, Started, Gathered, Resulted
<1>5. Merged'
  BY ShardType, DistributeAssumption DEF IInv, ClientGone, TypeOK, Merged, Resulted, Gathered, Started
<1>6. Blamed'
  BY ShardType, DistributeAssumption DEF IInv, ClientGone, TypeOK, Started, Blamed, CtxDone, Gathered
<1> QED BY <1>1, <1>2, <1>3, <1>4, <1>5, <1>6 DEF IInv

\* A request reaches its worker.
LEMMA DeliverInv == ASSUME IInv, NEW s \in Sh, Deliver(s) PROVE IInv'
<1>1. TypeOK'
  BY ShardType, DistributeAssumption DEF IInv, Deliver, TypeOK, Active, Sh
<1>2. Started'
  BY ShardType, DistributeAssumption DEF IInv, Deliver, TypeOK, Started
<1>3. Gathered'
  BY ShardType, DistributeAssumption DEF IInv, Deliver, TypeOK, Started, Gathered, Active
<1>4. Resulted'
  BY ShardType, DistributeAssumption DEF IInv, Deliver, TypeOK, Started, Gathered, Resulted
<1>5. Merged'
  BY ShardType, DistributeAssumption DEF IInv, Deliver, TypeOK, Merged, Resulted, Gathered, Started
<1>6. Blamed'
  BY ShardType, DistributeAssumption DEF IInv, Deliver, TypeOK, Started, Blamed, CtxDone, Gathered
<1> QED BY <1>1, <1>2, <1>3, <1>4, <1>5, <1>6 DEF IInv

\* A worker's handler replies.
LEMMA ServeInv == ASSUME IInv, NEW s \in Sh, Serve(s) PROVE IInv'
<1>1. TypeOK'
  BY ShardType, DistributeAssumption DEF IInv, Serve, TypeOK, Active, Sh
<1>2. Started'
  BY ShardType, DistributeAssumption DEF IInv, Serve, TypeOK, Started
<1>3. Gathered'
  BY ShardType, DistributeAssumption DEF IInv, Serve, TypeOK, Started, Gathered, Active
<1>4. Resulted'
  BY ShardType, DistributeAssumption DEF IInv, Serve, TypeOK, Started, Gathered, Resulted
<1>5. Merged'
  BY ShardType, DistributeAssumption DEF IInv, Serve, TypeOK, Merged, Resulted, Gathered, Started
<1>6. Blamed'
  BY ShardType, DistributeAssumption DEF IInv, Serve, TypeOK, Started, Blamed, CtxDone, Gathered
<1> QED BY <1>1, <1>2, <1>3, <1>4, <1>5, <1>6 DEF IInv

\* A worker crashes: its handler is gone, and a response on its way may be lost.
LEMMA CrashInv == ASSUME IInv, NEW s \in Sh, Crash(s) PROVE IInv'
<1>1. TypeOK'
  BY ShardType, DistributeAssumption DEF IInv, Crash, TypeOK, Active, Sh
<1>2. Started'
  BY ShardType, DistributeAssumption DEF IInv, Crash, TypeOK, Started
<1>3. Gathered'
  BY ShardType, DistributeAssumption DEF IInv, Crash, TypeOK, Started, Gathered, Active
<1>4. Resulted'
  BY ShardType, DistributeAssumption DEF IInv, Crash, TypeOK, Started, Gathered, Resulted
<1>5. Merged'
  BY ShardType, DistributeAssumption DEF IInv, Crash, TypeOK, Merged, Resulted, Gathered, Started
<1>6. Blamed'
  BY ShardType, DistributeAssumption DEF IInv, Crash, TypeOK, Started, Blamed, CtxDone, Gathered
<1> QED BY <1>1, <1>2, <1>3, <1>4, <1>5, <1>6 DEF IInv

\* A crashed worker comes back, with no memory of a call.
LEMMA RestartInv == ASSUME IInv, NEW s \in Sh, Restart(s) PROVE IInv'
<1>1. TypeOK'
  BY ShardType, DistributeAssumption DEF IInv, Restart, TypeOK, Active, Sh
<1>2. Started'
  BY ShardType, DistributeAssumption DEF IInv, Restart, TypeOK, Started
<1>3. Gathered'
  BY ShardType, DistributeAssumption DEF IInv, Restart, TypeOK, Started, Gathered, Active
<1>4. Resulted'
  BY ShardType, DistributeAssumption DEF IInv, Restart, TypeOK, Started, Gathered, Resulted
<1>5. Merged'
  BY ShardType, DistributeAssumption DEF IInv, Restart, TypeOK, Merged, Resulted, Gathered, Started
<1>6. Blamed'
  BY ShardType, DistributeAssumption DEF IInv, Restart, TypeOK, Started, Blamed, CtxDone, Gathered
<1> QED BY <1>1, <1>2, <1>3, <1>4, <1>5, <1>6 DEF IInv

\* IInv is inductive: every action preserves it.
LEMMA StepInv == IInv /\ [Next]_vars => IInv'
<1> SUFFICES ASSUME IInv, [Next]_vars PROVE IInv'
  OBVIOUS
<1>1. CASE UNCHANGED vars
  BY <1>1 DEF IInv, TypeOK, Started, Gathered, Resulted, Merged, Blamed, Active, CtxDone
<1>2. CASE \E s \in Sh : Goroutine(s)
  BY <1>2, CallInv, CallCanceledInv, CallUnavailableInv, ErrorArrivesInv,
     ResultArrivesInv, FailInv DEF Goroutine
<1>3. CASE \E s \in Sh : Worker(s) \/ Crash(s) \/ Restart(s)
  BY <1>3, DeliverInv, ServeInv, CrashInv, RestartInv DEF Worker
<1>4. CASE Mishap
  BY <1>4, RefuseInv, ConvertFailsInv, DialFailsInv DEF Mishap
<1> QED BY <1>1, <1>2, <1>3, <1>4, DispatchInv, GatherInv, MergeInv, AnswerInv,
           ClientGoneInv DEF Next, Coordinator, Ended

\* What a shard's goroutine, the merge loop and the reply have to do with each
\* other at every moment of a query.
THEOREM Invariance == Spec => []IInv
BY InitInv, StepInv, PTL DEF Spec

-----------------------------------------------------------------------------
(* What follows from it. *)

\* Every variable of a query keeps its type: no shard is merged twice, and no
\* result is kept of a shard that was not asked for.
THEOREM TypeCorrect == Spec => []TypeOK
<1>1. IInv => TypeOK
  BY DEF IInv
<1> QED BY <1>1, Invariance, PTL

\* A reply "ok" is sent when the merge loop has passed the last shard.
LEMMA OkIsWhole == IInv => WholeOrNothing
<1> SUFFICES ASSUME IInv, reply = "ok" PROVE WholeOrNothing
  BY DEF WholeOrNothing
<1>1. /\ acc = [s \in Sh |-> IF s <= n THEN 1 ELSE 0] /\ n \in Sh
      /\ \A s \in Sh : s <= n => fate[s] = "answer"
  BY DEF IInv, TypeOK, Merged
<1>2. \A s \in Sh : s \in Active <=> s <= n
  BY <1>1, DistributeAssumption DEF Active, Sh
<1>3. Active \subseteq Sh
  BY <1>1, DistributeAssumption DEF Active, Sh
<1> QED BY <1>1, <1>2, <1>3 DEF WholeOrNothing

\* A query over any number of shards is answered with the whole of each of them
\* or not at all, whatever workers crash and whatever responses are lost.
THEOREM AllOrNothing == Spec => []WholeOrNothing
BY OkIsWhole, Invariance, PTL

\* A query that reports a cancellation was cancelled by its client: of the
\* errors of its calls it reports the cause and not one of the consequences.
THEOREM CauseReported == Spec => []RootCause
<1>1. IInv => RootCause
  BY DEF IInv, Blamed, RootCause
<1> QED BY <1>1, Invariance, PTL

\* A query that has returned has no call open.
THEOREM NoneOpen == Spec => []NothingOpen
<1>1. IInv => NothingOpen
  BY DEF IInv, Gathered, NothingOpen
<1> QED BY <1>1, Invariance, PTL

\* The planned shards and what they hold never change, and once there is a reply
\* it and what was merged for it stay.
LEMMA StepKinds ==
    ASSUME IInv, [Next]_vars
    PROVE  /\ UNCHANGED <<n, fate>>
           /\ UNCHANGED <<reply, acc>> \/ reply = "none"
<1>1. CASE Refuse \/ Gather \/ Merge \/ Answer \/ ConvertFails
  BY <1>1 DEF IInv, Started, Refuse, Gather, Merge, Answer, ConvertFails
<1>2. CASE \E s \in Sh : Goroutine(s) \/ DialFails(s)
  BY <1>2 DEF Goroutine, Call, CallCanceled, CallUnavailable, ErrorArrives, ResultArrives,
              Fail, DialFails, CallFails
<1>3. CASE \E s \in Sh : Worker(s) \/ Crash(s) \/ Restart(s)
  BY <1>3 DEF Worker, Deliver, Serve, Crash, Restart
<1>4. CASE Dispatch \/ ClientGone \/ UNCHANGED vars
  BY <1>4 DEF Dispatch, ClientGone
<1> QED BY <1>1, <1>2, <1>3, <1>4 DEF Next, Coordinator, Mishap, Ended

\* Every step of a query is a step of the abstract job or leaves it alone: it
\* ends once, with the whole answer or with an error.
THEOREM ImplementsJob == Spec => AbstractJob!Safety
<1>1. Init => AbstractJob!Init
  BY DEF Init, AbstractJob!Init
<1>2. IInv /\ IInv' /\ [Next]_vars => [AbstractJob!Next]_(AbstractJob!vars)
  <2> SUFFICES ASSUME IInv, IInv', [Next]_vars
               PROVE  [AbstractJob!Next]_(AbstractJob!vars)
    OBVIOUS
  <2>1. UNCHANGED <<n, fate>> /\ (UNCHANGED <<reply, acc>> \/ reply = "none")
    BY StepKinds
  <2>2. CASE UNCHANGED <<reply, acc>>
    BY <2>1, <2>2 DEF AbstractJob!vars, Active
  <2>3. CASE reply = "none" /\ reply' = "none"
    <3>1. Active' = Active
      BY <2>1 DEF Active
    <3> QED BY <2>1, <2>3, <3>1 DEF AbstractJob!vars
  <2>4. CASE reply = "none" /\ reply' \notin {"none", "ok"}
    BY <2>1, <2>4 DEF AbstractJob!Next, AbstractJob!Reject, Active
  <2>5. CASE reply = "none" /\ reply' = "ok"
    <3>1. WholeOrNothing'
      BY OkIsWhole, PTL
    <3>2. /\ \A s \in Sh : acc'[s] = IF s \in Active' THEN 1 ELSE 0
          /\ \A s \in Active : fate[s] = "answer"
      BY <2>1, <2>5, <3>1, DistributeAssumption DEF WholeOrNothing, Active, IInv, TypeOK, Sh
    <3> QED BY <2>1, <2>5, <3>2 DEF AbstractJob!Next, AbstractJob!Answer, Active
  <2> QED BY <2>1, <2>2, <2>3, <2>4, <2>5
<1> QED BY <1>1, <1>2, Invariance, PTL DEF Spec, AbstractJob!Safety
=============================================================================
