--------------------------- MODULE RunLocalProofs ---------------------------
(* Proofs about RunLocal, for any number of chunks, lines, workers and       *)
(* batches.                                                                  *)
EXTENDS RunLocal, IngestProofs

\* The rows folded into worker w's aggregator, and those it has received.
Folded(w) == {r \in Row : agg[w][r] = 1}
Taken(w) == Folded(w) \cup (IF wpc[w] = "add" THEN Range(buf[wcur[w]]) ELSE {})

\* The aggregators that the merge loop has not moved into the first one.
Open == {w \in Wk : w = 1 \/ w > merged}

-----------------------------------------------------------------------------
(* The inductive invariant. *)

\* A worker's batch is its own too: no other goroutine holds it and it is not
\* in the pool; and no batch is lost.
WorkersOwn ==
    /\ \A w \in Wk : wpc[w] \in {"add", "count", "release"} <=> wcur[w] # NoBatch
    /\ \A w \in Wk : wcur[w] # NoBatch => wcur[w] \in made /\ pool[wcur[w]] = 0
    /\ \A v, w \in Wk : wcur[v] # NoBatch /\ wcur[v] = wcur[w] => v = w
    /\ \A w \in Wk, c \in Ch : wcur[w] # NoBatch => wcur[w] # cur[c]
    /\ \A b \in made : pool[b] = 1 \/ (\E c \in Ch : cur[c] = b) \/ (\E w \in Wk : wcur[w] = b)

\* Where runRun is, seen from the goroutines.
Stages ==
    /\ mpc # "run" => \A w \in Wk : wpc[w] = "done"
    /\ mpc = "run" => merged = 0 /\ rows = 0 /\ mergeOK
    /\ mpc # "run" /\ ~firstErr => merged >= 1
    /\ mpc = "merge" => ~firstErr
    /\ mpc \in {"errs", "end"} /\ ~firstErr => merged = NWorkers
    /\ outcome = "none" <=> mpc # "end"
    /\ mpc = "end" => igpc \in {"close", "done"}
    /\ igpc \in {"close", "done"} /\ mpc # "end" => errs = IF ret = "nil" THEN <<>> ELSE <<ret>>
    /\ igpc \notin {"close", "done"} => errs = <<>>

\* The batch of a worker has rows that were read, each once.
Batches ==
    /\ \A w \in Wk : wcur[w] # NoBatch => IsInjective(buf[wcur[w]])
    /\ \A w \in Wk : agg[w] \in [Row -> 0..1]

\* Every good row that was read is in one place, unless somebody failed: with
\* the goroutine that read it, or with one worker.
Flow ==
    /\ \A w \in Wk : \A r \in Taken(w) : r \in ReadRows(r[1])
    /\ \A w \in Wk : wpc[w] = "add" => Folded(w) \cap Range(buf[wcur[w]]) = {}
    /\ \A v, w \in Open : v # w => Taken(v) \cap Taken(w) = {}
    /\ \A w \in Wk, c \in Ch : Taken(w) \cap OwnRows(c) = {}
    /\ ~firstErr /\ (\A w \in Wk : wpc[w] # "abort") =>
          \A c \in Ch : cerr[c] = "nil" =>
             \A r \in ReadRows(c) : r \in OwnRows(c) \/ \E w \in Open : r \in Taken(w)

\* The row counts are those of the rows folded in.
Counts ==
    /\ \A w \in Wk : w > merged => Cardinality(Folded(w)) =
                rowCounts[w] + IF wpc[w] = "count" THEN Len(buf[wcur[w]]) ELSE 0
    /\ merged >= 1 => rows = Cardinality(Folded(1))

\* Who is to blame.
Blamed ==
    /\ parentDone => firstErr \/ mpc = "end"
    /\ \A w \in Wk : wpc[w] = "abort" => ~addOK
    /\ firstErr => ~addOK \/ ~mergeOK
    /\ outcome \notin {"none", "aggregate", "ok"} => ~firstErr /\ outcome = ret /\ ret # "canceled"
    /\ outcome = "aggregate" => firstErr
    /\ outcome = "ok" => ~firstErr /\ ret = "nil" /\ \A c \in Ch : cerr[c] = "nil"

IInv == TypeOK /\ IngestInv /\ Sourced /\ WorkersOwn /\ Stages /\ Batches /\ Flow
        /\ Counts /\ Blamed

-----------------------------------------------------------------------------
(* Every step preserves it. *)

\* What the definitions that abbreviate groups of variables stand for.
USE DEF inputs, igVars, poolVars, skipVars, ingestVars, localVars, vars, ingestRest, mainVars,
        workerVars

\* What a worker's step is that only moves on.
LEMMA WorkerAt ==
    ASSUME TypeOK, NEW w \in Wk, NEW l, WGoto(w, l)
    PROVE  \A v \in Wk : wpc'[v] = IF v = w THEN l ELSE wpc[v]
BY DEF TypeOK, WGoto

\* Rows move between the workers' batches, their aggregators and the merged
\* result, and do not come or go.
LEMMA FlowStep ==
    ASSUME Flow, Open' = Open,
           \A c \in Ch : /\ ReadRows(c)' = ReadRows(c) /\ OwnRows(c)' = OwnRows(c)
                         /\ cerr'[c] = cerr[c],
           \A w \in Wk : Taken(w)' \subseteq Taken(w),
           \A w \in Wk : wpc'[w] = "add" => Folded(w)' \cap Range(buf[wcur[w]])' = {},
           ~firstErr' /\ (\A w \in Wk : wpc'[w] # "abort") =>
              /\ ~firstErr /\ (\A w \in Wk : wpc[w] # "abort")
              /\ \A w \in Wk : Taken(w) \subseteq Taken(w)'
    PROVE  Flow'
<1>1. \A w \in Wk : \A r \in Taken(w) : r[1] \in Ch
  BY DEF Taken, Folded, Row, Flow, ReadRows
<1> QED BY <1>1 DEF Flow, Open

-----------------------------------------------------------------------------
(* The workers. *)

\* A worker leaves the range loop.
LEMMA RangeEndsInv == ASSUME IInv, NEW w \in Wk, RangeEnds(w) PROVE IInv'
<1>1. \A v \in Wk : wpc'[v] = IF v = w THEN "done" ELSE wpc[v]
  BY WorkerAt DEF IInv, RangeEnds
<1>2. wpc[w] = "recv" /\ UNCHANGED <<ingestVars, mainVars, wcur, agg, rowCounts, firstErr>>
  BY DEF RangeEnds
<1>3. IngestInv' /\ Sourced'
  BY <1>2, IngestStutter DEF IInv
<1>4. TypeOK'
  BY <1>2, <1>3 DEF IInv, TypeOK, IngestInv, RangeEnds, WGoto
<1>5. WorkersOwn' /\ Stages' /\ Batches'
  BY <1>1, <1>2 DEF IInv, WorkersOwn, Stages, Batches
<1>6. Flow'
  <2>1. \A v \in Wk : Taken(v)' = Taken(v) /\ Folded(v)' = Folded(v)
    BY <1>1, <1>2 DEF Taken, Folded
  <2> QED BY <1>1, <1>2, <2>1, FlowStep DEF IInv, Flow, Open, ReadRows, OwnRows
<1>7. Counts' /\ Blamed'
  BY <1>1, <1>2 DEF IInv, Counts, Blamed, Folded
<1> QED BY <1>3, <1>4, <1>5, <1>6, <1>7 DEF IInv

\* A worker folds its batch into its aggregator, which has none of its rows.
LEMMA AddInv == ASSUME IInv, NEW w \in Wk, Add(w) PROVE IInv'
<1> DEFINE s == buf[wcur[w]]
<1>1. \A v \in Wk : wpc'[v] = IF v = w THEN "count" ELSE wpc[v]
  BY WorkerAt DEF IInv, Add
<1>2. wpc[w] = "add" /\ UNCHANGED <<ingestVars, mainVars, wcur, rowCounts, firstErr>>
  BY DEF Add
<1>3. IngestInv' /\ Sourced'
  BY <1>2, IngestStutter DEF IInv
<1>4. wcur[w] \in Batch /\ s \in Seq(Row) /\ IsInjective(s)
  BY <1>2 DEF IInv, TypeOK, IngestTypeOK, WorkersOwn, Batches
<1>5. /\ agg \in [Wk -> [Row -> Nat]] /\ agg[w] \in [Row -> 0..1]
      /\ Folded(w) \cap Range(s) = {}
  BY <1>2 DEF IInv, TypeOK, Batches, Flow
<1>6. agg' = [agg EXCEPT ![w] = [r \in Row |-> agg[w][r] + IF r \in Range(s) THEN 1 ELSE 0]]
  BY <1>4, <1>5, RowsCounted DEF Add
<1>7. /\ agg' \in [Wk -> [Row -> Nat]] /\ agg'[w] \in [Row -> 0..1]
      /\ \A v \in Wk \ {w} : agg'[v] = agg[v]
      /\ Folded(w)' = Folded(w) \cup Range(s)
  <2>1. \A r \in Row : agg'[w][r] = agg[w][r] + IF r \in Range(s) THEN 1 ELSE 0
    BY <1>5, <1>6
  <2>2. \A r \in Row : r \in Range(s) => agg[w][r] = 0
    BY <1>5 DEF Folded
  <2>3. Range(s) \subseteq Row
    BY <1>4 DEF Range
  <2>4. agg'[w] \in [Row -> 0..1]
    BY <1>5, <1>6, <2>2
  <2> QED BY <1>5, <1>6, <2>1, <2>2, <2>3, <2>4 DEF Folded
<1>8. TypeOK' /\ Batches'
  BY <1>2, <1>3, <1>7 DEF IInv, TypeOK, Batches, IngestInv, Add, WGoto
<1>9. WorkersOwn' /\ Stages' /\ Blamed'
  BY <1>1, <1>2 DEF IInv, WorkersOwn, Stages, Blamed
<1>10. Flow'
  <2>1. \A v \in Wk : Taken(v)' = Taken(v)
    BY <1>1, <1>2, <1>7 DEF Taken, Folded
  <2>2. \A v \in Wk : wpc'[v] = "add" => wpc[v] = "add" /\ Folded(v)' = Folded(v)
    BY <1>1, <1>7 DEF Folded
  <2> QED BY <1>1, <1>2, <2>1, <2>2, FlowStep DEF IInv, Flow, Open, ReadRows, OwnRows
<1>11. Counts'
  <2>1. Folded(w) \in SUBSET Row
    BY DEF Folded
  <2>2. Cardinality(Folded(w)') = Cardinality(Folded(w)) + Len(s)
    <3>1. IsFiniteSet(Folded(w)) /\ Cardinality(Folded(w)) \in Nat
      BY <2>1, RowFinite, FS_Subset, FS_CardinalityType
    <3>2. IsFiniteSet(Range(s)) /\ Cardinality(Range(s)) = Len(s) /\ Len(s) \in Nat
      BY <1>4, RowsCounted
    <3>3. Cardinality(Folded(w) \cap Range(s)) = 0
      BY <1>5, FS_EmptySet
    <3>4. Cardinality(Folded(w) \cup Range(s)) = Cardinality(Folded(w)) + Cardinality(Range(s)) - 0
      BY <3>1, <3>2, <3>3, FS_Union
    <3> QED BY <1>7, <3>1, <3>2, <3>4
  <2>3. merged = 0
    BY <1>2 DEF IInv, Stages
  <2>4. Cardinality(Folded(w)) = rowCounts[w]
    <3>1. w > merged /\ rowCounts[w] \in Nat
      BY <2>3, RunLocalAssumption DEF IInv, TypeOK, Wk
    <3>2. Cardinality(Folded(w)) = rowCounts[w] + 0
      BY <1>2, <3>1 DEF IInv, Counts
    <3> QED BY <3>1, <3>2
  <2>5. \A v \in Wk \ {w} : Folded(v)' = Folded(v)
    BY <1>7 DEF Folded
  <2> QED BY <1>1, <1>2, <2>2, <2>3, <2>4, <2>5 DEF IInv, Counts
<1> QED BY <1>3, <1>8, <1>9, <1>10, <1>11 DEF IInv

\* A worker that gives its batch back keeps nothing of it but the rows it has
\* folded in, which are all of them unless it failed.
LEMMA GiveBackInv ==
    ASSUME IInv, NEW w \in Wk, NEW l,
           \/ l = "recv" /\ wpc[w] = "release"
           \/ l = "abort" /\ wpc[w] = "add" /\ ~addOK,
           Put(wcur[w]), wcur' = [wcur EXCEPT ![w] = NoBatch], WGoto(w, l),
           UNCHANGED <<ingestRest, parentDone, made, buf, mainVars, agg, rowCounts, firstErr>>
    PROVE  IInv'
<1> DEFINE b == wcur[w]
<1>1. \A v \in Wk : wpc'[v] = IF v = w THEN l ELSE wpc[v]
  BY WorkerAt DEF IInv
<1>2. \A v \in Wk : wcur'[v] = IF v = w THEN NoBatch ELSE wcur[v]
  BY DEF IInv, TypeOK
<1>3. b # NoBatch /\ b \in made /\ pool[b] = 0 /\ \A c \in Ch : cur[c] # b
  BY DEF IInv, WorkersOwn
<1>4. pool' = [pool EXCEPT ![b] = 1] /\ \A e \in Batch : pool'[e] = IF e = b THEN 1 ELSE pool[e]
  BY <1>3 DEF Put, IInv, TypeOK, IngestTypeOK
<1>5. IngestInv'
  BY <1>3, <1>4, ConsumerInv DEF IInv, IngestInv, IngestTypeOK
<1>6. TypeOK' /\ Sourced'
  BY <1>5, IngestAssumption DEF IInv, TypeOK, IngestInv, WGoto, Sourced, LinesAre
<1>7. WorkersOwn'
  <2>1. \A v \in Wk : wcur'[v] # NoBatch => v # w /\ wcur'[v] = wcur[v] /\ wcur[v] # b
    BY <1>2, <1>3 DEF IInv, WorkersOwn
  <2>2. made \subseteq Batch /\ \A e \in made : e # NoBatch
    BY IngestAssumption DEF IInv, TypeOK, IngestTypeOK
  <2>3. \A v \in Wk : wpc'[v] \in {"add", "count", "release"} <=> wcur'[v] # NoBatch
    BY <1>1, <1>2 DEF IInv, WorkersOwn
  <2>4. \A v \in Wk : wcur'[v] # NoBatch => wcur'[v] \in made' /\ pool'[wcur'[v]] = 0
    BY <1>4, <2>1, <2>2 DEF IInv, WorkersOwn
  <2>5. \A u, v \in Wk : wcur'[v] # NoBatch /\ wcur'[v] = wcur'[u] => v = u
    BY <2>1 DEF IInv, WorkersOwn
  <2>6. \A v \in Wk, c \in Ch : wcur'[v] # NoBatch => wcur'[v] # cur'[c]
    BY <2>1 DEF IInv, WorkersOwn
  <2>7. ASSUME NEW e \in made
        PROVE  pool'[e] = 1 \/ (\E c \in Ch : cur[c] = e) \/ (\E v \in Wk : wcur'[v] = e)
    <3>1. CASE e = b
      BY <1>4, <2>2, <3>1
    <3>2. CASE e # b
      BY <1>2, <1>4, <2>2, <2>7, <3>2 DEF IInv, WorkersOwn
    <3> QED BY <3>1, <3>2
  <2> QED BY <2>3, <2>4, <2>5, <2>6, <2>7 DEF WorkersOwn
<1>8. Stages' /\ Blamed'
  BY <1>1 DEF IInv, Stages, Blamed
<1>9. Batches'
  BY <1>2 DEF IInv, Batches
<1>10. Flow'
  <2>1. \A v \in Wk : /\ Taken(v)' \subseteq Taken(v) /\ Folded(v)' = Folded(v)
                      /\ wpc'[v] = "add" => wpc[v] = "add" /\ wcur'[v] = wcur[v]
                      /\ wpc'[v] # "abort" => Taken(v) = Taken(v)'
    BY <1>1, <1>2 DEF Taken, Folded
  <2>2. \A v \in Wk : wpc'[v] = "add" => Folded(v)' \cap Range(buf[wcur[v]])' = {}
    BY <2>1 DEF IInv, Flow
  <2>3. (\A v \in Wk : wpc'[v] # "abort") => \A v \in Wk : wpc[v] # "abort"
    BY <1>1
  <2> QED BY <2>1, <2>2, <2>3, FlowStep DEF IInv, Open, ReadRows, OwnRows
<1>11. Counts'
  BY <1>1, <1>2 DEF IInv, Counts, Folded
<1> QED BY <1>5, <1>6, <1>7, <1>8, <1>9, <1>10, <1>11 DEF IInv

\* A worker whose aggregator refuses the batch gives it back, and its error ends
\* the run.
LEMMA AddFailsInv == ASSUME IInv, NEW w \in Wk, AddFails(w) PROVE IInv'
BY GiveBackInv DEF AddFails

\* ... which it records, and cancels the producers.
LEMMA AbortInv == ASSUME IInv, NEW w \in Wk, Abort(w) PROVE IInv'
<1>1. \A v \in Wk : wpc'[v] = IF v = w THEN "done" ELSE wpc[v]
  BY WorkerAt DEF IInv, Abort
<1>2. /\ wpc[w] = "abort" /\ firstErr' /\ parentDone'
      /\ UNCHANGED <<ingestRest, poolVars, mainVars, wcur, agg, rowCounts>>
  BY DEF Abort
<1>3. IngestInv'
  BY <1>2, ConsumerInv DEF IInv, IngestInv, IngestTypeOK
<1>4. TypeOK' /\ Sourced'
  BY <1>2, <1>3 DEF IInv, TypeOK, IngestInv, Abort, WGoto, Sourced, LinesAre
<1>5. WorkersOwn' /\ Batches' /\ Counts'
  BY <1>1, <1>2 DEF IInv, WorkersOwn, Batches, Counts, Folded
<1>6. Stages' /\ Blamed'
  BY <1>1, <1>2 DEF IInv, Stages, Blamed
<1>7. Flow'
  <2>1. \A v \in Wk : Taken(v)' = Taken(v) /\ Folded(v)' = Folded(v)
    BY <1>1, <1>2 DEF Taken, Folded
  <2> QED BY <1>1, <1>2, <2>1, FlowStep DEF IInv, Flow, Open, ReadRows, OwnRows
<1> QED BY <1>3, <1>4, <1>5, <1>6, <1>7 DEF IInv

\* A worker counts the rows of the batch it has folded in.
LEMMA CountRowsInv == ASSUME IInv, NEW w \in Wk, CountRows(w) PROVE IInv'
<1>1. \A v \in Wk : wpc'[v] = IF v = w THEN "release" ELSE wpc[v]
  BY WorkerAt DEF IInv, CountRows
<1>2. /\ wpc[w] = "count" /\ rowCounts' = [rowCounts EXCEPT ![w] = @ + Len(buf[wcur[w]])]
      /\ UNCHANGED <<ingestVars, mainVars, wcur, agg, firstErr>>
  BY DEF CountRows
<1>3. IngestInv' /\ Sourced'
  BY <1>2, IngestStutter DEF IInv
<1>4. /\ rowCounts[w] \in Nat /\ Len(buf[wcur[w]]) \in Nat
      /\ \A v \in Wk : rowCounts'[v] = IF v = w THEN rowCounts[w] + Len(buf[wcur[w]]) ELSE rowCounts[v]
  <2>1. wcur[w] \in Batch
    BY <1>2 DEF IInv, TypeOK, WorkersOwn
  <2>2. buf[wcur[w]] \in Seq(Row)
    BY <2>1 DEF IInv, TypeOK, IngestTypeOK
  <2> QED BY <1>2, <2>2 DEF IInv, TypeOK
<1>5. TypeOK'
  BY <1>2, <1>3, <1>4 DEF IInv, TypeOK, IngestInv, CountRows, WGoto
<1>6. WorkersOwn' /\ Stages' /\ Batches' /\ Blamed'
  BY <1>1, <1>2 DEF IInv, WorkersOwn, Stages, Batches, Blamed
<1>7. Flow'
  <2>1. \A v \in Wk : Taken(v)' = Taken(v) /\ Folded(v)' = Folded(v)
    BY <1>1, <1>2 DEF Taken, Folded
  <2> QED BY <1>1, <1>2, <2>1, FlowStep DEF IInv, Flow, Open, ReadRows, OwnRows
<1>8. Counts'
  BY <1>1, <1>2, <1>4 DEF IInv, Counts, Folded
<1> QED BY <1>3, <1>5, <1>6, <1>7, <1>8 DEF IInv

\* ... and gives it back to the pool.
LEMMA ReleaseInv == ASSUME IInv, NEW w \in Wk, Release(w) PROVE IInv'
BY GiveBackInv DEF Release

\* A batch goes from the goroutine of a chunk to a worker, with its rows.
LEMMA ReceiveInv == ASSUME IInv, NEW w \in Wk, NEW c \in Ch, Receive(w, c) PROVE IInv'
<1> DEFINE b == cur[c]
<1>1. \A v \in Wk : wpc'[v] = IF v = w THEN "add" ELSE wpc[v]
  BY WorkerAt DEF IInv, Receive
<1>2. /\ wpc[w] = "recv" /\ SendBatch(c) /\ wcur' = [wcur EXCEPT ![w] = b]
      /\ cpc[c] \in Holding
      /\ UNCHANGED <<mainVars, agg, rowCounts, firstErr>>
      /\ UNCHANGED <<inputs, igVars, at, cerr, errCh, chunkDone, parentDone, poolVars, skipVars>>
  BY DEF Receive, SendBatch, Holding
<1>3. \A v \in Wk : wcur'[v] = IF v = w THEN b ELSE wcur[v]
  BY <1>2 DEF IInv, TypeOK
<1>4. \A d \in Ch : /\ cur'[d] = IF d = c THEN NoBatch ELSE cur[d]
                    /\ cpc'[d] \in Holding <=> d # c /\ cpc[d] \in Holding
  BY <1>2 DEF SendBatch, Goto, Holding, IInv, TypeOK, IngestTypeOK
<1>5. b \in Batch /\ b # NoBatch /\ b \in made /\ pool[b] = 0 /\ \A d \in Ch \ {c} : cur[d] # b
  BY <1>2, IngestAssumption DEF IInv, TypeOK, IngestTypeOK, IngestInv, Control, Owned
<1>6. wcur[w] = NoBatch /\ mpc = "run" /\ \A v \in Wk : wcur[v] # b
  <2>1. wcur[w] = NoBatch
    BY <1>2 DEF IInv, WorkersOwn
  <2>2. mpc = "run"
    BY <1>2 DEF IInv, Stages
  <2>3. \A v \in Wk : wcur[v] # b
    BY <1>5 DEF IInv, WorkersOwn
  <2> QED BY <2>1, <2>2, <2>3
<1>7. IngestInv'
  BY <1>2, SendBatchInv DEF IInv
<1>8. TypeOK' /\ Sourced'
  BY <1>2, <1>5, <1>7 DEF IInv, TypeOK, IngestInv, Receive, WGoto, Sourced, LinesAre
<1>9. WorkersOwn'
  <2>1. \A v \in Wk : wpc'[v] \in {"add", "count", "release"} <=> wcur'[v] # NoBatch
    BY <1>1, <1>3, <1>5 DEF IInv, WorkersOwn
  <2>2. \A v \in Wk : wcur'[v] # NoBatch => wcur'[v] \in made /\ pool[wcur'[v]] = 0
    BY <1>3, <1>5 DEF IInv, WorkersOwn
  <2>3. \A u, v \in Wk : wcur'[v] # NoBatch /\ wcur'[v] = wcur'[u] => v = u
    BY <1>3, <1>6 DEF IInv, WorkersOwn
  <2>4. \A v \in Wk, d \in Ch : wcur'[v] # NoBatch => wcur'[v] # cur'[d]
    BY <1>3, <1>4, <1>5 DEF IInv, WorkersOwn
  <2>5. ASSUME NEW e \in made
        PROVE  pool[e] = 1 \/ (\E d \in Ch : cur'[d] = e) \/ (\E v \in Wk : wcur'[v] = e)
    <3>1. CASE e = b
      BY <1>3, <3>1
    <3>2. CASE e # b
      <4>1. e # NoBatch
        BY IngestAssumption DEF IInv, TypeOK, IngestTypeOK
      <4> QED BY <1>3, <1>4, <1>6, <3>2, <4>1 DEF IInv, WorkersOwn
    <3> QED BY <3>1, <3>2
  <2> QED BY <1>2, <2>1, <2>2, <2>3, <2>4, <2>5 DEF WorkersOwn
<1>10. Stages' /\ Blamed'
  BY <1>1, <1>2 DEF IInv, Stages, Blamed
<1>11. Batches'
  <2>1. IsInjective(buf[b])
    BY <1>2 DEF IInv, IngestInv, Progress
  <2> QED BY <1>2, <1>3, <2>1 DEF IInv, Batches
<1>12. Flow'
  <2>1. /\ \A d \in Ch : ReadRows(d)' = ReadRows(d) /\ (d # c => OwnRows(d)' = OwnRows(d))
        /\ OwnRows(c) = Range(buf[b]) /\ OwnRows(c)' = {}
    BY <1>2, <1>4 DEF ReadRows, OwnRows
  <2>2. /\ \A v \in Wk : Folded(v)' = Folded(v) /\ (v # w => Taken(v)' = Taken(v))
        /\ Taken(w) = Folded(w) /\ Taken(w)' = Folded(w) \cup Range(buf[b])
    BY <1>1, <1>2, <1>3 DEF Taken, Folded
  <2>3. Open' = Open /\ Open = Wk
    <3>1. merged = 0
      BY <1>6 DEF IInv, Stages
    <3> QED BY <1>2, <3>1 DEF Open, Wk
  <2>4. \A d \in Ch : OwnRows(d) \subseteq ReadRows(d) /\ \A r \in ReadRows(d) : r[1] = d
    BY DEF IInv, IngestInv, Progress, OwnRows, ReadRows
  <2>5. \A v \in Wk : \A r \in Taken(v)' : r \in ReadRows(r[1])'
    <3>1. \A v \in Wk : \A r \in Taken(v) : r \in ReadRows(r[1]) /\ r[1] \in Ch
      BY DEF IInv, Flow, ReadRows, Row
    <3> QED BY <2>1, <2>2, <2>4, <3>1
  <2>6. \A v \in Wk : wpc'[v] = "add" => Folded(v)' \cap Range(buf[wcur[v]])' = {}
    <3>1. Folded(w) \cap Range(buf[b]) = {}
      BY <2>1, <2>2 DEF IInv, Flow
    <3> QED BY <1>1, <1>2, <1>3, <2>2, <3>1 DEF IInv, Flow
  <2>7. \A u, v \in Wk : u # v => Taken(u)' \cap Taken(v)' = {}
    BY <2>1, <2>2, <2>3 DEF IInv, Flow
  <2>8. \A v \in Wk, d \in Ch : Taken(v)' \cap OwnRows(d)' = {}
    BY <2>1, <2>2, <2>4 DEF IInv, Flow
  <2>9. ASSUME ~firstErr, \A v \in Wk : wpc[v] # "abort", NEW d \in Ch, cerr[d] = "nil",
               NEW r \in ReadRows(d)
        PROVE  r \in OwnRows(d)' \/ \E v \in Wk : r \in Taken(v)'
    <3>1. r \in OwnRows(d) \/ \E v \in Wk : r \in Taken(v)
      BY <2>3, <2>9 DEF IInv, Flow
    <3> QED BY <2>1, <2>2, <3>1
  <2>10. (\A v \in Wk : wpc'[v] # "abort") => \A v \in Wk : wpc[v] # "abort"
    BY <1>1, <1>2
  <2> QED BY <1>2, <2>1, <2>3, <2>5, <2>6, <2>7, <2>8, <2>9, <2>10 DEF Flow
<1>13. Counts'
  BY <1>1, <1>2, <1>3 DEF IInv, Counts, Folded
<1> QED BY <1>7, <1>8, <1>9, <1>10, <1>11, <1>12, <1>13 DEF IInv

\* Every step of a worker preserves the invariant.
LEMMA WorkerInv == ASSUME IInv, NEW w \in Wk, Worker(w) PROVE IInv'
BY RangeEndsInv, AddInv, AddFailsInv, AbortInv, CountRowsInv, ReleaseInv DEF Worker

-----------------------------------------------------------------------------
(* The producers. *)

\* A producer touches no batch that is with a worker.
LEMMA ChunkStepInv == ASSUME IInv, NEW c \in Ch, Chunk(c), UNCHANGED localVars PROVE IInv'
<1>1. /\ UNCHANGED <<inputs, igVars, parentDone>> /\ igpc = "wait" /\ made \subseteq made'
      /\ \A b \in made : pool[b] = 0 /\ (\A d \in Ch : cur[d] # b) =>
            buf'[b] = buf[b] /\ pool'[b] = 0 /\ \A d \in Ch : cur'[d] # b
      /\ \A b \in made' : \/ pool'[b] = 1
                          \/ \E d \in Ch : cur'[d] = b
                          \/ b \in made /\ pool[b] = 0 /\ \A d \in Ch : cur[d] # b
  BY ChunkBatches DEF IInv
<1>2. IngestInv' /\ Sourced'
  BY ChunkInv, ChunkSourced DEF IInv
<1>3. TypeOK'
  BY <1>2 DEF IInv, TypeOK, IngestInv
<1>4. \A w \in Wk : wcur[w] # NoBatch => /\ wcur[w] \in made /\ pool[wcur[w]] = 0
                                         /\ \A d \in Ch : cur[d] # wcur[w]
  BY DEF IInv, WorkersOwn
<1>5. WorkersOwn'
  <2>1. \A w \in Wk : wcur[w] # NoBatch => /\ wcur[w] \in made' /\ pool'[wcur[w]] = 0
                                           /\ \A d \in Ch : cur'[d] # wcur[w]
    BY <1>1, <1>4
  <2>2. \A b \in made' : pool'[b] = 1 \/ (\E d \in Ch : cur'[d] = b) \/ (\E w \in Wk : wcur[w] = b)
    BY <1>1 DEF IInv, WorkersOwn
  <2> QED BY <2>1, <2>2 DEF IInv, WorkersOwn
<1>6. \A w \in Wk : wcur[w] # NoBatch => buf'[wcur[w]] = buf[wcur[w]]
  BY <1>1, <1>4
<1>7. mpc # "end"
  BY <1>1 DEF IInv, Stages
<1>8. Stages' /\ Batches' /\ Blamed'
  BY <1>1, <1>6, <1>7 DEF IInv, Stages, Batches, Blamed
<1>9. Flow'
  <2>1. \A w \in Wk : Taken(w)' = Taken(w) /\ Folded(w)' = Folded(w)
    BY <1>6 DEF Taken, Folded, IInv, WorkersOwn
  <2>2. /\ \A d \in Ch \ {c} : /\ ReadRows(d)' = ReadRows(d) /\ OwnRows(d)' = OwnRows(d)
                               /\ cerr'[d] = cerr[d]
        /\ ReadRows(c) \subseteq ReadRows(c)'
        /\ OwnRows(c)' \subseteq OwnRows(c) \cup (ReadRows(c)' \ ReadRows(c))
        /\ cerr'[c] = "nil" => /\ cerr[c] = "nil"
                               /\ OwnRows(c) \cup (ReadRows(c)' \ ReadRows(c)) \subseteq OwnRows(c)'
    BY RowsKept, ChunkRows DEF IInv
  <2>3. \A w \in Wk : \A r \in Taken(w) : r \in ReadRows(r[1]) /\ r[1] \in Ch
    BY DEF IInv, Flow, ReadRows, Row
  <2>4. \A w \in Wk : \A r \in Taken(w) : r \in ReadRows(r[1])'
    BY <2>2, <2>3
  <2>5. \A w \in Wk : wpc[w] = "add" => Folded(w)' \cap Range(buf'[wcur[w]]) = {}
    BY <1>6, <2>1 DEF IInv, Flow, WorkersOwn
  <2>6. \A w \in Wk, d \in Ch : Taken(w) \cap OwnRows(d)' = {}
    <3>1. \A w \in Wk : Taken(w) \cap (ReadRows(c)' \ ReadRows(c)) = {}
      BY <2>3 DEF ReadRows
    <3>2. \A w \in Wk, d \in Ch : Taken(w) \cap OwnRows(d) = {}
      BY DEF IInv, Flow
    <3> QED BY <2>2, <3>1, <3>2
  <2>7. ASSUME ~firstErr, \A w \in Wk : wpc[w] # "abort", NEW d \in Ch, cerr'[d] = "nil",
               NEW r \in ReadRows(d)'
        PROVE  r \in OwnRows(d)' \/ \E w \in Open : r \in Taken(w)
    <3>1. cerr[d] = "nil"
      BY <2>2, <2>7
    <3>2. \A q \in ReadRows(d) : q \in OwnRows(d) \/ \E w \in Open : q \in Taken(w)
      BY <2>7, <3>1 DEF IInv, Flow
    <3> QED BY <2>2, <2>7, <3>2
  <2>8. \A v, w \in Open : v # w => Taken(v) \cap Taken(w) = {}
    BY DEF IInv, Flow
  <2>9. Open' = Open /\ Open \subseteq Wk
    BY DEF Open
  <2>10. UNCHANGED <<wpc, wcur, firstErr>>
    OBVIOUS
  <2> HIDE DEF localVars
  <2> QED BY <2>1, <2>4, <2>5, <2>6, <2>7, <2>8, <2>9, <2>10 DEF Flow
<1>10. Counts'
  BY <1>6 DEF IInv, Counts, Folded, WorkersOwn
<1> QED BY <1>2, <1>3, <1>5, <1>8, <1>9, <1>10 DEF IInv

\* The goroutine of Ingest closes the channels when no producer is left.
LEMMA GoroutineStepInv == ASSUME IInv, IngestGoroutine, UNCHANGED localVars PROVE IInv'
<1>1. /\ UNCHANGED <<inputs, cur, cerr, poolVars, parentDone, skipVars>>
      /\ \A c \in Ch : ReadRows(c)' = ReadRows(c) /\ OwnRows(c)' = OwnRows(c)
      /\ Sourced'
  BY GoroutineRows DEF IInv
<1>2. IngestInv'
  BY IngestGoroutineInv DEF IInv
<1>3. TypeOK' /\ WorkersOwn' /\ Batches'
  BY <1>1, <1>2 DEF IInv, TypeOK, IngestInv, WorkersOwn, Batches
<1>4. Stages' /\ Blamed'
  BY <1>1 DEF IInv, Stages, Blamed, IngestGoroutine, Begin, SetupFails, Collect, CloseErrs,
              CloseBatches, IngestInv, Outcome
<1>5. Flow'
  <2>1. \A w \in Wk : Taken(w)' = Taken(w) /\ Folded(w)' = Folded(w)
    BY <1>1 DEF Taken, Folded
  <2> QED BY <1>1, <2>1, FlowStep DEF IInv, Flow, Open
<1>6. Counts'
  BY <1>1 DEF IInv, Counts, Folded
<1> QED BY <1>1, <1>2, <1>3, <1>4, <1>5, <1>6 DEF IInv

-----------------------------------------------------------------------------
(* RunParallel after its workers, and runRun. *)

\* The merge starts with the first aggregator when no worker failed.
LEMMA WorkersDoneInv == ASSUME IInv, WorkersDone PROVE IInv'
<1>1. /\ mpc = "run" /\ \A w \in Wk : wpc[w] = "done"
      /\ UNCHANGED <<ingestVars, workerVars, addOK, agg, outcome, printed>>
      /\ \/ firstErr /\ mpc' = "errs" /\ UNCHANGED <<merged, rows, mergeOK>>
         \/ ~firstErr /\ mpc' = "merge" /\ merged' = 1 /\ rows' = rowCounts[1] /\ mergeOK' \in BOOLEAN
  BY DEF WorkersDone
<1>2. merged = 0 /\ 1 \in Wk /\ \A w \in Wk : w \in Nat /\ w >= 1
  BY <1>1, RunLocalAssumption DEF IInv, Stages, Wk
<1>3. IngestInv' /\ Sourced'
  BY <1>1, IngestStutter DEF IInv
<1>4. TypeOK'
  BY <1>1, <1>2, <1>3, RunLocalAssumption DEF IInv, TypeOK, IngestInv
<1>5. WorkersOwn' /\ Batches'
  BY <1>1 DEF IInv, WorkersOwn, Batches
<1>6. Stages' /\ Blamed'
  BY <1>1, <1>2 DEF IInv, Stages, Blamed
<1>7. Flow'
  <2>1. \A w \in Wk : Taken(w)' = Taken(w) /\ Folded(w)' = Folded(w)
    BY <1>1 DEF Taken, Folded
  <2>2. Open' = Open
    BY <1>1, <1>2 DEF Open
  <2> QED BY <1>1, <2>1, <2>2, FlowStep DEF IInv, Flow, ReadRows, OwnRows
<1>8. Counts'
  <2>1. \A w \in Wk : w > 0 /\ Folded(w)' = Folded(w)
    BY <1>1, <1>2 DEF Folded
  <2>2. Cardinality(Folded(1)) = rowCounts[1] + 0 /\ rowCounts[1] \in Nat
    BY <1>1, <1>2, <2>1 DEF IInv, Counts, TypeOK
  <2> QED BY <1>1, <1>2, <2>1, <2>2 DEF IInv, Counts
<1> QED BY <1>3, <1>4, <1>5, <1>6, <1>7, <1>8 DEF IInv

\* Merging an aggregator moves its rows and its count.
LEMMA MergeNextInv == ASSUME IInv, MergeNext PROVE IInv'
<1> DEFINE m == merged + 1
<1>1. /\ mpc = "merge" /\ merged < NWorkers /\ mergeOK /\ merged' = m
      /\ rows' = rows + rowCounts[m]
      /\ agg' = [agg EXCEPT ![1] = [r \in Row |-> agg[1][r] + agg[m][r]]]
      /\ UNCHANGED <<ingestVars, workerVars, addOK, mergeOK, mpc, outcome, printed>>
  BY DEF MergeNext, IInv, TypeOK
<1>2. /\ ~firstErr /\ merged \in Nat /\ merged >= 1 /\ m \in Wk /\ 1 \in Wk /\ m # 1
      /\ \A w \in Wk : wpc[w] = "done" /\ w \in Nat /\ w >= 1
  BY <1>1, RunLocalAssumption DEF IInv, TypeOK, Stages, Wk
<1>3. IngestInv' /\ Sourced'
  BY <1>1, IngestStutter DEF IInv
<1>4. \A w \in Wk : Taken(w) = Folded(w) /\ Taken(w)' = Folded(w)'
  BY <1>1, <1>2 DEF Taken
<1>5. Open' = Open \ {m} /\ m \in Open /\ 1 \in Open
  BY <1>1, <1>2 DEF Open
<1>6. Folded(1) \cap Folded(m) = {}
  BY <1>2, <1>4, <1>5 DEF IInv, Flow
<1>7. /\ agg' \in [Wk -> [Row -> Nat]] /\ agg'[1] \in [Row -> 0..1]
      /\ Folded(1)' = Folded(1) \cup Folded(m)
      /\ \A w \in Wk \ {1} : agg'[w] = agg[w] /\ Folded(w)' = Folded(w)
  <2>1. agg \in [Wk -> [Row -> Nat]] /\ agg[1] \in [Row -> 0..1] /\ agg[m] \in [Row -> 0..1]
    BY <1>2 DEF IInv, TypeOK, Batches
  <2>2. \A r \in Row : agg'[1][r] = agg[1][r] + agg[m][r]
    BY <1>1, <1>2, <2>1
  <2>3. \A r \in Row : ~(agg[1][r] = 1 /\ agg[m][r] = 1)
    BY <1>6 DEF Folded
  <2>4. \A r \in Row : agg[1][r] + agg[m][r] \in 0..1 /\ agg[1][r] + agg[m][r] \in Nat
    BY <2>1, <2>3
  <2>5. agg' \in [Wk -> [Row -> Nat]] /\ agg'[1] \in [Row -> 0..1]
    BY <1>1, <1>2, <2>1, <2>4
  <2>6. Folded(1)' = Folded(1) \cup Folded(m)
    BY <2>1, <2>2, <2>3 DEF Folded
  <2>7. \A w \in Wk \ {1} : agg'[w] = agg[w] /\ Folded(w)' = Folded(w)
    BY <1>1, <2>1 DEF Folded
  <2> QED BY <2>5, <2>6, <2>7
<1>8. TypeOK' /\ Batches'
  <2>1. merged' \in 0..NWorkers /\ rows' \in Nat
    BY <1>1, <1>2, RunLocalAssumption DEF IInv, TypeOK
  <2> QED BY <1>1, <1>3, <1>7, <2>1 DEF IInv, TypeOK, IngestInv, Batches
<1>9. WorkersOwn' /\ Stages' /\ Blamed'
  BY <1>1, <1>2 DEF IInv, WorkersOwn, Stages, Blamed
<1>10. Flow'
  <2>1. \A w \in Wk \ {1} : Taken(w)' = Taken(w)
    BY <1>4, <1>7
  <2>2. Taken(1)' = Taken(1) \cup Taken(m)
    BY <1>2, <1>4, <1>7
  <2>3. \A c \in Ch : ReadRows(c)' = ReadRows(c) /\ OwnRows(c)' = OwnRows(c)
    BY <1>1 DEF ReadRows, OwnRows
  <2>4. \A w \in Wk : \A r \in Taken(w)' : r \in ReadRows(r[1])'
    <3>1. \A w \in Wk : \A r \in Taken(w) : r \in ReadRows(r[1]) /\ r[1] \in Ch
      BY DEF IInv, Flow, ReadRows, Row
    <3> QED BY <1>2, <2>1, <2>2, <2>3, <3>1
  <2>5. \A w \in Wk : wpc'[w] # "add"
    BY <1>1, <1>2
  <2>6. \A v, w \in Open' : v # w => Taken(v)' \cap Taken(w)' = {}
    <3>1. \A v, w \in Open : v # w => Taken(v) \cap Taken(w) = {}
      BY DEF IInv, Flow
    <3> QED BY <1>5, <2>1, <2>2, <3>1 DEF Open
  <2>7. \A w \in Wk, c \in Ch : Taken(w)' \cap OwnRows(c)' = {}
    BY <1>2, <2>1, <2>2, <2>3 DEF IInv, Flow
  <2>8. ASSUME NEW c \in Ch, cerr[c] = "nil", NEW r \in ReadRows(c)
        PROVE  r \in OwnRows(c) \/ \E w \in Open' : r \in Taken(w)'
    <3>1. r \in OwnRows(c) \/ \E w \in Open : r \in Taken(w)
      BY <1>2, <2>8 DEF IInv, Flow
    <3> QED BY <1>2, <1>5, <2>1, <2>2, <3>1 DEF Open
  <2> QED BY <1>1, <2>3, <2>4, <2>5, <2>6, <2>7, <2>8 DEF Flow
<1>11. Counts'
  <2>1. Folded(1) \in SUBSET Row /\ Folded(m) \in SUBSET Row
    BY DEF Folded
  <2>2. IsFiniteSet(Folded(1)) /\ IsFiniteSet(Folded(m))
    BY <2>1, RowFinite, FS_Subset
  <2>3. rows \in Nat /\ rowCounts[m] \in Nat
    BY <1>2 DEF IInv, TypeOK
  <2>4. Cardinality(Folded(1)) = rows
    BY <1>2 DEF IInv, Counts
  <2>5. Cardinality(Folded(m)) = rowCounts[m]
    <3>1. m > merged /\ wpc[m] # "count"
      BY <1>2
    <3>2. Cardinality(Folded(m)) = rowCounts[m] + 0
      BY <1>2, <3>1 DEF IInv, Counts
    <3> QED BY <2>3, <3>2
  <2>6. Cardinality(Folded(1) \cap Folded(m)) = 0
    BY <1>6, FS_EmptySet
  <2>7. Cardinality(Folded(1) \cup Folded(m)) = rows + rowCounts[m]
    <3> HIDE DEF m
    <3>1. Cardinality(Folded(1) \cup Folded(m)) =
             Cardinality(Folded(1)) + Cardinality(Folded(m)) - Cardinality(Folded(1) \cap Folded(m))
      BY <2>2, FS_Union
    <3> QED BY <2>3, <2>4, <2>5, <2>6, <3>1
  <2>8. rows' = Cardinality(Folded(1)')
    BY <1>1, <1>7, <2>7
  <2>9. \A w \in Wk : w > merged' => w > merged /\ w # 1
    BY <1>1, <1>2
  <2> QED BY <1>1, <1>7, <2>8, <2>9 DEF IInv, Counts
<1> QED BY <1>3, <1>8, <1>9, <1>10, <1>11 DEF IInv

\* The merge ends, well or not.
LEMMA MergeEndsInv == ASSUME IInv, MergeFails \/ MergeDone PROVE IInv'
<1>1. /\ mpc = "merge" /\ mpc' = "errs"
      /\ \/ merged = NWorkers /\ UNCHANGED firstErr
         \/ ~mergeOK /\ firstErr'
      /\ UNCHANGED <<ingestVars, addOK, mergeOK, wpc, wcur, agg, rowCounts, merged, rows,
                     outcome, printed>>
  BY DEF MergeFails, MergeDone
<1>2. IngestInv' /\ Sourced'
  BY <1>1, IngestStutter DEF IInv
<1>3. TypeOK'
  <2>1. firstErr' \in BOOLEAN
    BY DEF MergeFails, MergeDone, IInv, TypeOK
  <2> QED BY <1>1, <1>2, <2>1 DEF IInv, TypeOK, IngestInv
<1>4. WorkersOwn' /\ Batches'
  BY <1>1 DEF IInv, WorkersOwn, Batches
<1>5. Stages' /\ Blamed'
  BY <1>1 DEF IInv, Stages, Blamed
<1>6. \A w \in Wk : Taken(w)' = Taken(w) /\ Folded(w)' = Folded(w)
  BY <1>1 DEF Taken, Folded
<1>7. Flow'
  <2>1. wpc' = wpc /\ ~firstErr
    BY <1>1 DEF IInv, Stages
  <2> QED BY <1>1, <1>6, <2>1, FlowStep DEF IInv, Flow, Open, ReadRows, OwnRows
<1>8. Counts'
  BY <1>1 DEF IInv, Counts, Folded
<1> QED BY <1>2, <1>3, <1>4, <1>5, <1>7, <1>8 DEF IInv

\* The command reports what it learnt from the error channel, which has a
\* cancellation only if something of its own cancelled.
LEMMA ReportOutcomeInv == ASSUME IInv, ReportOutcome PROVE IInv'
<1>1. /\ mpc = "errs" /\ errsClosed /\ mpc' = "end" /\ errs' = <<>> /\ parentDone'
      /\ outcome' = IF firstErr THEN "aggregate" ELSE IF errs # <<>> THEN errs[1] ELSE "ok"
      /\ UNCHANGED <<inputs, igpc, ret, errsClosed, batchesClosed, cpc, cur, at, cerr, errCh,
                     chunkDone, poolVars, skipVars, workerVars, addOK, mergeOK, agg, merged,
                     rows>>
  BY DEF ReportOutcome
<1>2. IngestInv'
  BY <1>1, ConsumerInv DEF IInv, IngestInv, IngestTypeOK
<1>3. igpc \in {"close", "done"} /\ errs = (IF ret = "nil" THEN <<>> ELSE <<ret>>) /\ ret \in Errors
  BY <1>1 DEF IInv, IngestInv, IngestTypeOK, Control, Stages
<1>4. outcome' = IF firstErr THEN "aggregate" ELSE IF ret # "nil" THEN ret ELSE "ok"
  BY <1>1, <1>3
<1>5. ~firstErr => ~parentDone
  BY <1>1 DEF IInv, Blamed
<1>6. ~firstErr => ret # "canceled" /\ (ret = "nil" => \A c \in Ch : cerr[c] = "nil")
  BY <1>3, <1>5 DEF IInv, IngestInv, Outcome
<1>7. TypeOK' /\ Sourced'
  <2>1. printed' \in Nat
    BY DEF ReportOutcome, IInv, TypeOK, IngestTypeOK
  <2> QED BY <1>1, <1>2, <1>3, <1>4, <2>1 DEF IInv, TypeOK, IngestInv, Errors, Sourced, LinesAre
<1>8. WorkersOwn' /\ Batches'
  BY <1>1 DEF IInv, WorkersOwn, Batches
<1>9. Stages'
  BY <1>1, <1>3, <1>4 DEF IInv, Stages, Errors
<1>10. Blamed'
  BY <1>1, <1>3, <1>4, <1>6 DEF IInv, Blamed, Errors
<1>11. \A w \in Wk : Taken(w)' = Taken(w) /\ Folded(w)' = Folded(w)
  BY <1>1 DEF Taken, Folded
<1>12. Flow'
  BY <1>1, <1>11, FlowStep DEF IInv, Flow, Open, ReadRows, OwnRows
<1>13. Counts'
  BY <1>1 DEF IInv, Counts, Folded
<1> QED BY <1>2, <1>7, <1>8, <1>9, <1>10, <1>12, <1>13 DEF IInv

\* Every step of runRun after the workers preserves it.
LEMMA MainInv == ASSUME IInv, Main PROVE IInv'
BY WorkersDoneInv, MergeNextInv, MergeEndsInv, ReportOutcomeInv DEF Main

-----------------------------------------------------------------------------
(* What it is good for. *)

\* Nothing has begun.
LEMMA InitInv == Init => IInv
<1> SUFFICES ASSUME Init PROVE IInv
  OBVIOUS
<1>1. IngestInv
  BY IngestInitInv DEF Init
<1>2. TypeOK
  <2>1. /\ wpc \in [Wk -> {"recv", "add", "abort", "count", "release", "done"}]
        /\ wcur \in [Wk -> Batch \cup {NoBatch}]
        /\ agg \in [Wk -> [Row -> Nat]] /\ rowCounts \in [Wk -> Nat]
    BY DEF Init, NoRows
  <2>2. merged \in 0..NWorkers /\ rows \in Nat /\ printed \in Nat
    BY RunLocalAssumption DEF Init
  <2>3. mergeOK \in BOOLEAN /\ addOK \in BOOLEAN /\ firstErr \in BOOLEAN
    BY DEF Init
  <2>4. IngestTypeOK /\ mpc \in {"run", "merge", "errs", "end"} /\ outcome = "none"
    BY <1>1 DEF Init, IngestInv
  <2> QED BY <2>1, <2>2, <2>3, <2>4 DEF TypeOK
<1>3. Sourced /\ WorkersOwn /\ Stages
  BY DEF Init, IngestInit, Sourced, WorkersOwn, Stages
<1>4. Batches
  BY DEF Init, NoRows, Batches
<1>5. /\ \A w \in Wk : Folded(w) = {} /\ Taken(w) = {}
      /\ \A c \in Ch : ReadRows(c) = {}
  BY DEF Init, IngestInit, NoRows, Folded, Taken, ReadRows, Row
<1>6. Flow
  <2>1. \A w \in Wk : wpc[w] = "recv"
    BY DEF Init
  <2>2. Open \subseteq Wk
    BY DEF Open
  <2> QED BY <1>5, <2>1, <2>2 DEF Flow
<1>7. Counts
  BY <1>5, FS_EmptySet DEF Counts, Init
<1>8. Blamed
  BY DEF Init, IngestInit, Blamed
<1> QED BY <1>1, <1>2, <1>3, <1>4, <1>6, <1>7, <1>8 DEF IInv

\* A step that changes nothing.
LEMMA StutterInv == ASSUME IInv, UNCHANGED vars PROVE IInv'
<1>1. IngestInv' /\ Sourced'
  BY IngestStutter DEF IInv
<1>2. TypeOK' /\ WorkersOwn' /\ Stages' /\ Batches' /\ Blamed'
  BY <1>1 DEF IInv, TypeOK, IngestInv, WorkersOwn, Stages, Batches, Blamed
<1>3. Counts'
  BY DEF IInv, Counts, Folded
<1>4. Flow'
  <2>1. \A w \in Wk : Taken(w)' = Taken(w) /\ Folded(w)' = Folded(w)
    BY DEF Taken, Folded
  <2> QED BY <2>1, FlowStep DEF IInv, Flow, Open, ReadRows, OwnRows
<1> QED BY <1>1, <1>2, <1>3, <1>4 DEF IInv

\* The invariant is inductive.
LEMMA StepInv == IInv /\ [Next]_vars => IInv'
<1> SUFFICES ASSUME IInv, [Next]_vars PROVE IInv'
  OBVIOUS
<1>1. CASE IngestGoroutine /\ UNCHANGED localVars
  BY <1>1, GoroutineStepInv
<1>2. ASSUME NEW c \in Ch, Chunk(c) /\ UNCHANGED localVars PROVE IInv'
  BY <1>2, ChunkStepInv
<1>3. ASSUME NEW w \in Wk, Worker(w) PROVE IInv'
  BY <1>3, WorkerInv
<1>4. ASSUME NEW w \in Wk, NEW c \in Ch, Receive(w, c) PROVE IInv'
  BY <1>4, ReceiveInv
<1>5. CASE Main
  BY <1>5, MainInv
<1>6. CASE UNCHANGED vars
  BY <1>6, StutterInv
<1> HIDE DEF localVars, vars
<1> QED BY <1>1, <1>2, <1>3, <1>4, <1>5, <1>6 DEF Next, Ended

\* The invariant holds in every state a run can reach.
THEOREM Invariance == Spec => []IInv
BY InitInv, StepInv, PTL DEF Spec

\* Every variable keeps to the values the code gives it; the error channel of
\* runChunks never has more errors than the room make(chan error, len(chunks))
\* gave it, so no goroutine blocks on reporting one.
THEOREM TypeCorrect == Spec => []TypeOK
<1>1. IInv => TypeOK
  BY DEF IInv
<1> QED BY <1>1, Invariance, PTL

\* A batch of the pool has one owner at a time and none is lost, whoever fails,
\* returns early or is cancelled between get and Release.
THEOREM OwnerIsOne == Spec => []OneOwner
<1>1. IInv => OneOwner
  <2> SUFFICES ASSUME IInv, NEW b \in Batch
               PROVE  pool[b] + Cardinality(Holders(b)) = IF b \in made THEN 1 ELSE 0
    BY DEF OneOwner
  <2>1. /\ pool[b] \in 0..1 /\ (pool[b] = 1 => b \in made) /\ b # NoBatch
        /\ \A c \in Ch : cur[c] = b => b \in made /\ pool[b] = 0
        /\ \A w \in Wk : wcur[w] = b => b \in made /\ pool[b] = 0
    BY IngestAssumption DEF IInv, IngestInv, IngestTypeOK, Control, Owned, WorkersOwn
  <2>2. CASE b \notin made \/ pool[b] = 1
    <3>1. Holders(b) = {}
      BY <2>1, <2>2 DEF Holders
    <3> QED BY <2>1, <2>2, <3>1, FS_EmptySet
  <2>3. CASE b \in made /\ pool[b] = 0
    <3>1. \A c, d \in Ch : cur[c] = b /\ cur[d] = b => c = d
      BY <2>1 DEF IInv, IngestInv, Control, Owned
    <3>2. \A v, w \in Wk : wcur[v] = b /\ wcur[w] = b => v = w
      BY <2>1 DEF IInv, WorkersOwn
    <3>3. \A w \in Wk, c \in Ch : ~(wcur[w] = b /\ cur[c] = b)
      BY <2>1 DEF IInv, WorkersOwn
    <3>4. (\E c \in Ch : cur[c] = b) \/ (\E w \in Wk : wcur[w] = b)
      BY <2>3 DEF IInv, WorkersOwn
    <3>5. \E x : Holders(b) = {x}
      <4>1. ASSUME NEW c \in Ch, cur[c] = b PROVE Holders(b) = {<<"chunk", c>>}
        BY <3>1, <3>3, <4>1 DEF Holders
      <4>2. ASSUME NEW w \in Wk, wcur[w] = b PROVE Holders(b) = {<<"worker", w>>}
        BY <3>2, <3>3, <4>2 DEF Holders
      <4> QED BY <3>4, <4>1, <4>2
    <3>6. Cardinality(Holders(b)) = 1
      BY <3>5, FS_Singleton
    <3> QED BY <2>3, <3>6
  <2> QED BY <2>1, <2>2, <2>3
<1> QED BY <1>1, Invariance, PTL

\* What an ended run that answers has seen: all of the lines.
LEMMA OkIsComplete == IInv => Complete
<1> SUFFICES ASSUME IInv, outcome = "ok"
             PROVE  /\ Answerable
                    /\ \A r \in Row : agg[1][r] = IF r \in LinesAre("good") THEN 1 ELSE 0
                    /\ rows = Cardinality(LinesAre("good"))
  BY DEF Complete
<1>1. /\ mpc = "end" /\ ~firstErr /\ ret = "nil" /\ merged = NWorkers
      /\ \A c \in Ch : cerr[c] = "nil"
      /\ \A w \in Wk : wpc[w] = "done"
  BY DEF IInv, TypeOK, Stages, Blamed
<1>2. \A c \in Ch : cpc[c] = "done"
  BY <1>1 DEF IInv, Stages, IngestInv, Control
<1>3. \A c \in Ch : at[c] = Len(lines[c]) /\ Len(lines[c]) \in Nat
  BY <1>1, <1>2, LinesType DEF IInv, IngestInv, IngestTypeOK, Progress
<1>4. \A r \in Row : r[1] \in Ch /\ r[2] \in Nat /\ r[2] >= 1 /\ r = <<r[1], r[2]>>
  BY IngestAssumption DEF Row
<1>5. LinesAre("good") = UNION {ReadRows(c) : c \in Ch}
  BY <1>3, <1>4 DEF LinesAre, ReadRows
<1>6. Folded(1) = LinesAre("good")
  <2>1. 1 \in Wk /\ Open = {1}
    BY <1>1, RunLocalAssumption DEF Open, Wk
  <2>2. \A w \in Wk : Taken(w) = Folded(w)
    BY <1>1 DEF Taken
  <2>3. \A c \in Ch : OwnRows(c) = {}
    BY <1>2 DEF OwnRows, Holding
  <2>4. ASSUME NEW c \in Ch, NEW r \in ReadRows(c) PROVE r \in Folded(1)
    BY <1>1, <2>1, <2>2, <2>3 DEF IInv, Flow
  <2>5. \A r \in Folded(1) : r \in ReadRows(r[1]) /\ r[1] \in Ch
    BY <1>4, <2>1, <2>2 DEF IInv, Flow, Folded
  <2> QED BY <1>5, <2>4, <2>5
<1>7. Answerable
  <2>1. ASSUME NEW r \in Row, r[2] <= Len(lines[r[1]])
        PROVE  ~(lines[r[1]][r[2]] = "io" \/ (lines[r[1]][r[2]] = "bad" /\ policy = "fail"))
    <3>1. r[1] \in Ch /\ r[2] \in 1..at[r[1]]
      BY <1>3, <1>4, <2>1
    <3> QED BY <1>1, <3>1 DEF IInv, IngestInv, Progress
  <2> QED BY <2>1 DEF Answerable, LinesAre
<1>8. \A r \in Row : agg[1][r] = IF r \in LinesAre("good") THEN 1 ELSE 0
  <2>1. agg[1] \in [Row -> 0..1]
    BY RunLocalAssumption DEF IInv, Batches, Wk
  <2> QED BY <1>6, <2>1 DEF Folded
<1>9. rows = Cardinality(LinesAre("good"))
  BY <1>1, <1>6, RunLocalAssumption DEF IInv, Counts
<1> QED BY <1>7, <1>8, <1>9

\* A result that is printed is that of the whole input: no line a goroutine left
\* unread, or a batch left unsent, when something failed or was cancelled can be
\* missing from it, no row is in it twice, and its row count is right.
THEOREM ResultIsComplete == Spec => []Complete
BY OkIsComplete, Invariance, PTL

\* The error the command ends with is a cause that its inputs have, and not the
\* cancellation that some cause was followed by.
THEOREM CauseReported == Spec => []RootCause
<1>1. IInv => RootCause
  <2> SUFFICES ASSUME IInv PROVE RootCause
    OBVIOUS
  <2>1. mpc = "end" => igpc \in {"close", "done"}
    BY DEF IInv, Stages
  <2>2. outcome \in {"bad", "io"} => \E c \in Ch : cerr[c] = outcome
    BY <2>1 DEF IInv, Stages, Blamed, IngestInv, Outcome
  <2>3. outcome = "canceled" => FALSE
    BY DEF IInv, Blamed
  <2> QED BY <2>2, <2>3 DEF RootCause, IInv, Sourced, Blamed
<1> QED BY <1>1, Invariance, PTL

\* When the command ends nothing it started still reads the source, and all its
\* batches are in the pool.
THEOREM AllReturned == Spec => []NothingLeft
<1>1. IInv => NothingLeft
  <2> SUFFICES ASSUME IInv, outcome # "none"
               PROVE  /\ \A c \in Ch : cpc[c] \in {"idle", "done"}
                      /\ \A w \in Wk : wpc[w] = "done"
                      /\ \A b \in made : pool[b] = 1
    BY DEF NothingLeft
  <2>1. mpc = "end" /\ igpc \in {"close", "done"} /\ \A w \in Wk : wpc[w] = "done"
    BY DEF IInv, Stages
  <2>2. \A c \in Ch : cpc[c] \in {"idle", "done"}
    BY <2>1 DEF IInv, IngestInv, Control
  <2>3. (\A c \in Ch : cur[c] = NoBatch) /\ (\A w \in Wk : wcur[w] = NoBatch)
    BY <2>1, <2>2 DEF IInv, IngestInv, Control, WorkersOwn, Holding
  <2>4. \A b \in made : b # NoBatch
    BY IngestAssumption DEF IInv, TypeOK, IngestTypeOK
  <2> QED BY <2>1, <2>2, <2>3, <2>4 DEF IInv, WorkersOwn
<1> QED BY <1>1, Invariance, PTL

\* runRun is a Job as far as safety goes: the outcome is set once, to the answer
\* or to an error, and there is no answer when the lines call for an error.
THEOREM ImplementsJob == Spec => AbstractJob!Safety
<1>1. Init => AbstractJob!Init
  BY DEF Init, AbstractJob!Init
<1>2. IInv /\ IInv' /\ [Next]_vars => [AbstractJob!Next]_(AbstractJob!vars)
  <2> SUFFICES ASSUME IInv, IInv', [Next]_vars
               PROVE  [AbstractJob!Next]_(AbstractJob!vars)
    OBVIOUS
  <2>1. UNCHANGED inputs
    <3>1. ASSUME NEW c \in Ch, Chunk(c) PROVE UNCHANGED inputs
      BY <3>1, ChunkBatches DEF IInv
    <3>2. ASSUME NEW w \in Wk, NEW c \in Ch, Receive(w, c) PROVE UNCHANGED inputs
      BY <3>2 DEF Receive, SendBatch
    <3>3. ASSUME NEW w \in Wk, Worker(w) PROVE UNCHANGED inputs
      BY <3>3 DEF Worker, RangeEnds, Add, AddFails, Abort, CountRows, Release
    <3>4. CASE IngestGoroutine
      BY <3>4, GoroutineRows DEF IInv
    <3>5. CASE Main \/ UNCHANGED vars
      BY <3>5 DEF Main, WorkersDone, MergeNext, MergeFails, MergeDone, ReportOutcome
    <3> QED BY <3>1, <3>2, <3>3, <3>4, <3>5 DEF Next, Ended
  <2>2. UNCHANGED <<Answerable, TheAnswer>>
    BY <2>1 DEF Answerable, TheAnswer, LinesAre
  <2>3. outcome # "none" => UNCHANGED <<outcome, agg, rows>>
    <3> SUFFICES ASSUME outcome # "none" PROVE UNCHANGED <<outcome, agg, rows>>
      OBVIOUS
    <3>1. mpc = "end" /\ \A w \in Wk : wpc[w] = "done"
      BY DEF IInv, Stages
    <3> QED BY <3>1 DEF Next, Receive, Worker, RangeEnds, Add, AddFails, Abort, CountRows,
               Release, Main, WorkersDone, MergeNext, MergeFails, MergeDone, ReportOutcome, Ended
  <2>4. CASE outcome # "none"
    BY <2>2, <2>3, <2>4 DEF AbstractJob!vars
  <2>5. CASE outcome = "none" /\ outcome' = "none"
    BY <2>2, <2>5 DEF AbstractJob!vars
  <2>6. CASE outcome = "none" /\ outcome' \notin {"none", "ok"}
    BY <2>2, <2>6 DEF AbstractJob!Next, AbstractJob!Reject
  <2>7. CASE outcome = "none" /\ outcome' = "ok"
    <3>1. Complete'
      BY OkIsComplete, PTL
    <3>2. Answerable /\ <<"answer", agg'[1], rows'>> = TheAnswer
      <4>1. agg'[1] \in [Row -> 0..1]
        BY RunLocalAssumption DEF IInv, Batches, Wk
      <4>2. LinesAre("good")' = LinesAre("good")
        BY <2>1 DEF LinesAre
      <4> QED BY <2>2, <2>7, <3>1, <4>1, <4>2 DEF Complete, TheAnswer
    <3> QED BY <2>2, <2>7, <3>2 DEF AbstractJob!Next, AbstractJob!Answer, TheAnswer
  <2> QED BY <2>4, <2>5, <2>6, <2>7
<1> QED BY <1>1, <1>2, Invariance, PTL DEF Spec, AbstractJob!Safety
=============================================================================
