------------------------------ MODULE RunLocal ------------------------------
(***************************************************************************)
(* `cordage run` on one machine: Ingest's goroutines, the workers of       *)
(* aggregate.RunParallel that fold batches into private aggregators, and   *)
(* runRun, which merges, checks both error paths and prints the result.    *)
(*                                                                         *)
(* An aggregator is what decides whether its result is right: how often    *)
(* each row was folded into it.                                            *)
(***************************************************************************)
EXTENDS Ingest

CONSTANT NWorkers

ASSUME RunLocalAssumption == NWorkers \in Nat \ {0}

Wk == 1..NWorkers

VARIABLES
    addOK,      \* Aggregator.Add accepts the batches (its column-count check)
    mergeOK,    \* Aggregator.Merge accepts the other aggregators (specsEqual);
                \* it does not matter before RunParallel's merge loop
    wpc,        \* per worker: its goroutine
    wcur,       \* per worker: the batch it received
    agg,        \* per worker: how often each row was folded in
    rowCounts,  \* per worker: rows counted
    firstErr,   \* RunParallel's firstErr is set
    mpc,        \* runRun
    merged,     \* RunParallel's merge loop: aggregators merged so far
    rows,       \* RunParallel's row total
    outcome,    \* how the command ended: "none", "ok" or an error
    printed     \* the skipped count in the last line of the output

localVars == <<addOK, mergeOK, wpc, wcur, agg, rowCounts, firstErr, mpc, merged,
               rows, outcome, printed>>

vars == <<ingestVars, localVars>>

NoRows == [r \in Row |-> 0]

Init ==
    /\ IngestInit
    /\ addOK \in BOOLEAN
    /\ mergeOK = TRUE
    /\ wpc = [w \in Wk |-> "recv"]
    /\ wcur = [w \in Wk |-> NoBatch]
    /\ agg = [w \in Wk |-> NoRows]
    /\ rowCounts = [w \in Wk |-> 0]
    /\ firstErr = FALSE
    /\ mpc = "run"
    /\ merged = 0
    /\ rows = 0
    /\ outcome = "none"
    /\ printed = 0

-----------------------------------------------------------------------------
(* RunParallel's workers. *)

WGoto(w, l) == wpc' = [wpc EXCEPT ![w] = l]

ingestRest == <<inputs, igVars, cpc, cur, at, cerr, errCh, chunkDone, skipVars>>
mainVars   == <<addOK, mergeOK, mpc, merged, rows, outcome, printed>>

\* A chunk's send and a worker's receive meet on the unbuffered channel.
Receive(w, c) ==
    /\ wpc[w] = "recv"
    /\ SendBatch(c)
    /\ wcur' = [wcur EXCEPT ![w] = cur[c]]
    /\ WGoto(w, "add")
    /\ UNCHANGED <<mainVars, agg, rowCounts, firstErr>>

\* The channel is closed: the range loop ends.
RangeEnds(w) ==
    /\ wpc[w] = "recv"
    /\ batchesClosed
    /\ WGoto(w, "done")
    /\ UNCHANGED <<ingestVars, mainVars, wcur, agg, rowCounts, firstErr>>

\* Aggregator.Add folds in every row of the batch ...
Add(w) ==
    /\ wpc[w] = "add"
    /\ addOK
    /\ agg' = [agg EXCEPT ![w] =
                 [r \in Row |-> @[r] + Cardinality({i \in DOMAIN buf[wcur[w]] : buf[wcur[w]][i] = r})]]
    /\ WGoto(w, "count")
    /\ UNCHANGED <<ingestVars, mainVars, wcur, rowCounts, firstErr>>

\* ... or refuses it, and the batch is released.
AddFails(w) ==
    /\ wpc[w] = "add"
    /\ ~addOK
    /\ Put(wcur[w])
    /\ wcur' = [wcur EXCEPT ![w] = NoBatch]
    /\ WGoto(w, "abort")
    /\ UNCHANGED <<ingestRest, parentDone, made, buf, mainVars, agg, rowCounts, firstErr>>

\* errOnce: record the error and cancel the producers' context.
Abort(w) ==
    /\ wpc[w] = "abort"
    /\ firstErr' = TRUE
    /\ parentDone' = TRUE
    /\ WGoto(w, "done")
    /\ UNCHANGED <<ingestRest, poolVars, mainVars, wcur, agg, rowCounts>>

\* Mutated form: the batch goes back to the pool before its rows are counted.
CountReleased(w) ==
    /\ wpc[w] = "count"
    /\ Put(wcur[w])
    /\ rowCounts' = [rowCounts EXCEPT ![w] = @ + Len(buf[wcur[w]])]
    /\ WGoto(w, "release")
    /\ UNCHANGED <<ingestRest, parentDone, made, buf, mainVars, wcur, agg, firstErr>>

CountRows(w) ==
    /\ wpc[w] = "count"
    /\ rowCounts' = [rowCounts EXCEPT ![w] = @ + Len(buf[wcur[w]])]
    /\ WGoto(w, "release")
    /\ UNCHANGED <<ingestVars, mainVars, wcur, agg, firstErr>>

Release(w) ==
    /\ wpc[w] = "release"
    /\ Put(wcur[w])
    /\ wcur' = [wcur EXCEPT ![w] = NoBatch]
    /\ WGoto(w, "recv")
    /\ UNCHANGED <<ingestRest, parentDone, made, buf, mainVars, agg, rowCounts, firstErr>>

Worker(w) ==
    \/ RangeEnds(w) \/ Add(w) \/ AddFails(w) \/ Abort(w) \/ CountRows(w) \/ Release(w)

-----------------------------------------------------------------------------
(* RunParallel after wg.Wait(), and runRun. *)

workerVars == <<wpc, wcur, rowCounts, firstErr>>

\* An error of a worker leaves nothing to merge; aggs[0] is the accumulator.
WorkersDone ==
    /\ mpc = "run"
    /\ \A w \in Wk : wpc[w] = "done"
    /\ IF firstErr
       THEN mpc' = "errs" /\ UNCHANGED <<merged, rows, mergeOK>>
       ELSE /\ mpc' = "merge"
            /\ merged' = 1
            /\ rows' = rowCounts[1]
            /\ mergeOK' \in BOOLEAN
    /\ UNCHANGED <<ingestVars, workerVars, addOK, agg, outcome, printed>>

\* Mutated form: the last aggregator is left out.
MergeShort ==
    /\ mpc = "merge"
    /\ merged < NWorkers
    /\ merged' = merged + 1
    /\ rows' = rows + rowCounts[merged + 1]
    /\ IF merged' = NWorkers /\ NWorkers > 1
       THEN UNCHANGED agg
       ELSE agg' = [agg EXCEPT ![1] = [r \in Row |-> @[r] + agg[merged + 1][r]]]
    /\ UNCHANGED <<ingestVars, workerVars, addOK, mergeOK, mpc, outcome, printed>>

\* One iteration of each of RunParallel's two loops: rows += rowCounts[i], and
\* final.Merge(aggs[i]).
MergeNext ==
    /\ mpc = "merge"
    /\ merged < NWorkers
    /\ mergeOK
    /\ merged' = merged + 1
    /\ rows' = rows + rowCounts[merged + 1]
    /\ agg' = [agg EXCEPT ![1] = [r \in Row |-> @[r] + agg[merged + 1][r]]]
    /\ UNCHANGED <<ingestVars, workerVars, addOK, mergeOK, mpc, outcome, printed>>

MergeFails ==
    /\ mpc = "merge"
    /\ merged < NWorkers
    /\ ~mergeOK
    /\ mpc' = "errs"
    /\ firstErr' = TRUE
    /\ UNCHANGED <<ingestVars, addOK, mergeOK, wpc, wcur, agg, rowCounts, merged,
                   rows, outcome, printed>>

MergeDone ==
    /\ mpc = "merge"
    /\ merged = NWorkers
    /\ mpc' = "errs"
    /\ UNCHANGED <<ingestVars, workerVars, addOK, mergeOK, agg, merged, rows,
                   outcome, printed>>

\* runRun: <-errs, the error of RunParallel before that of Ingest, or the
\* result; then the deferred cancel().
ReportOutcome ==
    /\ mpc = "errs"
    /\ errsClosed
    /\ mpc' = "end"
    /\ errs' = <<>>
    /\ outcome' = IF firstErr THEN "aggregate"
                  ELSE IF errs # <<>> THEN errs[1] ELSE "ok"
    /\ printed' = IF outcome' = "ok" THEN skipped ELSE printed
    /\ parentDone' = TRUE
    /\ UNCHANGED <<inputs, igpc, ret, errsClosed, batchesClosed, cpc, cur, at, cerr,
                   errCh, chunkDone, poolVars, skipVars, workerVars, addOK, mergeOK,
                   agg, merged, rows>>

Main == WorkersDone \/ MergeNext \/ MergeFails \/ MergeDone \/ ReportOutcome

\* The command is over.
Ended ==
    /\ outcome # "none" /\ igpc = "done"
    /\ UNCHANGED vars

Next ==
    \/ (IngestGoroutine \/ \E c \in Ch : Chunk(c)) /\ UNCHANGED localVars
    \/ \E w \in Wk : Worker(w) \/ \E c \in Ch : Receive(w, c)
    \/ Main
    \/ Ended

Spec == Init /\ [][Next]_vars

\* The Go scheduler runs every goroutine that can run.
FairSpec ==
    /\ Spec
    /\ WF_vars(IngestGoroutine /\ UNCHANGED localVars)
    /\ \A c \in Ch : WF_vars(Chunk(c) /\ UNCHANGED localVars)
    /\ \A w \in Wk : WF_vars(Worker(w) \/ \E c \in Ch : Receive(w, c))
    /\ WF_vars(Main)

-----------------------------------------------------------------------------
(* Properties. *)

TypeOK ==
    /\ IngestTypeOK
    /\ addOK \in BOOLEAN /\ mergeOK \in BOOLEAN
    /\ wpc \in [Wk -> {"recv", "add", "abort", "count", "release", "done"}]
    /\ wcur \in [Wk -> Batch \cup {NoBatch}]
    /\ agg \in [Wk -> [Row -> Nat]]
    /\ rowCounts \in [Wk -> Nat]
    /\ firstErr \in BOOLEAN
    /\ mpc \in {"run", "merge", "errs", "end"}
    /\ merged \in 0..NWorkers
    /\ rows \in Nat
    /\ outcome \in {"none", "ok", "aggregate"} \cup (Errors \ {"nil"})
    /\ printed \in Nat

\* A printed result has every good row exactly once, counts them right, and is
\* printed only when no line had to end the run: nothing a cancelled or
\* failing goroutine left unread can pass for a complete result.
Complete ==
    outcome = "ok" =>
        /\ Answerable
        /\ \A r \in Row : agg[1][r] = IF r \in LinesAre("good") THEN 1 ELSE 0
        /\ rows = Cardinality(LinesAre("good"))

Holders(b) == {<<"chunk", c>> : c \in {d \in Ch : cur[d] = b}}
              \cup {<<"worker", w>> : w \in {v \in Wk : wcur[v] = b}}

\* A batch has one owner: it is held by at most one goroutine, and then it is
\* not in the pool; it is never in the pool twice; and none is lost.
OneOwner ==
    \A b \in Batch :
        pool[b] + Cardinality(Holders(b)) = IF b \in made THEN 1 ELSE 0

\* The error the command ends with is a cause and not the cancellation that
\* followed from one, and it is one that these inputs can have.
RootCause ==
    /\ outcome # "canceled"
    /\ outcome = "bad" => policy = "fail" /\ LinesAre("bad") # {}
    /\ outcome = "io" => LinesAre("io") # {}
    /\ outcome = "aggregate" => ~addOK \/ ~mergeOK

\* When the command ends, no goroutine it started is left reading the source
\* it is about to close, and every batch is back in the pool.
NothingLeft ==
    outcome # "none" =>
        /\ \A c \in Ch : cpc[c] \in {"idle", "done"}
        /\ \A w \in Wk : wpc[w] = "done"
        /\ \A b \in made : pool[b] = 1

\* The skipped count of the output is the number of rows dropped.
SkippedExact == outcome = "ok" => printed = Cardinality(LinesAre("bad"))

\* runRun is a Job, whatever fails: the answer is every good row once, and no
\* goroutine is left blocked on a send nobody will receive or a receive nobody
\* will serve.
TheAnswer == <<"answer", [r \in Row |-> IF r \in LinesAre("good") THEN 1 ELSE 0],
               Cardinality(LinesAre("good"))>>

AbstractJob == INSTANCE Job WITH
    NoAnswer <- <<"no answer">>,
    Pending  <- <<"pending">>,
    Rejected <- <<"rejected">>,
    expected <- IF Answerable THEN TheAnswer ELSE <<"no answer">>,
    outcome  <- IF outcome = "none" THEN <<"pending">>
                ELSE IF outcome = "ok" THEN <<"answer", agg[1], rows>>
                ELSE <<"rejected">>

IsJob == AbstractJob!Spec
=============================================================================
