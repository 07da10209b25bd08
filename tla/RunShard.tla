------------------------------ MODULE RunShard ------------------------------
(***************************************************************************)
(* WorkerServer.RunShard: one RPC on a worker process.  The handler reads  *)
(* one byte range through Ingest (always by runSingle, for the range's     *)
(* reader cannot be cut again), folds the batches itself, and returns the  *)
(* raw accumulator state.  The caller may give up at any moment, which     *)
(* cancels the RPC's context while goroutines are at work.                 *)
(***************************************************************************)
EXTENDS Ingest

VARIABLES
    addOK,      \* Aggregator.Add accepts the batches
    hpc,        \* the handler
    started,    \* Ingest was called
    closed,     \* the deferred fileSrc.Close() ran
    hcur,       \* the batch the handler received
    agg,        \* how often each row was folded in
    rowCount,   \* rows
    reply,      \* "none", an error, or "ok" with ...
    answer      \* ... the ShardResult: rows folded, Rows, Skipped

handlerVars == <<addOK, hpc, started, closed, hcur, agg, rowCount, reply, answer>>

vars == <<ingestVars, handlerVars>>

NoRows == [r \in Row |-> 0]

Init ==
    /\ IngestInit
    /\ single
    /\ addOK \in BOOLEAN
    /\ hpc = "decode"
    /\ started = FALSE
    /\ closed = FALSE
    /\ hcur = NoBatch
    /\ agg = NoRows
    /\ rowCount = 0
    /\ reply = "none"
    /\ answer = <<>>

ingestRest == <<inputs, igVars, cpc, cur, at, cerr, errCh, chunkDone, skipVars>>

\* The request does not decode, the spec does not validate, or the file cannot
\* be opened.
Refuse ==
    /\ hpc = "decode"
    /\ reply' = "refused"
    /\ hpc' = "close"
    /\ UNCHANGED <<ingestVars, addOK, started, closed, hcur, agg, rowCount, answer>>

\* Everything checks out: Ingest starts its goroutine.
Accept ==
    /\ hpc = "decode"
    /\ started' = TRUE
    /\ hpc' = "recv"
    /\ UNCHANGED <<ingestVars, addOK, closed, hcur, agg, rowCount, reply, answer>>

\* for b := range batches
Receive(c) ==
    /\ hpc = "recv"
    /\ SendBatch(c)
    /\ hcur' = cur[c]
    /\ hpc' = "add"
    /\ UNCHANGED <<addOK, started, closed, agg, rowCount, reply, answer>>

RangeEnds ==
    /\ hpc = "recv"
    /\ batchesClosed
    /\ hpc' = "errs"
    /\ UNCHANGED <<ingestVars, addOK, started, closed, hcur, agg, rowCount, reply, answer>>

\* Add, rows += NumRows, Release.
Add ==
    /\ hpc = "add" /\ addOK
    /\ agg' = [r \in Row |-> agg[r] + Cardinality({i \in DOMAIN buf[hcur] : buf[hcur][i] = r})]
    /\ rowCount' = rowCount + Len(buf[hcur])
    /\ Put(hcur)
    /\ hcur' = NoBatch
    /\ hpc' = "recv"
    /\ UNCHANGED <<ingestRest, parentDone, made, buf, addOK, started, closed, reply, answer>>

\* Mutated form: the handler cancels its own context and reports what the
\* reading goroutine then says.
AddFailsCanceled ==
    /\ hpc = "add" /\ ~addOK
    /\ Put(hcur)
    /\ parentDone' = TRUE
    /\ hcur' = NoBatch
    /\ reply' = "canceled"
    /\ hpc' = "close"
    /\ UNCHANGED <<ingestRest, made, buf, addOK, started, closed, agg, rowCount, answer>>

\* Add fails: the batch is released and the handler returns at once; nobody
\* receives from batches or errs any more.
AddFails ==
    /\ hpc = "add" /\ ~addOK
    /\ Put(hcur)
    /\ hcur' = NoBatch
    /\ reply' = "aggregate"
    /\ hpc' = "close"
    /\ UNCHANGED <<ingestRest, parentDone, made, buf, addOK, started, closed, agg,
                   rowCount, answer>>

\* Mutated form: what was read before the error is returned as the result.
FinishAnyway ==
    /\ hpc = "errs" /\ errsClosed
    /\ errs' = <<>>
    /\ reply' = "ok" /\ answer' = <<agg, rowCount, skipped>>
    /\ hpc' = "close"
    /\ UNCHANGED <<inputs, igpc, ret, errsClosed, batchesClosed, cpc, cur, at, cerr,
                   errCh, chunkDone, parentDone, poolVars, skipVars, addOK, started,
                   closed, hcur, agg, rowCount>>

\* <-errs, then the exported state as the result, unless groupStatesToProto
\* refuses it.
Finish ==
    /\ hpc = "errs" /\ errsClosed
    /\ errs' = <<>>
    /\ \/ errs # <<>> /\ reply' = errs[1] /\ UNCHANGED answer
       \/ errs = <<>> /\ reply' = "ok" /\ answer' = <<agg, rowCount, skipped>>
       \/ errs = <<>> /\ reply' = "convert" /\ UNCHANGED answer
    /\ hpc' = "close"
    /\ UNCHANGED <<inputs, igpc, ret, errsClosed, batchesClosed, cpc, cur, at, cerr,
                   errCh, chunkDone, parentDone, poolVars, skipVars, addOK, started,
                   closed, hcur, agg, rowCount>>

\* The deferred calls: fileSrc.Close() ...
CloseFile ==
    /\ hpc = "close"
    /\ closed' = TRUE
    /\ hpc' = "cancel"
    /\ UNCHANGED <<ingestVars, addOK, started, hcur, agg, rowCount, reply, answer>>

\* Mutated form: there is no deferred cancel().
CancelNot ==
    /\ hpc = "cancel"
    /\ hpc' = "end"
    /\ UNCHANGED <<ingestVars, addOK, started, closed, hcur, agg, rowCount, reply, answer>>

\* ... then cancel().
CancelCtx ==
    /\ hpc = "cancel"
    /\ parentDone' = TRUE
    /\ hpc' = "end"
    /\ UNCHANGED <<ingestRest, poolVars, addOK, started, closed, hcur, agg, rowCount,
                   reply, answer>>

Handler ==
    \/ Refuse \/ Accept \/ RangeEnds \/ Add \/ AddFails \/ Finish \/ CloseFile \/ CancelCtx
    \/ \E c \in Ch : Receive(c)

\* The coordinator cancels the call, or its connection breaks.
CallerGone ==
    /\ hpc # "end" /\ ~parentDone
    /\ parentDone' = TRUE
    /\ UNCHANGED <<ingestRest, poolVars, handlerVars>>

\* A read of the file after it was closed, when the goroutine outlives the
\* handler.
ReadClosed(c) ==
    /\ closed
    /\ cpc[c] = "loop" /\ ~CtxDone
    /\ at[c] < Len(lines[c])
    /\ Return(c, "io")
    /\ UNCHANGED <<inputs, igVars, at, errCh, chunkDone, parentDone, skipVars>>

Producer == started /\ (IngestGoroutine \/ \E c \in Ch : Chunk(c) \/ ReadClosed(c))

AllDone == hpc = "end" /\ (started => igpc = "done")

Ended == AllDone /\ UNCHANGED vars

Next ==
    \/ Handler
    \/ Producer /\ UNCHANGED handlerVars
    \/ CallerGone
    \/ Ended

Spec == Init /\ [][Next]_vars

\* Both goroutines run whenever they can; nothing makes the caller give up.
FairSpec == Spec /\ WF_vars(Handler) /\ WF_vars(Producer /\ UNCHANGED handlerVars)

-----------------------------------------------------------------------------
(* Properties. *)

TypeOK ==
    /\ IngestTypeOK
    /\ addOK \in BOOLEAN
    /\ hpc \in {"decode", "recv", "add", "errs", "close", "cancel", "end"}
    /\ started \in BOOLEAN /\ closed \in BOOLEAN
    /\ hcur \in Batch \cup {NoBatch}
    /\ agg \in [Row -> Nat]
    /\ rowCount \in Nat
    /\ reply \in {"none", "ok", "refused", "aggregate", "setup", "bad", "io", "canceled",
                  "convert"}

\* A ShardResult covers the whole shard: every good row once, the right row and
\* skipped counts, also when the caller cancelled half-way or the file was
\* closed under the reading goroutine.
ReplyComplete ==
    reply = "ok" =>
        /\ Answerable
        /\ answer = <<[r \in Row |-> IF r \in LinesAre("good") THEN 1 ELSE 0],
                      Cardinality(LinesAre("good")), Cardinality(LinesAre("bad"))>>

\* "canceled" is only ever reported to a caller that cancelled.
CanceledIsTheCallers == [][reply' = "canceled" => parentDone]_vars

\* However the handler returns, the goroutine Ingest started comes to an end:
\* a worker process serving many calls does not pile up blocked goroutines.
NoGoroutineLeft == <>AllDone

\* The call is a Job: its whole shard, or an error.
AbstractJob == INSTANCE Job WITH
    NoAnswer <- <<"no answer">>,
    Pending  <- <<"pending">>,
    Rejected <- <<"rejected">>,
    expected <- IF Answerable
                THEN <<[r \in Row |-> IF r \in LinesAre("good") THEN 1 ELSE 0],
                       Cardinality(LinesAre("good")), Cardinality(LinesAre("bad"))>>
                ELSE <<"no answer">>,
    outcome  <- IF reply = "none" THEN <<"pending">>
                ELSE IF reply = "ok" THEN answer
                ELSE <<"rejected">>

IsJob == AbstractJob!Spec
=============================================================================
