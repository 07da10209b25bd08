------------------------------- MODULE Ingest -------------------------------
(***************************************************************************)
(* The producing half of a query: ingest.Ingest and its goroutines.        *)
(*                                                                         *)
(* One goroutine runs ingest().  It either drains the source itself        *)
(* (runSingle) or starts one goroutine per chunk (runChunks) and waits for *)
(* all of them.  Each drains its reader into batches taken from a shared   *)
(* pool, and hands full batches over an unbuffered channel.  A failing     *)
(* goroutine reports its error and cancels its siblings through a context  *)
(* derived from the caller's.                                              *)
(*                                                                         *)
(* The module describes the producers; RunLocal and RunShard add the       *)
(* consumers, which take part in SendBatch, and own parentDone.            *)
(*                                                                         *)
(* A line is "good", "bad" (the row does not parse) or "io" (reading it    *)
(* fails).  Which lines a chunk has is ChunkPlan's subject.                *)
(***************************************************************************)
EXTENDS Integers, Sequences, FiniteSets

CONSTANTS
    NChunks,    \* number of chunk goroutines of runChunks
    MaxLines,   \* bound: lines per chunk
    MaxRows,    \* bound: lines of all chunks together
    BatchSize,  \* Config.BatchSize
    Batch,      \* the batch objects there can be
    NoBatch

ASSUME IngestAssumption ==
    /\ NChunks \in Nat \ {0}
    /\ MaxLines \in Nat
    /\ MaxRows \in Nat
    /\ BatchSize \in Nat \ {0}
    /\ NoBatch \notin Batch

Ch  == 1..NChunks
Row == Ch \X (1..MaxLines)      \* the i-th line of a chunk
Kind == {"good", "bad", "io"}
Errors == {"nil", "setup", "bad", "io", "canceled"}

VARIABLES
    lines,      \* what each chunk's reader will return
    policy,     \* Config.OnError: "skip" or "fail"
    single,     \* TRUE: runSingle; FALSE: runChunks
    igpc,       \* the goroutine started by Ingest
    ret,        \* what ingest() returned: "nil" or an error
    cpc,        \* per chunk: its goroutine (runSingle: the Ingest goroutine's call)
    cur,        \* per chunk: the batch it is filling
    at,         \* per chunk: number of lines read
    cerr,       \* per chunk: the error drainChunk returned
    errCh,      \* runChunks' buffered error channel
    chunkDone,  \* the derived context was cancelled by a chunk goroutine
    parentDone, \* the caller's context is done
    errs,       \* Ingest's error channel: its buffered value
    errsClosed,
    batchesClosed,
    pool,       \* per batch: how many times it sits in the sync.Pool
    made,       \* the batches allocated so far
    buf,        \* per batch: its rows
    skipped,    \* the caller's skipped-row counter
    tmp         \* per chunk: the value loaded by skipped++

inputs  == <<lines, policy, single>>
igVars  == <<igpc, ret, errs, errsClosed, batchesClosed>>
poolVars == <<pool, made, buf>>
skipVars == <<skipped, tmp>>
ingestVars == <<inputs, igVars, cpc, cur, at, cerr, errCh, chunkDone,
                parentDone, poolVars, skipVars>>

Lines == UNION {[1..n -> Kind] : n \in 0..MaxLines}

\* runSingle drains the source in one call, here that of chunk 1.
Active == IF single THEN {1} ELSE Ch

IngestInit ==
    /\ lines \in [Ch -> Lines]
    /\ Cardinality({r \in Row : r[2] <= Len(lines[r[1]])}) <= MaxRows
    /\ policy \in {"skip", "fail"}
    /\ single \in BOOLEAN
    /\ \A c \in Ch : c \notin Active => lines[c] = <<>>
    /\ igpc = "setup"
    /\ ret = "nil"
    /\ cpc = [c \in Ch |-> "idle"]
    /\ cur = [c \in Ch |-> NoBatch]
    /\ at = [c \in Ch |-> 0]
    /\ cerr = [c \in Ch |-> "nil"]
    /\ errCh = <<>>
    /\ chunkDone = FALSE
    /\ parentDone = FALSE
    /\ errs = <<>>
    /\ errsClosed = FALSE
    /\ batchesClosed = FALSE
    /\ pool = [b \in Batch |-> 0]
    /\ made = {}
    /\ buf = [b \in Batch |-> <<>>]
    /\ skipped = 0
    /\ tmp = [c \in Ch |-> 0]

-----------------------------------------------------------------------------
(* The batch pool. *)

\* Batch.Release: back into the pool, without looking whether it is there.
Put(b) == pool' = [pool EXCEPT ![b] = @ + 1]

\* The batch allocated next; which one it is makes no difference.
NewBatch == IF made = Batch THEN NoBatch ELSE CHOOSE b \in Batch : b \notin made

\* Mutated form of GetBatch: the rows of the batch's last use are still there.
GetBatchUnreset(c) ==
    \E b \in Batch :
        /\ \/ /\ pool[b] > 0
              /\ pool' = [pool EXCEPT ![b] = @ - 1]
              /\ UNCHANGED made
           \/ /\ b = NewBatch
              /\ made' = made \cup {b}
              /\ UNCHANGED pool
        /\ UNCHANGED buf
        /\ cur' = [cur EXCEPT ![c] = b]

\* batchPool.get: any pooled batch, or a new one; its rows are reset.
GetBatch(c) ==
    \E b \in Batch :
        /\ \/ /\ pool[b] > 0
              /\ pool' = [pool EXCEPT ![b] = @ - 1]
              /\ UNCHANGED made
           \/ /\ b = NewBatch
              /\ made' = made \cup {b}
              /\ UNCHANGED pool
        /\ buf' = [buf EXCEPT ![b] = <<>>]
        /\ cur' = [cur EXCEPT ![c] = b]

-----------------------------------------------------------------------------
(* drainChunk, run by the goroutine of chunk c. *)

\* The context drainChunk was given: the caller's, or the one derived from it.
CtxDone == parentDone \/ chunkDone

Goto(c, l) == cpc' = [cpc EXCEPT ![c] = l]

\* drainChunk returns; every such path releases the batch it holds.
Return(c, err) ==
    /\ Put(cur[c])
    /\ cur' = [cur EXCEPT ![c] = NoBatch]
    /\ cerr' = [cerr EXCEPT ![c] = err]
    /\ Goto(c, IF single \/ err = "nil" THEN "done" ELSE "report")
    /\ UNCHANGED <<made, buf>>

\* batch := bp.get(): on entry, and after each full batch was sent.
Get(c) ==
    /\ cpc[c] = "get"
    /\ GetBatch(c)
    /\ Goto(c, "loop")
    /\ UNCHANGED <<inputs, igVars, at, cerr, errCh, chunkDone, parentDone, skipVars>>

\* The check of ctx.Done() at the top of the loop.
SeeDone(c) ==
    /\ cpc[c] = "loop"
    /\ CtxDone
    /\ Return(c, "canceled")
    /\ UNCHANGED <<inputs, igVars, at, errCh, chunkDone, parentDone, skipVars>>

\* rowEOF: an empty batch is released, a partial one is still sent.
AtEOF(c) ==
    /\ cpc[c] = "loop" /\ ~CtxDone
    /\ at[c] = Len(lines[c])
    /\ \/ /\ buf[cur[c]] = <<>>
          /\ Return(c, "nil")
       \/ /\ buf[cur[c]] # <<>>
          /\ Goto(c, "sendLast")
          /\ UNCHANGED <<cur, cerr, poolVars>>
    /\ UNCHANGED <<inputs, igVars, at, errCh, chunkDone, parentDone, skipVars>>

\* The next line, when there is one and the loop goes on.
Reading(c, kind) ==
    /\ cpc[c] = "loop" /\ ~CtxDone
    /\ at[c] < Len(lines[c])
    /\ lines[c][at[c] + 1] = kind
    /\ at' = [at EXCEPT ![c] = @ + 1]

\* rowOK: the row joins the batch, which is sent once it is full.
ReadGood(c) ==
    /\ Reading(c, "good")
    /\ LET b == cur[c] IN
          /\ buf' = [buf EXCEPT ![b] = Append(@, <<c, at'[c]>>)]
          /\ Goto(c, IF Len(buf[b]) + 1 >= BatchSize THEN "send" ELSE "loop")
    /\ UNCHANGED <<inputs, igVars, cur, cerr, errCh, chunkDone, parentDone,
                   pool, made, skipVars>>

\* A row that does not parse, under ErrorPolicySkip: OnSkippedRow runs
\* skipped++, a load and a store with no lock around them.
SkipLoad(c) ==
    /\ policy = "skip"
    /\ Reading(c, "bad")
    /\ tmp' = [tmp EXCEPT ![c] = skipped]
    /\ Goto(c, "store")
    /\ UNCHANGED <<inputs, igVars, cur, cerr, errCh, chunkDone, parentDone,
                   poolVars, skipped>>

SkipStore(c) ==
    /\ cpc[c] = "store"
    /\ skipped' = tmp[c] + 1
    /\ Goto(c, "loop")
    /\ UNCHANGED <<inputs, igVars, cur, at, cerr, errCh, chunkDone, parentDone,
                   poolVars, tmp>>

\* Mutated form: a bad row ends the run whatever the policy.
ReadFailsAlways(c) ==
    /\ \E kind \in {"bad", "io"} : Reading(c, kind) /\ Return(c, kind)
    /\ UNCHANGED <<inputs, igVars, errCh, chunkDone, parentDone, skipVars>>

\* Reading failed, or a row did not parse under ErrorPolicyFail.
ReadFails(c) ==
    /\ \E kind \in {"bad", "io"} :
          /\ kind = "bad" => policy = "fail"
          /\ Reading(c, kind)
          /\ Return(c, kind)
    /\ UNCHANGED <<inputs, igVars, errCh, chunkDone, parentDone, skipVars>>

\* The send's select, when a consumer receives.  The consumer's half is in
\* RunLocal and RunShard.
SendBatch(c) ==
    /\ cpc[c] \in {"send", "sendLast"}
    /\ cur' = [cur EXCEPT ![c] = NoBatch]
    /\ Goto(c, IF cpc[c] = "send" THEN "get" ELSE "done")
    /\ UNCHANGED <<inputs, igVars, at, cerr, errCh, chunkDone, parentDone,
                   poolVars, skipVars>>

\* The send's select, when the context is done.
SendAborted(c) ==
    /\ cpc[c] \in {"send", "sendLast"}
    /\ CtxDone
    /\ Return(c, "canceled")
    /\ UNCHANGED <<inputs, igVars, at, errCh, chunkDone, parentDone, skipVars>>

\* Mutated form: the goroutine reports its error twice.
ReportTwice(c) ==
    /\ cpc[c] = "report"
    /\ errCh' = errCh \o <<cerr[c], cerr[c]>>
    /\ Goto(c, "cancel")
    /\ UNCHANGED <<inputs, igVars, cur, at, cerr, chunkDone, parentDone,
                   poolVars, skipVars>>

\* runChunks' goroutine: errCh <- err, then cancel().
Report(c) ==
    /\ cpc[c] = "report"
    /\ errCh' = Append(errCh, cerr[c])
    /\ Goto(c, "cancel")
    /\ UNCHANGED <<inputs, igVars, cur, at, cerr, chunkDone, parentDone,
                   poolVars, skipVars>>

Cancel(c) ==
    /\ cpc[c] = "cancel"
    /\ chunkDone' = TRUE
    /\ Goto(c, "done")
    /\ UNCHANGED <<inputs, igVars, cur, at, cerr, errCh, parentDone,
                   poolVars, skipVars>>

Chunk(c) ==
    \/ Get(c) \/ SeeDone(c) \/ AtEOF(c) \/ ReadGood(c) \/ SkipLoad(c) \/ SkipStore(c)
    \/ ReadFails(c) \/ SendAborted(c) \/ Report(c) \/ Cancel(c)

-----------------------------------------------------------------------------
(* The goroutine started by Ingest. *)

\* resolveSchema, PlanChunks and AlignChunks succeed: the draining starts.
Begin ==
    /\ igpc = "setup"
    /\ igpc' = "wait"
    /\ cpc' = [c \in Ch |-> IF c \in Active THEN "get" ELSE "done"]
    /\ UNCHANGED <<inputs, ret, errs, errsClosed, batchesClosed, cur, at, cerr,
                   errCh, chunkDone, parentDone, poolVars, skipVars>>

\* The schema cannot be inferred, or the chunks cannot be aligned.
SetupFails ==
    /\ igpc = "setup"
    /\ ret' = "setup"
    /\ igpc' = "return"
    /\ UNCHANGED <<inputs, errs, errsClosed, batchesClosed, cpc, cur, at, cerr,
                   errCh, chunkDone, parentDone, poolVars, skipVars>>

\* What runChunks returns for the errors s of its goroutines: the first that is
\* not a consequence of a cancellation, or none.
FirstCause(e, s) ==
    IF \A i \in DOMAIN s : s[i] = "canceled"
    THEN e = "nil"
    ELSE \E i \in DOMAIN s :
            /\ e = s[i] /\ e # "canceled"
            /\ \A j \in 1..(i - 1) : s[j] = "canceled"

\* What ingest() returns.
Returned(e) == IF single THEN e = cerr[1] ELSE FirstCause(e, errCh)

\* Mutated forms of Collect: runChunks returns while goroutines are running;
\* runSingle drops a cancellation as runChunks does.
CollectEarly ==
    /\ igpc = "wait"
    /\ \E c \in Ch : cpc[c] = "done"
    /\ ret' \in Errors /\ Returned(ret')
    /\ igpc' = "return"
    /\ chunkDone' = ~single
    /\ UNCHANGED <<inputs, errs, errsClosed, batchesClosed, cpc, cur, at, cerr,
                   errCh, parentDone, poolVars, skipVars>>

CollectCauses ==
    /\ igpc = "wait"
    /\ \A c \in Ch : cpc[c] = "done"
    /\ ret' \in Errors /\ FirstCause(ret', IF ~single THEN errCh
                                     ELSE IF cerr[1] = "nil" THEN <<>> ELSE <<cerr[1]>>)
    /\ igpc' = "return"
    /\ chunkDone' = ~single
    /\ UNCHANGED <<inputs, errs, errsClosed, batchesClosed, cpc, cur, at, cerr,
                   errCh, parentDone, poolVars, skipVars>>

\* runSingle returns what drainChunk returned; runChunks waits for its
\* goroutines, picks the error to return, and cancels its context on the way
\* out.
Collect ==
    /\ igpc = "wait"
    /\ \A c \in Ch : cpc[c] = "done"
    /\ ret' \in Errors /\ Returned(ret')
    /\ igpc' = "return"
    /\ chunkDone' = ~single
    /\ UNCHANGED <<inputs, errs, errsClosed, batchesClosed, cpc, cur, at, cerr,
                   errCh, parentDone, poolVars, skipVars>>

\* errs <- err into the buffer of one, then the deferred close(errs) ...
CloseErrs ==
    /\ igpc = "return"
    /\ errs' = IF ret = "nil" THEN <<>> ELSE <<ret>>
    /\ errsClosed' = TRUE
    /\ igpc' = "close"
    /\ UNCHANGED <<inputs, ret, batchesClosed, cpc, cur, at, cerr, errCh,
                   chunkDone, parentDone, poolVars, skipVars>>

\* ... and close(batches).
CloseBatches ==
    /\ igpc = "close"
    /\ batchesClosed' = TRUE
    /\ igpc' = "done"
    /\ UNCHANGED <<inputs, ret, errs, errsClosed, cpc, cur, at, cerr, errCh,
                   chunkDone, parentDone, poolVars, skipVars>>

IngestGoroutine == Begin \/ SetupFails \/ Collect \/ CloseErrs \/ CloseBatches

-----------------------------------------------------------------------------
(* What the lines call for, whoever consumes them. *)

LinesAre(kind) == {r \in Row : r[2] <= Len(lines[r[1]]) /\ lines[r[1]][r[2]] = kind}

\* A run over these lines may return a result.
Answerable == LinesAre("io") = {} /\ (policy = "fail" => LinesAre("bad") = {})

IngestTypeOK ==
    /\ lines \in [Ch -> Lines]
    /\ policy \in {"skip", "fail"}
    /\ single \in BOOLEAN
    /\ igpc \in {"setup", "wait", "return", "close", "done"}
    /\ ret \in Errors
    /\ cpc \in [Ch -> {"idle", "get", "loop", "store", "send", "sendLast",
                       "report", "cancel", "done"}]
    /\ cur \in [Ch -> Batch \cup {NoBatch}]
    /\ at \in [Ch -> 0..MaxLines]
    /\ cerr \in [Ch -> {"nil", "bad", "io", "canceled"}]
    /\ errCh \in Seq({"bad", "io", "canceled"})
    /\ Len(errCh) <= NChunks
    /\ chunkDone \in BOOLEAN /\ parentDone \in BOOLEAN
    /\ errs \in Seq({"setup", "bad", "io", "canceled"}) /\ Len(errs) <= 1
    /\ errsClosed \in BOOLEAN /\ batchesClosed \in BOOLEAN
    /\ pool \in [Batch -> Nat]
    /\ made \subseteq Batch
    /\ buf \in [Batch -> Seq(Row)]
    /\ skipped \in Nat
    /\ tmp \in [Ch -> Nat]
=============================================================================
