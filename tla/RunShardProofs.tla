--------------------------- MODULE RunShardProofs ---------------------------
(* Proofs about RunShard, for any number of lines and batches.               *)
EXTENDS RunShard, IngestProofs

\* The rows folded into the accumulator, and those the handler has received.
Folded == {r \in Row : agg[r] = 1}
Taken == Folded \cup (IF hpc = "add" THEN Range(buf[hcur]) ELSE {})

\* The rows dropped so far by chunk c's goroutine, or about to be.
BadRows(c) == {r \in Row : r[1] = c /\ r[2] <= at[c] /\ lines[c][r[2]] = "bad"}

-----------------------------------------------------------------------------
(* The inductive invariant. *)

\* The handler's batch is its own.
HandlerOwns ==
    /\ hpc = "add" <=> hcur # NoBatch
    /\ hcur # NoBatch => /\ hcur \in made /\ pool[hcur] = 0 /\ IsInjective(buf[hcur])
                         /\ \A c \in Ch : cur[c] # hcur

\* Where the handler is, seen from the goroutine that reads.
Stages ==
    /\ single
    /\ reply = "none" <=> hpc \in {"decode", "recv", "add", "errs"}
    /\ hpc \in {"recv", "add", "errs"} => started
    /\ ~started => igpc = "setup"
    /\ closed => reply # "none"
    /\ reply = "none" => errs = IF errsClosed /\ ret # "nil" THEN <<ret>> ELSE <<>>

\* Until the handler has its reply, every good row that was read is in one place:
\* with the goroutine or with the handler.
Flow ==
    reply = "none" =>
        /\ agg \in [Row -> 0..1]
        /\ \A r \in Taken : r \in ReadRows(r[1])
        /\ hpc = "add" => Folded \cap Range(buf[hcur]) = {}
        /\ \A c \in Ch : Taken \cap OwnRows(c) = {}
        /\ \A c \in Ch : cerr[c] = "nil" => ReadRows(c) \subseteq OwnRows(c) \cup Taken
        /\ rowCount = Cardinality(Folded)

\* The skipped count misses at most the row that is being skipped: with one
\* goroutine there is no race for it.
Skips ==
    /\ cpc[1] = "store" => tmp[1] = skipped
    /\ cerr[1] = "nil" => Cardinality(BadRows(1)) = skipped + IF cpc[1] = "store" THEN 1 ELSE 0

\* What the caller was told.
Replied ==
    /\ reply = "canceled" => parentDone
    /\ ReplyComplete

IInv == TypeOK /\ IngestInv /\ HandlerOwns /\ Stages /\ Flow /\ Skips /\ Replied

-----------------------------------------------------------------------------
(* Every step preserves it. *)

\* What the definitions that abbreviate groups of variables stand for.
USE DEF inputs, igVars, poolVars, skipVars, ingestVars, handlerVars, vars, ingestRest

\* Nothing changes what an earlier reply said.
LEMMA RepliedKept ==
    ASSUME Replied, UNCHANGED <<inputs, answer>>, parentDone => parentDone',
           reply' = reply \/ reply' \notin {"ok", "canceled"}
    PROVE  Replied'
BY DEF Replied, ReplyComplete, Answerable, LinesAre

\* The handler's rows stay where they are.
LEMMA FlowKept ==
    ASSUME HandlerOwns, Flow, UNCHANGED <<agg, rowCount, hcur>>,
           \A c \in Ch : /\ ReadRows(c)' = ReadRows(c) /\ OwnRows(c)' = OwnRows(c)
                         /\ cerr'[c] = cerr[c],
           hpc' = "add" <=> hpc = "add", hcur # NoBatch => buf'[hcur] = buf[hcur],
           reply = "none" \/ reply' # "none"
    PROVE  Flow'
<1>1. Folded' = Folded /\ Taken' = Taken
  BY DEF Folded, Taken, HandlerOwns
<1>2. reply = "none" => \A r \in Taken : r[1] \in Ch
  BY DEF Flow, Taken, Folded, ReadRows, Row
<1> QED BY <1>1, <1>2 DEF Flow, HandlerOwns

\* The goroutine's count of skipped rows stays as it is.
LEMMA SkipsKept ==
    ASSUME Skips, UNCHANGED <<lines, at, skipped, tmp>>,
           cpc'[1] = "store" <=> cpc[1] = "store", cerr'[1] = "nil" => cerr[1] = "nil"
    PROVE  Skips'
BY DEF Skips, BadRows

-----------------------------------------------------------------------------
(* The handler. *)

\* The steps that only move the handler on.
LEMMA MovesInv ==
    ASSUME IInv, Refuse \/ Accept \/ RangeEnds \/ CloseFile \/ UNCHANGED vars
    PROVE  IInv'
<1>1. UNCHANGED <<ingestVars, addOK, hcur, agg, rowCount, answer>>
  BY DEF Refuse, Accept, RangeEnds, CloseFile
<1>2. IngestInv' /\ \A c \in Ch : ReadRows(c)' = ReadRows(c) /\ OwnRows(c)' = OwnRows(c)
  BY <1>1, IngestStutter DEF IInv
<1>3. TypeOK'
  BY <1>1, <1>2, ZenonT(30) DEF IInv, TypeOK, IngestInv, Refuse, Accept, RangeEnds, CloseFile
<1>4. HandlerOwns' /\ Stages' /\ Skips'
  <2>1. HandlerOwns'
    BY <1>1 DEF IInv, HandlerOwns, Refuse, Accept, RangeEnds, CloseFile
  <2>2. Stages'
    BY <1>1 DEF IInv, Stages, Refuse, Accept, RangeEnds, CloseFile
  <2> QED BY <1>1, <2>1, <2>2, SkipsKept DEF IInv
<1>5. Flow' /\ Replied'
  <2>1. /\ hpc' = "add" <=> hpc = "add"
        /\ reply' = reply \/ reply' = "refused"
        /\ reply = "none" \/ reply' # "none"
    BY DEF IInv, Stages, Refuse, Accept, RangeEnds, CloseFile
  <2> QED BY <1>1, <1>2, <2>1, FlowKept, RepliedKept DEF IInv
<1> QED BY <1>2, <1>3, <1>4, <1>5 DEF IInv

\* A batch goes from the goroutine to the handler, with its rows.
LEMMA ReceiveInv == ASSUME IInv, NEW c \in Ch, Receive(c) PROVE IInv'
<1> DEFINE b == cur[c]
<1>1. /\ hpc = "recv" /\ SendBatch(c) /\ hcur' = b /\ hpc' = "add" /\ cpc[c] \in Holding
      /\ UNCHANGED <<addOK, started, closed, agg, rowCount, reply, answer>>
      /\ UNCHANGED <<inputs, igVars, at, cerr, errCh, chunkDone, parentDone, poolVars, skipVars>>
  BY DEF Receive, SendBatch, Holding
<1>2. \A d \in Ch : /\ cur'[d] = IF d = c THEN NoBatch ELSE cur[d]
                    /\ cpc'[d] \in Holding <=> d # c /\ cpc[d] \in Holding
                    /\ cpc'[d] = "store" <=> cpc[d] = "store"
  BY <1>1 DEF SendBatch, Goto, Holding, IInv, TypeOK, IngestTypeOK
<1>3. b \in Batch /\ b # NoBatch /\ b \in made /\ pool[b] = 0 /\ \A d \in Ch \ {c} : cur[d] # b
  BY <1>1, IngestAssumption DEF IInv, TypeOK, IngestTypeOK, IngestInv, Control, Owned
<1>4. IngestInv'
  BY <1>1, SendBatchInv DEF IInv
<1>5. TypeOK'
  BY <1>1, <1>3, <1>4 DEF IInv, TypeOK, IngestInv
<1>6. HandlerOwns'
  BY <1>1, <1>2, <1>3 DEF IInv, HandlerOwns, IngestInv, Progress
<1>7. Stages' /\ Skips' /\ Replied'
  <2>1. 1 \in Ch
    BY IngestAssumption DEF Ch
  <2> QED BY <1>1, <1>2, <2>1, SkipsKept, RepliedKept DEF IInv, Stages
<1>8. Flow'
  <2>1. /\ \A d \in Ch : ReadRows(d)' = ReadRows(d) /\ (d # c => OwnRows(d)' = OwnRows(d))
        /\ OwnRows(c) = Range(buf[b]) /\ OwnRows(c)' = {}
    BY <1>1, <1>2 DEF ReadRows, OwnRows
  <2>2. Folded' = Folded /\ Taken = Folded /\ Taken' = Folded \cup Range(buf[b])
    BY <1>1 DEF Folded, Taken
  <2>3. \A d \in Ch : OwnRows(d) \subseteq ReadRows(d) /\ \A r \in ReadRows(d) : r[1] = d
    BY DEF IInv, IngestInv, Progress, OwnRows, ReadRows
  <2>4. reply = "none" /\ Flow /\ \A r \in Taken : r \in ReadRows(r[1]) /\ r[1] \in Ch
    BY <1>1 DEF IInv, Stages, Flow, ReadRows, Row
  <2>5. \A r \in Taken' : r \in ReadRows(r[1])'
    BY <2>1, <2>2, <2>3, <2>4
  <2>6. Folded' \cap Range(buf'[hcur']) = {} /\ \A d \in Ch : Taken' \cap OwnRows(d)' = {}
    BY <1>1, <2>1, <2>2, <2>3, <2>4 DEF Flow
  <2>7. \A d \in Ch : cerr'[d] = "nil" => ReadRows(d)' \subseteq OwnRows(d)' \cup Taken'
    BY <1>1, <2>1, <2>2, <2>4 DEF Flow
  <2> QED BY <1>1, <2>2, <2>4, <2>5, <2>6, <2>7 DEF Flow
<1> QED BY <1>4, <1>5, <1>6, <1>7, <1>8 DEF IInv

\* The handler folds its batch in, counts its rows and gives it back.
LEMMA AddInv == ASSUME IInv, Add PROVE IInv'
<1> DEFINE s == buf[hcur]
<1>1. /\ hpc = "add" /\ hpc' = "recv" /\ hcur' = NoBatch /\ reply = "none"
      /\ rowCount' = rowCount + Len(s)
      /\ UNCHANGED <<ingestRest, parentDone, made, buf, addOK, started, closed, reply, answer>>
  BY DEF Add, IInv, Stages
<1>2. hcur \in Batch /\ hcur \in made /\ pool[hcur] = 0 /\ \A c \in Ch : cur[c] # hcur
  BY <1>1 DEF IInv, TypeOK, HandlerOwns
<1>3. s \in Seq(Row) /\ Len(s) \in Nat /\ IsInjective(s)
  BY <1>1, <1>2 DEF IInv, TypeOK, IngestTypeOK, HandlerOwns
<1>4. pool' = [pool EXCEPT ![hcur] = 1]
  BY <1>2 DEF Add, Put, IInv, TypeOK, IngestTypeOK
<1>5. IngestInv' /\ \A c \in Ch : ReadRows(c)' = ReadRows(c) /\ OwnRows(c)' = OwnRows(c)
  <2>1. IngestInv'
    BY <1>1, <1>2, <1>4, ConsumerInv DEF IInv, IngestInv, IngestTypeOK
  <2> QED BY <1>1, <2>1 DEF ReadRows, OwnRows
<1>6. /\ agg \in [Row -> 0..1] /\ Folded \cap Range(s) = {} /\ Range(s) \subseteq Row
      /\ rowCount = Cardinality(Folded)
  BY <1>1, <1>3 DEF IInv, Flow, Range
<1>7. agg' = [r \in Row |-> agg[r] + IF r \in Range(s) THEN 1 ELSE 0]
  BY <1>3, RowsCounted DEF Add
<1>8. agg' \in [Row -> 0..1] /\ agg' \in [Row -> Nat] /\ Folded' = Folded \cup Range(s)
  <2>1. \A r \in Row : r \in Range(s) => agg[r] = 0
    BY <1>6 DEF Folded
  <2> QED BY <1>6, <1>7, <2>1 DEF Folded
<1>9. rowCount' = Cardinality(Folded')
  <2>1. Folded \in SUBSET Row
    BY DEF Folded
  <2>2. IsFiniteSet(Folded) /\ IsFiniteSet(Range(s)) /\ Cardinality(Range(s)) = Len(s)
    BY <1>3, <2>1, RowFinite, RowsCounted, FS_Subset
  <2>3. Cardinality(Folded \cap Range(s)) = 0
    BY <1>6, FS_EmptySet
  <2>4. Cardinality(Folded \cup Range(s)) =
           Cardinality(Folded) + Cardinality(Range(s)) - Cardinality(Folded \cap Range(s))
    BY <2>2, FS_Union
  <2>5. Cardinality(Folded) \in Nat
    BY <2>2, FS_CardinalityType
  <2> QED BY <1>1, <1>3, <1>6, <1>8, <2>2, <2>3, <2>4, <2>5
<1>10. TypeOK'
  <2>1. rowCount' \in Nat
    BY <1>1, <1>3 DEF IInv, TypeOK
  <2> QED BY <1>1, <1>5, <1>8, <2>1 DEF IInv, TypeOK, IngestInv
<1>11. HandlerOwns' /\ Stages' /\ Skips' /\ Replied'
  BY <1>1, SkipsKept, RepliedKept DEF IInv, HandlerOwns, Stages
<1>12. Flow'
  <2>1. Taken' = Taken
    BY <1>1, <1>8 DEF Taken
  <2>2. \A r \in Taken : r \in ReadRows(r[1]) /\ r[1] \in Ch
    BY <1>1 DEF IInv, Flow, ReadRows, Row
  <2> QED BY <1>1, <1>5, <1>8, <1>9, <2>1, <2>2 DEF IInv, Flow
<1> QED BY <1>5, <1>10, <1>11, <1>12 DEF IInv

\* The batch is refused: it goes back and the handler returns.
LEMMA AddFailsInv == ASSUME IInv, AddFails PROVE IInv'
<1>1. /\ hpc = "add" /\ hpc' = "close" /\ hcur' = NoBatch /\ reply' = "aggregate"
      /\ UNCHANGED <<ingestRest, parentDone, made, buf, addOK, started, closed, agg, rowCount,
                     answer>>
  BY DEF AddFails
<1>2. hcur \in Batch /\ hcur \in made /\ pool[hcur] = 0 /\ \A c \in Ch : cur[c] # hcur
  BY <1>1 DEF IInv, TypeOK, HandlerOwns
<1>3. pool' = [pool EXCEPT ![hcur] = 1]
  BY <1>2 DEF AddFails, Put, IInv, TypeOK, IngestTypeOK
<1>4. IngestInv'
  BY <1>1, <1>2, <1>3, ConsumerInv DEF IInv, IngestInv, IngestTypeOK
<1>5. TypeOK'
  BY <1>1, <1>4 DEF IInv, TypeOK, IngestInv
<1>6. HandlerOwns' /\ Stages' /\ Skips' /\ Replied'
  BY <1>1, SkipsKept, RepliedKept DEF IInv, HandlerOwns, Stages
<1>7. Flow'
  BY <1>1 DEF Flow
<1> QED BY <1>4, <1>5, <1>6, <1>7 DEF IInv

\* What the goroutine has read when ingest() returned without an error: all of
\* the lines.
LEMMA AllRead ==
    ASSUME IInv, errsClosed, ret = "nil"
    PROVE  /\ Answerable
           /\ LinesAre("good") = ReadRows(1) /\ OwnRows(1) = {}
           /\ Cardinality(LinesAre("bad")) = skipped
<1>1. /\ 1 \in Ch /\ \A c \in Ch : cpc[c] = "done" /\ cerr[c] = "nil"
      /\ \A c \in Ch \ {1} : lines[c] = <<>>
  BY IngestAssumption DEF IInv, Stages, IngestInv, IngestTypeOK, Control, Outcome, Active, Ch
<1>2. \A c \in Ch : at[c] = Len(lines[c]) /\ Len(lines[c]) \in Nat
  BY <1>1, LinesType DEF IInv, IngestInv, IngestTypeOK, Progress
<1>3. \A r \in Row : /\ r[1] \in Ch /\ r[2] \in Nat /\ r[2] >= 1
                     /\ r[2] <= Len(lines[r[1]]) => r[1] = 1 /\ r[2] \in 1..at[1]
  BY <1>1, <1>2, IngestAssumption DEF Row
<1>4. \A kind \in Kind : LinesAre(kind) = {r \in Row : r[1] = 1 /\ r[2] <= at[1] /\ lines[1][r[2]] = kind}
  BY <1>1, <1>2, <1>3 DEF LinesAre
<1>5. LinesAre("good") = ReadRows(1) /\ LinesAre("bad") = BadRows(1) /\ OwnRows(1) = {}
  BY <1>1, <1>4 DEF ReadRows, BadRows, OwnRows, Kind, Holding
<1>6. Answerable
  BY <1>1, <1>3, <1>4 DEF Answerable, Kind, IInv, IngestInv, Progress
<1>7. Cardinality(LinesAre("bad")) = skipped
  BY <1>1, <1>5 DEF IInv, Skips, TypeOK, IngestTypeOK
<1> QED BY <1>5, <1>6, <1>7

\* The handler answers with what it folded, if Ingest had no error.
LEMMA FinishInv == ASSUME IInv, Finish PROVE IInv'
<1>1. /\ hpc = "errs" /\ reply = "none" /\ errsClosed /\ errs' = <<>> /\ hpc' = "close"
      /\ errs = (IF ret # "nil" THEN <<ret>> ELSE <<>>)
      /\ igpc \in {"close", "done"} /\ ret \in Errors
      /\ UNCHANGED <<inputs, igpc, ret, errsClosed, batchesClosed, cpc, cur, at, cerr, errCh,
                     chunkDone, parentDone, poolVars, skipVars, addOK, started, closed, hcur,
                     agg, rowCount>>
  BY DEF Finish, IInv, Stages, IngestInv, Control, IngestTypeOK
<1>2. \/ ret # "nil" /\ reply' = ret /\ UNCHANGED answer
      \/ ret = "nil" /\ reply' = "ok" /\ answer' = <<agg, rowCount, skipped>>
      \/ ret = "nil" /\ reply' = "convert" /\ UNCHANGED answer
  BY <1>1 DEF Finish, Errors
<1>3. IngestInv'
  BY <1>1, ConsumerInv DEF IInv, IngestInv, IngestTypeOK
<1>4. TypeOK'
  BY <1>1, <1>2, <1>3 DEF IInv, TypeOK, IngestInv, Errors
<1>5. reply' # "none"
  BY <1>1, <1>2 DEF Errors
<1>6. HandlerOwns' /\ Skips' /\ Flow'
  BY <1>1, <1>5, SkipsKept DEF IInv, HandlerOwns, Flow
<1>7. Stages'
  BY <1>1, <1>5 DEF IInv, Stages
<1>8. Replied'
  <2>1. ASSUME ret = "nil"
        PROVE  /\ Answerable
               /\ agg = [r \in Row |-> IF r \in LinesAre("good") THEN 1 ELSE 0]
               /\ rowCount = Cardinality(LinesAre("good"))
               /\ skipped = Cardinality(LinesAre("bad"))
    <3>1. /\ Answerable /\ LinesAre("good") = ReadRows(1) /\ OwnRows(1) = {}
          /\ Cardinality(LinesAre("bad")) = skipped
      BY <1>1, <2>1, AllRead
    <3>2. Flow /\ Taken = Folded /\ 1 \in Ch /\ cerr[1] = "nil"
      BY <1>1, <2>1, IngestAssumption DEF IInv, Taken, IngestInv, Outcome, Stages, Ch
    <3>3. Folded = LinesAre("good")
      <4>1. ReadRows(1) \subseteq Folded
        BY <1>1, <3>1, <3>2 DEF Flow
      <4>2. \A r \in Folded : r \in ReadRows(r[1]) /\ r[1] \in Ch
        BY <1>1, <3>2 DEF Flow, ReadRows, Row
      <4>3. \A c \in Ch \ {1} : ReadRows(c) = {}
        <5>1. \A c \in Ch \ {1} : at[c] \in Nat /\ at[c] <= 0
          BY DEF IInv, Stages, IngestInv, IngestTypeOK, Control, Progress, Active
        <5> QED BY <5>1, IngestAssumption DEF ReadRows, Row
      <4> QED BY <3>1, <4>1, <4>2, <4>3
    <3>4. agg = [r \in Row |-> IF r \in LinesAre("good") THEN 1 ELSE 0]
      <4>1. agg \in [Row -> 0..1]
        BY <1>1, <3>2 DEF Flow
      <4>2. \A r \in Row : agg[r] = IF r \in LinesAre("good") THEN 1 ELSE 0
        BY <3>3, <4>1 DEF Folded
      <4> QED BY <4>1, <4>2
    <3>5. rowCount = Cardinality(LinesAre("good"))
      BY <1>1, <3>2, <3>3 DEF Flow
    <3> QED BY <3>1, <3>4, <3>5
  <2>2. UNCHANGED <<Answerable, LinesAre("good"), LinesAre("bad")>>
    BY <1>1 DEF Answerable, LinesAre
  <2>3. ReplyComplete'
    BY <1>1, <1>2, <2>1, <2>2 DEF ReplyComplete, Errors
  <2>4. ret = "canceled" => parentDone
    BY <1>1 DEF IInv, IngestInv, Outcome
  <2> QED BY <1>1, <1>2, <2>3, <2>4 DEF Replied
<1> QED BY <1>3, <1>4, <1>6, <1>7, <1>8 DEF IInv

\* The context is cancelled, by the handler as it returns or by its caller.
LEMMA ContextEndsInv == ASSUME IInv, CancelCtx \/ CallerGone PROVE IInv'
<1>1. /\ parentDone' /\ (hpc' = hpc \/ (hpc = "cancel" /\ hpc' = "end"))
      /\ UNCHANGED <<ingestRest, poolVars, addOK, started, closed, hcur, agg, rowCount, reply,
                     answer>>
  BY DEF CancelCtx, CallerGone
<1>2. IngestInv' /\ \A c \in Ch : ReadRows(c)' = ReadRows(c) /\ OwnRows(c)' = OwnRows(c)
  <2>1. IngestInv'
    BY <1>1, ConsumerInv DEF IInv, IngestInv, IngestTypeOK
  <2> QED BY <1>1, <2>1 DEF ReadRows, OwnRows
<1>3. TypeOK'
  BY <1>1, <1>2 DEF IInv, TypeOK, IngestInv
<1>4. HandlerOwns' /\ Stages' /\ Skips'
  BY <1>1, SkipsKept DEF IInv, HandlerOwns, Stages
<1>5. Flow' /\ Replied'
  BY <1>1, <1>2, FlowKept, RepliedKept DEF IInv
<1> QED BY <1>2, <1>3, <1>4, <1>5 DEF IInv

-----------------------------------------------------------------------------
(* The goroutine that reads. *)

\* It counts each row it skips.
LEMMA ChunkSkips == ASSUME IInv, NEW c \in Ch, Chunk(c) PROVE Skips'
<1>1. c = 1 /\ 1 \in Ch
  BY IngestAssumption DEF IInv, Stages, IngestInv, IngestTypeOK, Control, Active, Ch, Chunk, Get,
     SeeDone, AtEOF, ReadGood, SkipLoad, SkipStore, ReadFails, SendAborted, Report, Cancel, Reading
<1>2. /\ lines[1] \in Seq(Kind) /\ Len(lines[1]) \in 0..MaxLines /\ at[1] \in Nat
      /\ at \in [Ch -> 0..MaxLines]
  BY <1>1, LinesType DEF IInv, TypeOK, IngestTypeOK
<1>3. CASE SkipLoad(c)
  <2> DEFINE r == <<1, at[1] + 1>>
  <2>1. /\ at[1] < Len(lines[1]) /\ lines[1][at[1] + 1] = "bad" /\ at'[1] = at[1] + 1
        /\ cpc[1] = "loop" /\ cpc'[1] = "store" /\ tmp'[1] = skipped
        /\ UNCHANGED <<lines, skipped, cerr>>
    BY <1>1, <1>3 DEF SkipLoad, Reading, Goto, IInv, TypeOK, IngestTypeOK
  <2>2. r \in Row /\ r \notin BadRows(1) /\ BadRows(1)' = BadRows(1) \cup {r}
    BY <1>1, <1>2, <2>1, IngestAssumption DEF BadRows, Row
  <2>3. BadRows(1) \in SUBSET Row
    BY DEF BadRows
  <2>4. Cardinality(BadRows(1)') = Cardinality(BadRows(1)) + 1
    BY <2>2, <2>3, RowFinite, FS_Subset, FS_AddElement
  <2> QED BY <2>1, <2>4 DEF IInv, Skips, TypeOK, IngestTypeOK
<1>4. CASE SkipStore(c)
  <2>1. /\ cpc[1] = "store" /\ cpc'[1] = "loop" /\ skipped' = tmp[1] + 1
        /\ UNCHANGED <<lines, at, cerr>>
    BY <1>1, <1>4 DEF SkipStore, Goto, IInv, TypeOK, IngestTypeOK
  <2>2. BadRows(1)' = BadRows(1)
    BY <2>1 DEF BadRows
  <2> QED BY <2>1, <2>2 DEF IInv, Skips, TypeOK, IngestTypeOK
<1>5. CASE ReadGood(c)
  <2>1. /\ at[1] < Len(lines[1]) /\ lines[1][at[1] + 1] = "good" /\ at'[1] = at[1] + 1
        /\ cpc[1] = "loop" /\ cpc'[1] # "store" /\ UNCHANGED <<lines, skipped, tmp, cerr>>
    BY <1>1, <1>5 DEF ReadGood, Reading, Goto, IInv, TypeOK, IngestTypeOK
  <2>2. BadRows(1)' = BadRows(1)
    BY <1>2, <2>1 DEF BadRows, Row
  <2> QED BY <2>1, <2>2 DEF IInv, Skips
<1>6. CASE ReadFails(c)
  <2>1. cerr'[1] # "nil" /\ cpc'[1] # "store"
    BY <1>1, <1>6 DEF ReadFails, Return, Goto, IInv, TypeOK, IngestTypeOK
  <2> QED BY <2>1 DEF Skips
<1>7. CASE Get(c) \/ SeeDone(c) \/ AtEOF(c) \/ SendAborted(c) \/ Report(c) \/ Cancel(c)
  <2>1. /\ UNCHANGED <<lines, at, skipped, tmp>> /\ cpc[1] # "store" /\ cpc'[1] # "store"
        /\ cerr'[1] = "nil" => cerr[1] = "nil"
    <3>1. cerr[1] # "nil" => cpc[1] \in {"report", "cancel"}
      BY <1>1, <1>7 DEF IInv, IngestInv, Errs, Get, SeeDone, AtEOF, SendAborted, Report, Cancel
    <3> QED BY <1>1, <1>7, <3>1 DEF Get, SeeDone, AtEOF, SendAborted, Report, Cancel, Return, Goto,
               IInv, TypeOK, IngestTypeOK
  <2> QED BY <2>1, SkipsKept DEF IInv
<1> QED BY <1>3, <1>4, <1>5, <1>6, <1>7 DEF Chunk

\* A step of the reading goroutine preserves the invariant.
LEMMA ChunkStepInv ==
    ASSUME IInv, NEW c \in Ch, Chunk(c), started, UNCHANGED handlerVars PROVE IInv'
<1>1. /\ UNCHANGED <<inputs, igVars, parentDone>> /\ igpc = "wait" /\ made \subseteq made'
      /\ \A b \in made : pool[b] = 0 /\ (\A d \in Ch : cur[d] # b) =>
            buf'[b] = buf[b] /\ pool'[b] = 0 /\ \A d \in Ch : cur'[d] # b
  BY ChunkBatches DEF IInv
<1>2. IngestInv'
  BY ChunkInv DEF IInv
<1>3. TypeOK'
  BY <1>2 DEF IInv, TypeOK, IngestInv
<1>4. HandlerOwns' /\ Stages' /\ (hcur # NoBatch => buf'[hcur] = buf[hcur])
  BY <1>1 DEF IInv, HandlerOwns, Stages
<1>5. Skips' /\ Replied'
  BY <1>1, ChunkSkips, RepliedKept DEF IInv
<1>6. Flow'
  <2>1. Folded' = Folded /\ Taken' = Taken
    BY <1>4 DEF Folded, Taken, IInv, HandlerOwns
  <2>2. /\ \A d \in Ch \ {c} : /\ ReadRows(d)' = ReadRows(d) /\ OwnRows(d)' = OwnRows(d)
                               /\ cerr'[d] = cerr[d]
        /\ ReadRows(c) \subseteq ReadRows(c)'
        /\ OwnRows(c)' \subseteq OwnRows(c) \cup (ReadRows(c)' \ ReadRows(c))
        /\ cerr'[c] = "nil" => /\ cerr[c] = "nil"
                               /\ OwnRows(c) \cup (ReadRows(c)' \ ReadRows(c)) \subseteq OwnRows(c)'
    BY RowsKept, ChunkRows DEF IInv
  <2> SUFFICES ASSUME reply = "none"
               PROVE  /\ \A r \in Taken : r \in ReadRows(r[1])'
                      /\ \A d \in Ch : Taken \cap OwnRows(d)' = {}
                      /\ \A d \in Ch : cerr'[d] = "nil" => ReadRows(d)' \subseteq OwnRows(d)' \cup Taken
    BY <1>4, <2>1 DEF IInv, Flow, HandlerOwns
  <2>3. \A r \in Taken : r \in ReadRows(r[1]) /\ r[1] \in Ch
    BY DEF IInv, Flow, ReadRows, Row
  <2>4. \A r \in Taken : r \in ReadRows(r[1])'
    BY <2>2, <2>3
  <2>5. Taken \cap (ReadRows(c)' \ ReadRows(c)) = {}
    BY <2>3 DEF ReadRows
  <2>6. \A d \in Ch : Taken \cap OwnRows(d)' = {}
    BY <2>2, <2>5 DEF IInv, Flow
  <2>7. \A d \in Ch : cerr'[d] = "nil" => ReadRows(d)' \subseteq OwnRows(d)' \cup Taken
    BY <2>2 DEF IInv, Flow
  <2> QED BY <2>4, <2>6, <2>7
<1> QED BY <1>2, <1>3, <1>4, <1>5, <1>6 DEF IInv

\* It is the goroutine that outlives the handler that meets the closed file.
LEMMA ReadClosedInv ==
    ASSUME IInv, NEW c \in Ch, ReadClosed(c), UNCHANGED handlerVars PROVE IInv'
<1>1. /\ reply # "none" /\ hcur = NoBatch /\ cpc[c] = "loop" /\ Return(c, "io")
      /\ UNCHANGED <<inputs, igVars, at, errCh, chunkDone, parentDone, skipVars>>
  BY DEF ReadClosed, IInv, Stages, HandlerOwns
<1>2. IngestInv'
  BY <1>1, ReturnInv DEF IInv, Holding
<1>3. TypeOK'
  BY <1>2 DEF IInv, TypeOK, IngestInv
<1>4. started
  BY <1>1 DEF IInv, Stages, IngestInv, Control
<1>5. HandlerOwns' /\ Stages' /\ Flow' /\ Replied'
  BY <1>1, <1>4, RepliedKept DEF IInv, HandlerOwns, Stages, Flow
<1>6. Skips'
  <2>1. cpc' = [cpc EXCEPT ![c] = "done"] /\ cerr' = [cerr EXCEPT ![c] = "io"] /\ 1 \in Ch
    BY <1>1, IngestAssumption DEF Return, Goto, IInv, Stages, Ch
  <2> QED BY <1>1, <2>1, SkipsKept DEF IInv, TypeOK, IngestTypeOK
<1> QED BY <1>2, <1>3, <1>5, <1>6 DEF IInv

\* A step of the goroutine of Ingest preserves it.
LEMMA GoroutineStepInv ==
    ASSUME IInv, started, IngestGoroutine, UNCHANGED handlerVars PROVE IInv'
<1>1. /\ UNCHANGED <<inputs, cur, cerr, poolVars, parentDone, skipVars>>
      /\ \A c \in Ch : ReadRows(c)' = ReadRows(c) /\ OwnRows(c)' = OwnRows(c)
  BY GoroutineRows DEF IInv
<1>2. UNCHANGED at /\ 1 \in Ch /\ (cpc'[1] = "store" <=> cpc[1] = "store")
  BY IngestAssumption DEF IngestGoroutine, Begin, SetupFails, Collect, CloseErrs, CloseBatches,
     IInv, IngestInv, Control, Ch
<1>3. IngestInv'
  BY IngestGoroutineInv DEF IInv
<1>4. TypeOK' /\ HandlerOwns'
  BY <1>1, <1>3 DEF IInv, TypeOK, IngestInv, HandlerOwns
<1>5. Stages'
  BY <1>1 DEF IInv, Stages, IngestGoroutine, Begin, SetupFails, Collect, CloseErrs, CloseBatches,
              IngestInv, Control
<1>6. Flow' /\ Skips' /\ Replied'
  BY <1>1, <1>2, FlowKept, SkipsKept, RepliedKept DEF IInv
<1> QED BY <1>3, <1>4, <1>5, <1>6 DEF IInv

-----------------------------------------------------------------------------
(* What it is good for. *)

\* Nothing has begun.
LEMMA InitInv == Init => IInv
<1> SUFFICES ASSUME Init PROVE IInv
  OBVIOUS
<1>1. IngestInv
  BY IngestInitInv DEF Init
<1>2. TypeOK
  BY <1>1 DEF Init, NoRows, TypeOK, IngestInv
<1>3. HandlerOwns /\ Stages /\ Replied
  BY DEF Init, IngestInit, HandlerOwns, Stages, Replied, ReplyComplete
<1>4. Folded = {} /\ Taken = {} /\ BadRows(1) = {} /\ \A c \in Ch : ReadRows(c) = {}
  BY IngestAssumption DEF Init, IngestInit, NoRows, Folded, Taken, BadRows, ReadRows, Row, Ch
<1>5. Flow
  BY <1>4, FS_EmptySet DEF Init, NoRows, Flow
<1>6. Skips
  <2>1. cpc[1] = "idle" /\ skipped = 0
    BY IngestAssumption DEF Init, IngestInit, Ch
  <2> QED BY <1>4, <2>1, FS_EmptySet DEF Skips
<1> QED BY <1>1, <1>2, <1>3, <1>5, <1>6 DEF IInv

\* The invariant is inductive.
LEMMA StepInv == IInv /\ [Next]_vars => IInv'
<1> SUFFICES ASSUME IInv, [Next]_vars PROVE IInv'
  OBVIOUS
<1>1. CASE Refuse \/ Accept \/ RangeEnds \/ CloseFile \/ UNCHANGED vars
  BY <1>1, MovesInv
<1>2. ASSUME NEW c \in Ch, Receive(c) PROVE IInv'
  BY <1>2, ReceiveInv
<1>3. CASE Add \/ AddFails \/ Finish
  BY <1>3, AddInv, AddFailsInv, FinishInv
<1>4. CASE CancelCtx \/ CallerGone
  BY <1>4, ContextEndsInv
<1>5. CASE Producer /\ UNCHANGED handlerVars
  BY <1>5, ChunkStepInv, ReadClosedInv, GoroutineStepInv DEF Producer
<1> HIDE DEF handlerVars, vars
<1> QED BY <1>1, <1>2, <1>3, <1>4, <1>5 DEF Next, Handler, Ended

\* The invariant holds in every state an RPC can reach.
THEOREM Invariance == Spec => []IInv
BY InitInv, StepInv, PTL DEF Spec

\* Every variable keeps to the values the code gives it.
THEOREM TypeCorrect == Spec => []TypeOK
<1>1. IInv => TypeOK
  BY DEF IInv
<1> QED BY <1>1, Invariance, PTL

\* A ShardResult covers its shard: every good row once, the right row count and,
\* with one goroutine, the right skipped count, however the caller's cancellation
\* and the closing of the file fall between the goroutine's steps.
THEOREM ResultIsComplete == Spec => []ReplyComplete
<1>1. IInv => ReplyComplete
  BY DEF IInv, Replied
<1> QED BY <1>1, Invariance, PTL

\* Only a caller that cancelled is told so: the handler's own cancel() comes too
\* late for its reply.
THEOREM CanceledByCaller == Spec => CanceledIsTheCallers
<1>1. IInv /\ IInv' /\ [Next]_vars => [reply' = "canceled" => parentDone]_vars
  <2> SUFFICES ASSUME IInv, IInv', [Next]_vars, reply' = "canceled" PROVE parentDone
    OBVIOUS
  <2>1. CASE reply = "canceled"
    BY <2>1 DEF IInv, Replied
  <2>2. CASE reply # "canceled"
    <3>1. Finish
      BY <2>2 DEF Next, Handler, Refuse, Accept, Receive, RangeEnds, Add, AddFails, CloseFile,
                  CancelCtx, CallerGone, Ended
    <3> QED BY <3>1 DEF Finish, IInv, Replied
  <2> QED BY <2>1, <2>2
<1> QED BY <1>1, Invariance, PTL DEF Spec, CanceledIsTheCallers

\* The RPC is a Job as far as safety goes: one reply, which is its whole shard or
\* an error, and an error when the lines call for one.
THEOREM ImplementsJob == Spec => AbstractJob!Safety
<1>1. Init => AbstractJob!Init
  BY DEF Init, AbstractJob!Init
<1>2. IInv /\ IInv' /\ [Next]_vars => [AbstractJob!Next]_(AbstractJob!vars)
  <2> SUFFICES ASSUME IInv, IInv', [Next]_vars
               PROVE  [AbstractJob!Next]_(AbstractJob!vars)
    OBVIOUS
  <2>1. UNCHANGED inputs
    <3>1. ASSUME NEW c \in Ch, Chunk(c) PROVE UNCHANGED inputs
      BY <3>1, ChunkBatches DEF IInv
    <3>2. ASSUME NEW c \in Ch, ReadClosed(c) \/ Receive(c) PROVE UNCHANGED inputs
      BY <3>2 DEF ReadClosed, Receive, SendBatch
    <3>3. CASE IngestGoroutine
      BY <3>3, GoroutineRows DEF IInv
    <3>4. CASE Handler
      BY <3>2, <3>4 DEF Handler, Refuse, Accept, RangeEnds, Add, AddFails, Finish, CloseFile, CancelCtx
    <3>5. CASE CallerGone \/ UNCHANGED vars
      BY <3>5 DEF CallerGone
    <3> QED BY <3>1, <3>2, <3>3, <3>4, <3>5 DEF Next, Producer, Ended
  <2>2. UNCHANGED <<Answerable, LinesAre("good"), LinesAre("bad")>>
    BY <2>1 DEF Answerable, LinesAre
  <2>3. reply # "none" => UNCHANGED <<reply, answer>>
    <3> SUFFICES ASSUME reply # "none" PROVE UNCHANGED <<reply, answer>>
      OBVIOUS
    <3>1. hpc \notin {"decode", "recv", "add", "errs"}
      BY DEF IInv, Stages
    <3> QED BY <3>1 DEF Next, Handler, Refuse, Accept, Receive, RangeEnds, Add, AddFails, Finish,
               CloseFile, CancelCtx, CallerGone, Ended
  <2>4. CASE reply # "none"
    BY <2>2, <2>3, <2>4 DEF AbstractJob!vars
  <2>5. CASE reply = "none" /\ reply' = "none"
    BY <2>2, <2>5 DEF AbstractJob!vars
  <2>6. CASE reply = "none" /\ reply' \notin {"none", "ok"}
    BY <2>2, <2>6 DEF AbstractJob!Next, AbstractJob!Reject
  <2>7. CASE reply = "none" /\ reply' = "ok"
    <3>1. ReplyComplete'
      BY DEF IInv, Replied
    <3> QED BY <2>2, <2>7, <3>1 DEF ReplyComplete, AbstractJob!Next, AbstractJob!Answer
  <2> QED BY <2>4, <2>5, <2>6, <2>7
<1> QED BY <1>1, <1>2, Invariance, PTL DEF Spec, AbstractJob!Safety
=============================================================================
