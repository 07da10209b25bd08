----------------------------- MODULE ChunkPlan -----------------------------
(***************************************************************************)
(* How a file is cut into the byte ranges that are read independently:     *)
(* ingest.PlanChunks and ingest.AlignChunks, driven either by ingest()     *)
(* (one goroutine per chunk) or by distribute.PlanShards (one worker       *)
(* process per chunk).                                                     *)
(*                                                                         *)
(* The file is its size and the set of offsets that hold a '\n'; no other  *)
(* byte matters here.  It may grow while the planner runs: the planner     *)
(* asks for the size twice (once to plan, once to align) and probes the    *)
(* file in windows of probeWindow bytes in between.                        *)
(***************************************************************************)
EXTENDS Integers, Sequences, FiniteSets

CONSTANTS
    MaxSize,        \* bound: the file never grows past this many bytes
    ProbeWindow,    \* probeWindow of chunk.go (64 KiB there)
    Wants           \* the chunk counts / worker counts callers ask for

ASSUME ChunkPlanAssumption ==
    /\ MaxSize \in Nat
    /\ ProbeWindow \in Nat \ {0}
    /\ Wants \subseteq Int

VARIABLES
    fsize,      \* current size of the file
    nl,         \* offsets of its newline bytes
    caller,     \* "ingest" or "shards": which function plans
    want,       \* cfg.Chunks, or len(workerAddrs)
    hasHeader,  \* Schema.HasHeader
    pc,
    planned,    \* the size PlanChunks was given
    naive,      \* PlanChunks' result
    size,       \* the size AlignChunks read
    start,      \* AlignChunks' running start offset
    pos,        \* findNextNewline's position
    aligned,    \* the chunks aligned so far
    parts       \* what is handed to the readers: a chunk and its skipHeader

planVars == <<fsize, nl, caller, want, hasHeader, pc, planned, naive, size, start,
          pos, aligned, parts>>

file  == <<fsize, nl>>
input == <<caller, want, hasHeader>>

Chunk == [offset : Int, length : Int]

-----------------------------------------------------------------------------
(* Pure parts of the planner. *)

\* Mutated form: the remainder is dropped.
PlanChunksNoRest(sz, n) ==
    LET m    == IF n < 1 THEN 1 ELSE n
        base == sz \div m
    IN  IF sz <= 0
        THEN <<[offset |-> 0, length |-> 0]>>
        ELSE [k \in 1..m |-> [offset |-> (k - 1) * base, length |-> base]]

\* PlanChunks(size, n): n ranges of size/n bytes, the last one takes the rest.
PlanChunks(sz, n) ==
    LET m    == IF n < 1 THEN 1 ELSE n
        base == sz \div m
    IN  IF sz <= 0
        THEN <<[offset |-> 0, length |-> 0]>>
        ELSE [k \in 1..m |->
                [offset |-> (k - 1) * base,
                 length |-> IF k = m THEN sz - (k - 1) * base ELSE base]]

\* The newlines that one probe of findNextNewline sees: a window of
\* ProbeWindow bytes from p, cut at the size AlignChunks read.
Window(p) == {q \in nl : p <= q /\ q < p + ProbeWindow /\ q < size}

\* The lines lineReader.readLine returns, as half-open ranges <<from, to>>, of
\* a reader over [lo, hi) of a file whose newlines are nls: a line ends after
\* its newline, or at the end of the reader.
LinesOf(nls, lo, hi) ==
    {l \in (lo..hi) \X (lo..hi) :
        /\ l[1] < l[2]
        /\ l[1] = lo \/ l[1] - 1 \in nls
        /\ l[2] = hi \/ l[2] - 1 \in nls
        /\ \A p \in nls : ~(l[1] <= p /\ p < l[2] - 1)}

LinesOfChunk(c) == LinesOf(nl, c.offset, c.offset + c.length)

\* The rows a part yields: RowParser.handleHeader drops the first line of the
\* reader when skipHeader is set.
RowsOf(p) == {l \in LinesOfChunk(p) : ~(p.skipHeader /\ l[1] = p.offset)}

-----------------------------------------------------------------------------
PlanInit ==
    /\ fsize \in 0..MaxSize
    /\ nl \in SUBSET (0..(fsize - 1))
    /\ caller \in {"ingest", "shards"}
    /\ want \in Wants
    /\ caller = "shards" => want >= 1
    /\ hasHeader \in BOOLEAN
    /\ pc = "size"
    /\ planned = 0
    /\ naive = <<>>
    /\ size = 0
    /\ start = 0
    /\ pos = 0
    /\ aligned = <<>>
    /\ parts = <<>>

\* Another process appends to the file.
GrowFile ==
    /\ \E sz \in (fsize + 1)..MaxSize, S \in SUBSET (fsize..(MaxSize - 1)) :
          /\ \A p \in S : p < sz
          /\ fsize' = sz
          /\ nl' = nl \cup S
    /\ UNCHANGED <<input, pc, planned, naive, size, start, pos, aligned, parts>>

\* ingest() and PlanShards: stat the source, which may fail.  ingest() only
\* cuts a file of known, positive size, and only when more than one chunk was
\* asked for; otherwise runSingle reads the whole source.  PlanShards always
\* cuts, and gives up when there is no size.
Plan ==
    /\ pc = "size"
    /\ \E ok \in BOOLEAN :
          \/ /\ caller = "ingest" /\ ~(want > 1 /\ ok /\ fsize > 0)
             /\ pc' = "single"
             /\ UNCHANGED <<planned, naive>>
          \/ /\ caller = "shards" /\ ~ok
             /\ pc' = "failed"
             /\ UNCHANGED <<planned, naive>>
          \/ /\ ok /\ (caller = "ingest" => want > 1 /\ fsize > 0)
             /\ planned' = fsize
             /\ naive' = PlanChunks(fsize, want)
             /\ pc' = "align"
    /\ UNCHANGED <<file, input, size, start, pos, aligned, parts>>

\* A single chunk is returned as it is (size then only records where it ends);
\* otherwise AlignChunks asks for the size again, and works with that one.
AlignBegin ==
    /\ pc = "align"
    /\ IF Len(naive) <= 1
       THEN /\ aligned' = naive
            /\ start' = naive[1].offset + naive[1].length
            /\ size' = planned
            /\ pc' = "aligned"
       ELSE /\ size' = fsize
            /\ start' = naive[1].offset
            /\ pc' = "chunk"
            /\ UNCHANGED aligned
    /\ UNCHANGED <<file, input, planned, naive, pos, parts>>

NaiveBoundary == LET c == naive[Len(aligned) + 1] IN c.offset + c.length

\* Mutated form: the next chunk starts at the naive boundary.
EndChunkNaively(end) ==
    /\ aligned' = Append(aligned, [offset |-> start, length |-> end - start])
    /\ start' = NaiveBoundary
    /\ pc' = "chunk"

\* The body of AlignChunks' loop after the boundary is known.
EndChunkAt(end) ==
    /\ aligned' = Append(aligned, [offset |-> start, length |-> end - start])
    /\ start' = end
    /\ pc' = "chunk"

LastChunk ==
    /\ pc = "chunk"
    /\ Len(aligned) + 1 = Len(naive)
    /\ aligned' = Append(aligned, [offset |-> start, length |-> size - start])
    /\ start' = size
    /\ pc' = "aligned"
    /\ UNCHANGED <<file, input, planned, naive, size, pos, parts>>

\* findNextNewline: at or past the end there is nothing to look for.
ProbeBegin ==
    /\ pc = "chunk"
    /\ Len(aligned) + 1 < Len(naive)
    /\ IF NaiveBoundary >= size
       THEN EndChunkAt(size) /\ UNCHANGED pos
       ELSE /\ pos' = NaiveBoundary
            /\ pc' = "probe"
            /\ UNCHANGED <<aligned, start>>
    /\ UNCHANGED <<file, input, planned, naive, size, parts>>

\* findNextNewline found the newline it was looking for: the first one of the
\* window it read.
NewlineFound ==
    \E q \in Window(pos) :
        /\ \A r \in Window(pos) : q <= r
        /\ EndChunkAt(q + 1)
        /\ UNCHANGED pos

\* Mutated forms of Probe: it gives up after one window; it looks at the same
\* window again; it does not stop at the end of the file.
ProbeOnce ==
    /\ pc = "probe"
    /\ \/ NewlineFound
       \/ /\ Window(pos) = {}
          /\ EndChunkAt(IF pos + ProbeWindow < size THEN pos + ProbeWindow ELSE size)
          /\ UNCHANGED pos
    /\ UNCHANGED <<file, input, planned, naive, size, parts>>

ProbeStuck ==
    /\ pc = "probe"
    /\ NewlineFound \/ (Window(pos) = {} /\ UNCHANGED <<pc, aligned, start, pos>>)
    /\ UNCHANGED <<file, input, planned, naive, size, parts>>

ProbeEndlessly ==
    /\ pc = "probe"
    /\ \/ NewlineFound
       \/ /\ Window(pos) = {}
          /\ pos' = pos + ProbeWindow
          /\ UNCHANGED <<pc, aligned, start>>
    /\ UNCHANGED <<file, input, planned, naive, size, parts>>

\* One iteration of findNextNewline's loop over windows.
Probe ==
    /\ pc = "probe"
    /\ \/ NewlineFound
       \/ /\ Window(pos) = {} /\ pos + ProbeWindow < size
          /\ pos' = pos + ProbeWindow
          /\ UNCHANGED <<pc, aligned, start>>
       \/ /\ Window(pos) = {} /\ pos + ProbeWindow >= size
          /\ EndChunkAt(size)
          /\ UNCHANGED pos
    /\ UNCHANGED <<file, input, planned, naive, size, parts>>

\* Mutated form: every part skips its first line.

AssignAllSkip ==
    /\ pc = "aligned"
    /\ parts' = [k \in 1..Len(aligned) |->
                    [offset |-> aligned[k].offset, length |-> aligned[k].length,
                     skipHeader |-> hasHeader]]
    /\ pc' = "ready"
    /\ UNCHANGED <<file, input, planned, naive, size, start, pos, aligned>>

\* runChunks and PlanShards: each chunk gets a reader, and only the first one
\* skips the header line.
Assign ==
    /\ pc = "aligned"
    /\ parts' = [k \in 1..Len(aligned) |->
                    [offset |-> aligned[k].offset, length |-> aligned[k].length,
                     skipHeader |-> hasHeader /\ k = 1]]
    /\ pc' = "ready"
    /\ UNCHANGED <<file, input, planned, naive, size, start, pos, aligned>>

\* AlignChunks' stat or a read of findNextNewline fails: the caller returns the
\* error.
PlanFails ==
    /\ pc \in {"align", "probe"}
    /\ pc = "align" => Len(naive) > 1
    /\ pc' = "failed"
    /\ UNCHANGED <<file, input, planned, naive, size, start, pos, aligned, parts>>

Step == Plan \/ AlignBegin \/ LastChunk \/ ProbeBegin \/ Probe \/ Assign

PlanNext == GrowFile \/ Step \/ PlanFails

PlanSpec == PlanInit /\ [][PlanNext]_planVars

\* The planner is one call on one goroutine: it keeps running.  Nothing forces
\* anybody to append to the file, or a read to fail.
FairPlanSpec == PlanSpec /\ WF_planVars(Step)

-----------------------------------------------------------------------------
(* Properties. *)

\* The types of the planner's variables.  No offset it works with is past the
\* size it read, and no size it read past the end of the file.
PlanTypeOK ==
    /\ fsize \in 0..MaxSize
    /\ nl \subseteq 0..(fsize - 1)
    /\ caller \in {"ingest", "shards"}
    /\ want \in Wants
    /\ hasHeader \in BOOLEAN
    /\ pc \in {"size", "single", "align", "chunk", "probe", "aligned", "ready",
               "failed"}
    /\ planned \in 0..fsize
    /\ naive \in Seq(Chunk)
    /\ size \in 0..fsize
    /\ start \in 0..size
    /\ pos \in 0..size
    /\ aligned \in Seq(Chunk)
    /\ parts \in Seq([offset : Int, length : Int, skipHeader : BOOLEAN])

\* The parts' rows put together are exactly the rows one reader of the same
\* bytes would return, with the header dropped once: no row is cut at a
\* boundary, lost between two parts or read by two of them.
RowsOnce ==
    pc = "ready" =>
        /\ UNION {RowsOf(parts[k]) : k \in DOMAIN parts}
             = {l \in LinesOf(nl, 0, size) : ~(hasHeader /\ l[1] = 0)}
        /\ \A j, k \in DOMAIN parts :
              j # k => RowsOf(parts[j]) \cap RowsOf(parts[k]) = {}

\* Every line that was complete in the file when the caller sized it is read
\* whole by some part, whatever was appended meanwhile.
NothingMissed ==
    pc = "ready" =>
        \A l \in LinesOf(nl, 0, planned) :
            l[2] - 1 \in nl =>
                \E k \in DOMAIN parts : l \in LinesOfChunk(parts[k])

\* PlanChunks' ranges follow each other from 0 to the planned size, none of
\* them of negative length, and there are never more of them than workers.
NaivePartition ==
    pc # "size" /\ naive # <<>> =>
        /\ naive[1].offset = 0
        /\ \A k \in DOMAIN naive :
              /\ naive[k].length >= 0
              /\ k < Len(naive) => naive[k + 1].offset = naive[k].offset + naive[k].length
        /\ naive[Len(naive)].offset + naive[Len(naive)].length = planned
        /\ Len(naive) <= IF want < 1 THEN 1 ELSE want

\* A byte range, once cut, is never given up or changed, whatever is appended to
\* the file, and the next one to be cut starts where the last one ended and does
\* not end before it starts (chunk.go:49-53).
CutsAreFinal ==
    [][/\ \A k \in DOMAIN aligned : k \in DOMAIN aligned' /\ aligned'[k] = aligned[k]
       /\ \A k \in DOMAIN aligned' \ DOMAIN aligned :
             /\ aligned'[k].offset = IF k = 1 THEN 0 ELSE aligned[k - 1].offset + aligned[k - 1].length
             /\ aligned'[k].length >= 0]_planVars

\* The planner always comes to an end: the probe loop cannot run on.
PlanningEnds == <>(pc \in {"single", "ready", "failed"})
=============================================================================
