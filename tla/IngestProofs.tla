---------------------------- MODULE IngestProofs ----------------------------
(* What the goroutines of Ingest keep true, whoever consumes their batches:  *)
(* the part of an inductive invariant that RunLocal and RunShard share, and  *)
(* proofs that each step of a producer preserves it.                         *)
EXTENDS Ingest, SequenceTheorems, FiniteSetTheorems, TLAPS

\* The places in drainChunk where a goroutine holds a batch.
Holding == {"loop", "store", "send", "sendLast"}

\* The good rows chunk c has read so far, and those it has not yet handed over.
ReadRows(c) == {r \in Row : r[1] = c /\ r[2] <= at[c] /\ lines[c][r[2]] = "good"}
OwnRows(c) == IF cpc[c] \in Holding THEN Range(buf[cur[c]]) ELSE {}

\* A goroutine that stopped for a reason of its own has said so.
Caused == \E i \in DOMAIN errCh : errCh[i] \in {"bad", "io"}

-----------------------------------------------------------------------------
(* The invariant of the producers. *)

\* Where the goroutines are, seen from the one that waits for them.
Control ==
    /\ \A c \in Ch : cpc[c] \in Holding <=> cur[c] # NoBatch
    /\ \A c \in Ch \ Active : lines[c] = <<>> /\ cpc[c] \in {"idle", "done"} /\ cerr[c] = "nil"
    /\ igpc = "setup" => \A c \in Ch : cpc[c] = "idle" /\ cerr[c] = "nil"
    /\ igpc \in {"return", "close", "done"} =>
          /\ \A c \in Ch : cpc[c] \in {"idle", "done"}
          /\ ret # "setup" => \A c \in Ch : cpc[c] = "done"
    /\ errsClosed <=> igpc \in {"close", "done"}
    /\ batchesClosed <=> igpc = "done"

\* A batch a chunk goroutine holds is its own and not in the pool, where no
\* batch is twice.
Owned ==
    /\ \A b \in Batch : pool[b] \in 0..1 /\ (pool[b] = 1 => b \in made)
    /\ \A c \in Ch : cpc[c] \in Holding => cur[c] \in made /\ pool[cur[c]] = 0
    /\ \A c, d \in Ch : cpc[c] \in Holding /\ cur[c] = cur[d] => c = d

\* How far a goroutine has read, and what of it is in its batch.
Progress ==
    /\ \A c \in Ch : at[c] <= Len(lines[c])
    /\ \A c \in Ch : cpc[c] = "sendLast" \/ (cpc[c] = "done" /\ cerr[c] = "nil")
                        => at[c] = Len(lines[c])
    /\ \A c \in Ch : \A i \in 1..at[c] :
          lines[c][i] = "io" \/ (lines[c][i] = "bad" /\ policy = "fail") => cerr[c] # "nil"
    /\ \A c \in Ch : cpc[c] \in Holding =>
          /\ Range(buf[cur[c]]) \subseteq ReadRows(c)
          /\ IsInjective(buf[cur[c]])

\* Which errors there are, and that none is a cancellation out of nothing.
Errs ==
    /\ \A c \in Ch : cerr[c] # "nil" => cpc[c] \in {"report", "cancel", "done"}
    /\ \A c \in Ch : cpc[c] \in {"report", "cancel"} => ~single /\ cerr[c] # "nil"
    /\ single => errCh = <<>> /\ ~chunkDone
    /\ \A c \in Ch : ~single /\ cerr[c] # "nil" /\ cpc[c] \in {"cancel", "done"} =>
          \E i \in DOMAIN errCh : errCh[i] = cerr[c]
    /\ \A i \in DOMAIN errCh : \E c \in Ch : cerr[c] = errCh[i]
    /\ \A c \in Ch : cerr[c] = "canceled" => parentDone \/ Caused
    /\ chunkDone /\ igpc \in {"setup", "wait"} => parentDone \/ Caused

\* runChunks' error channel has room for an error of every goroutine.
Reported == {c \in Ch : cerr[c] # "nil" /\ cpc[c] \in {"cancel", "done"}}
Room == ~single => Len(errCh) = Cardinality(Reported)

\* What ingest() returned.
Outcome ==
    /\ igpc \in {"setup", "wait"} => ret = "nil"
    /\ igpc \in {"return", "close", "done"} =>
          /\ ret = "canceled" => parentDone
          /\ ret = "nil" => (~single /\ parentDone) \/ \A c \in Ch : cerr[c] = "nil"
          /\ ret \in {"bad", "io"} => \E c \in Ch : cerr[c] = ret

IngestInv == IngestTypeOK /\ Control /\ Owned /\ Progress /\ Errs /\ Room /\ Outcome

\* An error a goroutine reports is one its lines call for.
Sourced ==
    \A c \in Ch : /\ cerr[c] = "bad" => policy = "fail" /\ LinesAre("bad") # {}
                  /\ cerr[c] = "io" => LinesAre("io") # {}

-----------------------------------------------------------------------------
(* Lines, sequences and batches. *)

\* What the definitions that abbreviate groups of variables stand for.
USE DEF inputs, igVars, poolVars, skipVars, ingestVars

\* A chunk's lines are a sequence of at most MaxLines.
LEMMA LinesType ==
    ASSUME NEW l \in Lines
    PROVE  l \in Seq(Kind) /\ Len(l) \in 0..MaxLines
BY IngestAssumption DEF Lines

\* A row appended to a batch joins its rows, and is there once if it was not
\* there before.
LEMMA AppendRow ==
    ASSUME NEW s \in Seq(Row), NEW r \in Row
    PROVE  /\ Range(Append(s, r)) = Range(s) \cup {r}
           /\ IsInjective(s) /\ r \notin Range(s) => IsInjective(Append(s, r))
<1>1. /\ Append(s, r) \in Seq(Row) /\ Len(s) \in Nat
      /\ DOMAIN Append(s, r) = 1..(Len(s) + 1) /\ DOMAIN s = 1..Len(s)
      /\ \A i \in 1..Len(s) : Append(s, r)[i] = s[i]
      /\ Append(s, r)[Len(s) + 1] = r
  OBVIOUS
<1>2. Range(Append(s, r)) = Range(s) \cup {r}
  BY <1>1 DEF Range
<1>3. ASSUME IsInjective(s), r \notin Range(s) PROVE IsInjective(Append(s, r))
  BY <1>1, <1>3 DEF IsInjective, Range
<1> QED BY <1>2, <1>3

\* An empty batch has no rows.
LEMMA NoRow == Range(<<>>) = {} /\ IsInjective(<<>>)
BY DEF Range, IsInjective

\* There are finitely many rows.
LEMMA RowFinite == IsFiniteSet(Row)
<1>1. IsFiniteSet(Ch) /\ IsFiniteSet(1..MaxLines)
  BY IngestAssumption, FS_Interval DEF Ch
<1> QED BY <1>1, FS_Product DEF Row

\* A batch without a double has as many rows as places.
LEMMA RowsCounted ==
    ASSUME NEW s \in Seq(Row), IsInjective(s)
    PROVE  /\ IsFiniteSet(Range(s)) /\ Cardinality(Range(s)) = Len(s)
           /\ \A r \in Row : Cardinality({i \in DOMAIN s : s[i] = r}) =
                                IF r \in Range(s) THEN 1 ELSE 0
<1>1. /\ Len(s) \in Nat /\ DOMAIN s = 1..Len(s) /\ Range(s) \subseteq Row
      /\ \A i \in 1..Len(s) : s[i] \in Range(s)
      /\ \A x \in Range(s) : \E i \in 1..Len(s) : s[i] = x
  BY DEF Range
<1>2. IsFiniteSet(Range(s))
  BY <1>1, RowFinite, FS_Subset
<1>3. s \in Bijection(1..Len(s), Range(s))
  <2>1. s \in [1..Len(s) -> Range(s)]
    BY <1>1
  <2> QED BY <1>1, <2>1 DEF Bijection, Injection, Surjection, IsInjective
<1>4. Cardinality(Range(s)) = Len(s)
  BY <1>1, <1>2, <1>3, FS_CountingElements DEF ExistsBijection
<1>5. ASSUME NEW r \in Row
      PROVE  Cardinality({i \in DOMAIN s : s[i] = r}) = IF r \in Range(s) THEN 1 ELSE 0
  <2>1. CASE r \in Range(s)
    <3>1. PICK i \in DOMAIN s : s[i] = r
      BY <1>1, <2>1
    <3>2. {j \in DOMAIN s : s[j] = r} = {i}
      BY <3>1 DEF IsInjective
    <3> QED BY <2>1, <3>2, FS_Singleton
  <2>2. CASE r \notin Range(s)
    <3>1. {j \in DOMAIN s : s[j] = r} = {}
      BY <1>1, <2>2
    <3> QED BY <2>2, <3>1, FS_EmptySet
  <2> QED BY <2>1, <2>2
<1> QED BY <1>2, <1>4, <1>5

\* Nobody allocates a batch that exists.
LEMMA NewIsNew ==
    ASSUME made \subseteq Batch, NEW b \in Batch, b = NewBatch
    PROVE  b \notin made
<1>1. made # Batch
  BY IngestAssumption DEF NewBatch
<1>2. \E x \in Batch : x \notin made
  BY <1>1
<1> QED BY <1>1, <1>2 DEF NewBatch

\* get() returns an empty batch that no goroutine has, and takes it out of the
\* pool if it was there.
LEMMA GetTakes ==
    ASSUME IngestInv, NEW c \in Ch, Get(c)
    PROVE  \E b \in Batch :
              /\ cur' = [cur EXCEPT ![c] = b]
              /\ buf' = [buf EXCEPT ![b] = <<>>]
              /\ pool[b] = 1 \/ b \notin made
              /\ \A d \in Ch : cur[d] # b
              /\ pool' = [pool EXCEPT ![b] = 0]
              /\ made' = made \cup {b}
<1>1. PICK b \in Batch :
         /\ \/ pool[b] > 0 /\ pool' = [pool EXCEPT ![b] = @ - 1] /\ UNCHANGED made
            \/ b = NewBatch /\ made' = made \cup {b} /\ UNCHANGED pool
         /\ buf' = [buf EXCEPT ![b] = <<>>]
         /\ cur' = [cur EXCEPT ![c] = b]
  BY DEF Get, GetBatch
<1>2. /\ made \subseteq Batch /\ pool \in [Batch -> Nat] /\ pool[b] \in 0..1
      /\ pool[b] = 1 => b \in made
      /\ \A d \in Ch : cur[d] = b => b \in made /\ pool[b] = 0
  BY IngestAssumption DEF IngestInv, IngestTypeOK, Owned, Control
<1>3. /\ pool[b] = 1 \/ b \notin made
      /\ pool' = [pool EXCEPT ![b] = 0]
      /\ made' = made \cup {b}
  <2>1. CASE pool[b] > 0 /\ pool' = [pool EXCEPT ![b] = @ - 1] /\ UNCHANGED made
    <3>1. pool[b] = 1 /\ b \in made
      BY <1>2, <2>1
    <3>2. pool' = [pool EXCEPT ![b] = 0]
      BY <2>1, <3>1
    <3>3. made' = made \cup {b}
      BY <2>1, <3>1
    <3> QED BY <3>1, <3>2, <3>3
  <2>2. CASE b = NewBatch /\ made' = made \cup {b} /\ UNCHANGED pool
    <3>1. b \notin made /\ pool[b] = 0
      BY <1>2, <2>2, NewIsNew
    <3>2. pool = [pool EXCEPT ![b] = 0]
      BY <1>2, <3>1
    <3> QED BY <2>2, <3>1, <3>2
  <2> QED BY <1>1, <2>1, <2>2
<1>4. \A d \in Ch : cur[d] # b
  BY <1>2, <1>3
<1> QED BY <1>1, <1>3, <1>4

\* A goroutine takes a batch, which nobody else has.
LEMMA GetInv == ASSUME IngestInv, NEW c \in Ch, Get(c) PROVE IngestInv'
<1>1. PICK b \in Batch :
         /\ cur' = [cur EXCEPT ![c] = b]
         /\ buf' = [buf EXCEPT ![b] = <<>>]
         /\ pool[b] = 1 \/ b \notin made
         /\ \A d \in Ch : cur[d] # b
         /\ pool' = [pool EXCEPT ![b] = 0]
         /\ made' = made \cup {b}
  BY GetTakes
<1>2. IngestTypeOK'
  BY <1>1 DEF IngestInv, Get, Goto, IngestTypeOK
<1>3. Control'
  BY <1>1, IngestAssumption DEF IngestInv, Get, Goto, IngestTypeOK, Control, Active, Holding
<1>4. Owned'
  BY <1>1, IngestAssumption DEF IngestInv, Get, Goto, IngestTypeOK, Control, Owned, Holding
<1>5. Progress'
  <2>1. ASSUME NEW d \in Ch, cpc'[d] \in Holding
        PROVE  Range(buf'[cur'[d]]) \subseteq ReadRows(d)' /\ IsInjective(buf'[cur'[d]])
    <3>1. CASE d = c
      BY <1>1, <3>1, NoRow DEF IngestInv, IngestTypeOK
    <3>2. CASE d # c
      <4>1. cpc[d] \in Holding /\ cur'[d] = cur[d] /\ cur[d] \in Batch /\ cur[d] # b
        BY <1>1, <2>1, <3>2 DEF IngestInv, IngestTypeOK, Control, Get, Goto
      <4>2. buf'[cur'[d]] = buf[cur[d]]
        BY <1>1, <4>1 DEF IngestInv, IngestTypeOK
      <4> QED BY <4>1, <4>2 DEF IngestInv, Progress, Get, ReadRows
    <3> QED BY <3>1, <3>2
  <2> QED BY <2>1 DEF IngestInv, Progress, Get, Goto, IngestTypeOK
<1>6. Errs'
  BY <1>1 DEF IngestInv, Get, Goto, IngestTypeOK, Control, Errs, Caused
<1>7. Room' /\ Outcome'
  BY <1>1, ZenonT(30) DEF IngestInv, Get, Goto, IngestTypeOK, Errs, Room, Reported, Outcome
<1> QED BY <1>2, <1>3, <1>4, <1>5, <1>6, <1>7 DEF IngestInv

\* A good row joins the batch.
LEMMA ReadGoodInv == ASSUME IngestInv, NEW c \in Ch, ReadGood(c) PROVE IngestInv'
<1> DEFINE r == <<c, at[c] + 1>>
           b == cur[c]
<1>1. /\ cpc[c] = "loop" /\ b \in Batch
      /\ \A d \in Ch \ {c} : cpc[d] \in Holding => cur[d] \in Batch /\ cur[d] # b
  BY DEF IngestInv, IngestTypeOK, Control, Owned, ReadGood, Reading, Holding
<1>2. /\ lines[c] \in Seq(Kind) /\ Len(lines[c]) \in 0..MaxLines
      /\ at[c] \in Nat /\ at[c] < Len(lines[c]) /\ lines[c][at[c] + 1] = "good"
      /\ at' = [at EXCEPT ![c] = @ + 1] /\ at'[c] = at[c] + 1
  BY LinesType DEF IngestInv, IngestTypeOK, ReadGood, Reading
<1>3. r \in Row /\ at'[c] \in 0..MaxLines
  BY <1>2, IngestAssumption DEF Row
<1>4. buf[b] \in Seq(Row) /\ buf' = [buf EXCEPT ![b] = Append(buf[b], r)]
  BY <1>1, <1>2 DEF IngestInv, IngestTypeOK, ReadGood
<1>5. IngestTypeOK'
  <2>1. buf' \in [Batch -> Seq(Row)]
    <3>1. Append(buf[b], r) \in Seq(Row)
      BY <1>3, <1>4
    <3> QED BY <1>4, <3>1 DEF IngestInv, IngestTypeOK
  <2>2. at' \in [Ch -> 0..MaxLines]
    BY <1>2, <1>3 DEF IngestInv, IngestTypeOK
  <2> QED BY <2>1, <2>2 DEF IngestInv, IngestTypeOK, ReadGood, Goto
<1>6. Control' /\ Owned'
  <2>1. cpc'[c] \in {"send", "loop"} /\ \A d \in Ch \ {c} : cpc'[d] = cpc[d]
    BY DEF IngestInv, IngestTypeOK, ReadGood, Goto
  <2> QED BY <1>1, <2>1 DEF IngestInv, Control, Owned, ReadGood, Holding, Active
<1>7. Progress'
  <2>1. ReadRows(c)' = ReadRows(c) \cup {r} /\ \A d \in Ch \ {c} : ReadRows(d)' = ReadRows(d)
    BY <1>2, <1>3 DEF IngestInv, IngestTypeOK, ReadGood, ReadRows, Row
  <2>2. Range(buf[b]) \subseteq ReadRows(c) /\ IsInjective(buf[b])
    BY <1>1 DEF IngestInv, Progress, Holding
  <2>3. r \notin Range(buf[b])
    BY <1>2, <2>2 DEF ReadRows
  <2>4. Range(buf'[b]) \subseteq ReadRows(c)' /\ IsInjective(buf'[b])
    BY <1>1, <1>3, <1>4, <2>1, <2>2, <2>3, AppendRow DEF IngestInv, IngestTypeOK
  <2>5. ASSUME NEW d \in Ch, cpc'[d] \in Holding
        PROVE  Range(buf'[cur'[d]]) \subseteq ReadRows(d)' /\ IsInjective(buf'[cur'[d]])
    <3>1. CASE d = c
      BY <2>4, <3>1 DEF ReadGood
    <3>2. CASE d # c
      <4>1. cpc[d] \in Holding /\ cur'[d] = cur[d] /\ buf'[cur[d]] = buf[cur[d]]
        BY <1>1, <1>4, <2>5, <3>2 DEF IngestInv, IngestTypeOK, ReadGood, Goto
      <4> QED BY <2>1, <3>2, <4>1 DEF IngestInv, Progress
    <3> QED BY <3>1, <3>2
  <2>6. ASSUME NEW d \in Ch
        PROVE  /\ at'[d] <= Len(lines'[d])
               /\ cpc'[d] = "sendLast" \/ (cpc'[d] = "done" /\ cerr'[d] = "nil")
                     => at'[d] = Len(lines'[d])
               /\ \A i \in 1..at'[d] :
                     lines'[d][i] = "io" \/ (lines'[d][i] = "bad" /\ policy' = "fail")
                        => cerr'[d] # "nil"
    <3>1. CASE d = c
      BY <1>2, <3>1 DEF IngestInv, IngestTypeOK, Progress, ReadGood, Goto
    <3>2. CASE d # c
      BY <1>2, <3>2 DEF IngestInv, IngestTypeOK, Progress, ReadGood, Goto
    <3> QED BY <3>1, <3>2
  <2> QED BY <2>5, <2>6 DEF Progress
<1>8. Errs'
  BY <1>1 DEF IngestInv, IngestTypeOK, Errs, Caused, ReadGood, Goto
<1>9. Room'
  <2>1. Reported' = Reported
    BY <1>1 DEF IngestInv, IngestTypeOK, Errs, Reported, ReadGood, Goto
  <2> QED BY <2>1 DEF IngestInv, Room, ReadGood
<1>10. Outcome'
  BY DEF IngestInv, Outcome, ReadGood
<1> QED BY <1>5, <1>6, <1>7, <1>8, <1>9, <1>10 DEF IngestInv

\* A bad row is dropped.
LEMMA SkipLoadInv == ASSUME IngestInv, NEW c \in Ch, SkipLoad(c) PROVE IngestInv'
<1>1. IngestTypeOK'
  BY IngestAssumption, LinesType DEF IngestInv, SkipLoad, Reading, Goto, IngestTypeOK
<1>2. Control'
  BY IngestAssumption, LinesType DEF IngestInv, SkipLoad, Reading, Goto, IngestTypeOK, Control, Active, Holding
<1>3. Owned'
  BY IngestAssumption, LinesType DEF IngestInv, SkipLoad, Reading, Goto, IngestTypeOK, Control, Owned, Holding, Active
<1>4. Progress'
  <2>1. /\ cpc[c] = "loop" /\ lines[c] \in Seq(Kind) /\ Len(lines[c]) \in Nat /\ at[c] \in Nat
        /\ at[c] < Len(lines[c]) /\ lines[c][at[c] + 1] = "bad" /\ policy = "skip"
        /\ at' = [at EXCEPT ![c] = @ + 1] /\ at'[c] = at[c] + 1
    BY LinesType DEF IngestInv, IngestTypeOK, SkipLoad, Reading
  <2>2. \A d \in Ch : ReadRows(d)' = ReadRows(d)
    BY <2>1 DEF IngestInv, IngestTypeOK, SkipLoad, ReadRows, Row
  <2>3. \A d \in Ch : cpc'[d] \in Holding <=> cpc[d] \in Holding
    BY <2>1 DEF IngestInv, IngestTypeOK, SkipLoad, Goto, Holding
  <2>4. ASSUME NEW d \in Ch
        PROVE  /\ at'[d] <= Len(lines'[d])
               /\ cpc'[d] = "sendLast" \/ (cpc'[d] = "done" /\ cerr'[d] = "nil")
                     => at'[d] = Len(lines'[d])
               /\ \A i \in 1..at'[d] :
                     lines'[d][i] = "io" \/ (lines'[d][i] = "bad" /\ policy' = "fail")
                        => cerr'[d] # "nil"
    <3>1. CASE d = c
      BY <2>1, <3>1 DEF IngestInv, IngestTypeOK, Progress, SkipLoad, Goto
    <3>2. CASE d # c
      BY <2>1, <3>2 DEF IngestInv, IngestTypeOK, Progress, SkipLoad, Goto
    <3> QED BY <3>1, <3>2
  <2> QED BY <2>2, <2>3, <2>4 DEF IngestInv, Progress, SkipLoad
<1>5. Errs'
  BY IngestAssumption, LinesType, SMTT(30) DEF IngestInv, SkipLoad, Reading, Goto, IngestTypeOK, Control, Errs, Caused, Active, Holding
<1>6. Room'
  BY IngestAssumption, LinesType DEF IngestInv, SkipLoad, Reading, Goto, IngestTypeOK, Room, Reported, Errs
<1>7. Outcome'
  BY IngestAssumption, LinesType DEF IngestInv, SkipLoad, Reading, Goto, IngestTypeOK, Control, Outcome, Errs, Active
<1> QED BY <1>1, <1>2, <1>3, <1>4, <1>5, <1>6, <1>7 DEF IngestInv

\* A skipped row is counted.
LEMMA SkipStoreInv == ASSUME IngestInv, NEW c \in Ch, SkipStore(c) PROVE IngestInv'
<1>1. IngestTypeOK'
  BY IngestAssumption, LinesType DEF IngestInv, SkipStore, Goto, IngestTypeOK
<1>2. Control'
  BY IngestAssumption, LinesType DEF IngestInv, SkipStore, Goto, IngestTypeOK, Control, Active, Holding
<1>3. Owned'
  BY IngestAssumption, LinesType DEF IngestInv, SkipStore, Goto, IngestTypeOK, Control, Owned, Holding, Active
<1>4. Progress'
  BY IngestAssumption, LinesType DEF IngestInv, SkipStore, Goto, IngestTypeOK, Control, Owned, Progress, Holding, Active, ReadRows
<1>5. Errs'
  BY IngestAssumption, LinesType DEF IngestInv, SkipStore, Goto, IngestTypeOK, Control, Errs, Caused, Active, Holding
<1>6. Room'
  BY IngestAssumption, LinesType DEF IngestInv, SkipStore, Goto, IngestTypeOK, Room, Reported, Errs
<1>7. Outcome'
  BY IngestAssumption, LinesType DEF IngestInv, SkipStore, Goto, IngestTypeOK, Control, Outcome, Errs, Active
<1> QED BY <1>1, <1>2, <1>3, <1>4, <1>5, <1>6, <1>7 DEF IngestInv

\* A goroutine reports its error, and then cancels its siblings.
LEMMA ReportInv == ASSUME IngestInv, NEW c \in Ch, Report(c) PROVE IngestInv'
<1>1. /\ cpc[c] = "report" /\ cpc' = [cpc EXCEPT ![c] = "cancel"]
      /\ cerr[c] \in {"bad", "io", "canceled"} /\ ~single
      /\ errCh \in Seq({"bad", "io", "canceled"}) /\ errCh' = Append(errCh, cerr[c])
  BY DEF IngestInv, IngestTypeOK, Errs, Report, Goto
<1>2. /\ errCh' \in Seq({"bad", "io", "canceled"}) /\ Len(errCh') = Len(errCh) + 1
      /\ DOMAIN errCh' = 1..(Len(errCh) + 1) /\ DOMAIN errCh = 1..Len(errCh) /\ Len(errCh) \in Nat
      /\ \A i \in DOMAIN errCh : errCh'[i] = errCh[i]
      /\ errCh'[Len(errCh) + 1] = cerr[c]
  BY <1>1
<1>3. Control' /\ Owned' /\ Progress'
  <2>1. \A d \in Ch : cpc'[d] \in Holding <=> cpc[d] \in Holding
    BY <1>1 DEF IngestInv, IngestTypeOK, Holding
  <2>2. \A d \in Ch \ {c} : cpc'[d] = cpc[d]
    BY <1>1
  <2>3. c \in Active /\ igpc = "wait" /\ cpc'[c] = "cancel"
    BY <1>1 DEF IngestInv, IngestTypeOK, Control
  <2>4. Control'
    BY <1>1, <2>1, <2>2, <2>3 DEF IngestInv, Report, Control, Active
  <2>5. Owned'
    BY <2>1 DEF IngestInv, Report, Owned
  <2>6. Progress'
    BY <2>1, <2>2, <2>3 DEF IngestInv, Report, Progress, ReadRows
  <2> QED BY <2>4, <2>5, <2>6
<1>4. Room' /\ Len(errCh') <= NChunks
  <2>1. Reported' = Reported \cup {c} /\ c \notin Reported
    BY <1>1 DEF Reported, Report, IngestInv, IngestTypeOK
  <2>2. IsFiniteSet(Ch) /\ Cardinality(Ch) = NChunks
    BY IngestAssumption, FS_Interval DEF Ch
  <2>3. Reported \in SUBSET Ch /\ Reported' \in SUBSET Ch
    BY DEF Reported
  <2>4. /\ IsFiniteSet(Reported) /\ Cardinality(Reported') <= NChunks
    BY <2>2, <2>3, FS_Subset
  <2>5. Cardinality(Reported') = Cardinality(Reported) + 1
    BY <2>1, <2>4, FS_AddElement
  <2> QED BY <1>1, <1>2, <2>4, <2>5 DEF IngestInv, Room, Report
<1>5. IngestTypeOK'
  BY <1>1, <1>2, <1>4 DEF IngestInv, IngestTypeOK, Report
<1>6. Errs'
  <2>1. Caused => Caused'
    BY <1>2 DEF Caused
  <2>2. \A d \in Ch \ {c} : cpc'[d] = cpc[d]
    BY <1>1
  <2>3. cpc'[c] = "cancel"
    BY <1>1 DEF IngestInv, IngestTypeOK
  <2>4. ASSUME NEW d \in Ch, cerr[d] # "nil", cpc'[d] \in {"cancel", "done"}
        PROVE  \E i \in DOMAIN errCh' : errCh'[i] = cerr[d]
    <3>1. CASE d = c
      BY <1>2, <3>1
    <3>2. CASE d # c
      BY <1>1, <1>2, <2>2, <2>4, <3>2 DEF IngestInv, Errs
    <3> QED BY <3>1, <3>2
  <2>5. \A i \in DOMAIN errCh' : \E d \in Ch : cerr[d] = errCh'[i]
    BY <1>2 DEF IngestInv, Errs
  <2> QED BY <1>1, <2>1, <2>2, <2>3, <2>4, <2>5 DEF IngestInv, Errs, Report
<1>7. Outcome'
  BY DEF IngestInv, Outcome, Report
<1> QED BY <1>3, <1>4, <1>5, <1>6, <1>7 DEF IngestInv

\* A goroutine that reported its error cancels its siblings.
LEMMA CancelInv == ASSUME IngestInv, NEW c \in Ch, Cancel(c) PROVE IngestInv'
<1>1. IngestTypeOK'
  BY IngestAssumption, LinesType DEF IngestInv, Cancel, Goto, IngestTypeOK
<1>2. Control'
  BY IngestAssumption, LinesType DEF IngestInv, Cancel, Goto, IngestTypeOK, Control, Active, Holding
<1>3. Owned'
  BY IngestAssumption, LinesType DEF IngestInv, Cancel, Goto, IngestTypeOK, Control, Owned, Holding, Active
<1>4. Progress'
  <2>1. \A d \in Ch : cpc'[d] = IF d = c THEN "done" ELSE cpc[d]
    BY DEF IngestInv, IngestTypeOK, Cancel, Goto
  <2>2. cerr[c] # "nil"
    BY DEF IngestInv, Errs, Cancel
  <2> QED BY <2>1, <2>2 DEF IngestInv, Progress, ReadRows, Cancel, Holding
<1>5. Errs'
  BY IngestAssumption, LinesType, SMTT(30) DEF IngestInv, Cancel, Goto, IngestTypeOK, Control, Errs, Caused, Active, Holding
<1>6. Room'
  BY IngestAssumption, LinesType DEF IngestInv, Cancel, Goto, IngestTypeOK, Room, Reported, Errs
<1>7. Outcome'
  BY IngestAssumption, LinesType DEF IngestInv, Cancel, Goto, IngestTypeOK, Control, Outcome, Errs, Active
<1> QED BY <1>1, <1>2, <1>3, <1>4, <1>5, <1>6, <1>7 DEF IngestInv

\* A batch is handed over.
LEMMA SendBatchInv == ASSUME IngestInv, NEW c \in Ch, SendBatch(c) PROVE IngestInv'
<1>1. IngestTypeOK'
  BY IngestAssumption, LinesType DEF IngestInv, SendBatch, Goto, IngestTypeOK
<1>2. Control'
  BY IngestAssumption, LinesType DEF IngestInv, SendBatch, Goto, IngestTypeOK, Control, Active, Holding
<1>3. Owned'
  BY IngestAssumption, LinesType DEF IngestInv, SendBatch, Goto, IngestTypeOK, Control, Owned, Holding, Active
<1>4. Progress'
  BY IngestAssumption, LinesType DEF IngestInv, SendBatch, Goto, IngestTypeOK, Control, Owned, Progress, Holding, Active, ReadRows
<1>5. Errs'
  BY IngestAssumption, LinesType DEF IngestInv, SendBatch, Goto, IngestTypeOK, Control, Errs, Caused, Active, Holding
<1>6. Room'
  BY IngestAssumption, LinesType DEF IngestInv, SendBatch, Goto, IngestTypeOK, Room, Reported, Errs
<1>7. Outcome'
  BY IngestAssumption, LinesType DEF IngestInv, SendBatch, Goto, IngestTypeOK, Control, Outcome, Errs, Active
<1> QED BY <1>1, <1>2, <1>3, <1>4, <1>5, <1>6, <1>7 DEF IngestInv

\* The goroutines are started.
LEMMA BeginInv == ASSUME IngestInv, Begin PROVE IngestInv'
<1>1. IngestTypeOK'
  BY IngestAssumption, LinesType DEF IngestInv, Begin, IngestTypeOK
<1>2. Control'
  BY IngestAssumption, LinesType DEF IngestInv, Begin, IngestTypeOK, Control, Active, Holding
<1>3. Owned'
  BY IngestAssumption, LinesType DEF IngestInv, Begin, IngestTypeOK, Control, Owned, Holding, Active
<1>4. Progress'
  BY IngestAssumption, LinesType DEF IngestInv, Begin, IngestTypeOK, Control, Owned, Progress, Holding, Active, ReadRows
<1>5. Errs'
  BY IngestAssumption, LinesType DEF IngestInv, Begin, IngestTypeOK, Control, Errs, Caused, Active, Holding
<1>6. Room'
  <2>1. Reported = {} /\ Reported' = {}
    BY DEF IngestInv, Begin, Control, Reported
  <2> QED BY <2>1 DEF IngestInv, Begin, Room
<1>7. Outcome'
  BY IngestAssumption, LinesType DEF IngestInv, Begin, IngestTypeOK, Control, Outcome, Errs, Active
<1> QED BY <1>1, <1>2, <1>3, <1>4, <1>5, <1>6, <1>7 DEF IngestInv

\* ... or they are not.
LEMMA SetupFailsInv == ASSUME IngestInv, SetupFails PROVE IngestInv'
<1>1. IngestTypeOK'
  BY DEF IngestInv, SetupFails, IngestTypeOK, Errors
<1>2. Control'
  BY IngestAssumption, LinesType DEF IngestInv, SetupFails, IngestTypeOK, Control, Active, Holding
<1>3. Owned'
  BY IngestAssumption, LinesType DEF IngestInv, SetupFails, IngestTypeOK, Control, Owned, Holding, Active
<1>4. Progress'
  BY IngestAssumption, LinesType DEF IngestInv, SetupFails, IngestTypeOK, Control, Owned, Progress, Holding, Active, ReadRows
<1>5. Errs'
  BY IngestAssumption, LinesType DEF IngestInv, SetupFails, IngestTypeOK, Control, Errs, Caused, Active, Holding
<1>6. Room'
  BY IngestAssumption, LinesType DEF IngestInv, SetupFails, IngestTypeOK, Room, Reported, Errs
<1>7. Outcome'
  BY IngestAssumption, LinesType DEF IngestInv, SetupFails, IngestTypeOK, Control, Outcome, Errs, Active
<1> QED BY <1>1, <1>2, <1>3, <1>4, <1>5, <1>6, <1>7 DEF IngestInv

\* All goroutines are done.
LEMMA CollectInv == ASSUME IngestInv, Collect PROVE IngestInv'
<1>1. IngestTypeOK'
  BY IngestAssumption, LinesType DEF IngestInv, Collect, IngestTypeOK
<1>2. Control'
  BY IngestAssumption, LinesType DEF IngestInv, Collect, IngestTypeOK, Control, Active, Holding
<1>3. Owned'
  BY IngestAssumption, LinesType DEF IngestInv, Collect, IngestTypeOK, Control, Owned, Holding, Active
<1>4. Progress'
  BY IngestAssumption, LinesType DEF IngestInv, Collect, IngestTypeOK, Control, Owned, Progress, Holding, Active, ReadRows
<1>5. Errs'
  BY IngestAssumption, LinesType DEF IngestInv, Collect, IngestTypeOK, Control, Errs, Caused, Active, Holding
<1>6. Room'
  BY IngestAssumption, LinesType DEF IngestInv, Collect, IngestTypeOK, Room, Reported, Errs
<1>7. Outcome'
  <2>1. /\ igpc = "wait" /\ \A c \in Ch : cpc[c] = "done"
        /\ ret' \in Errors /\ Returned(ret')
        /\ UNCHANGED <<single, cpc, cerr, errCh, parentDone>>
    BY DEF Collect
  <2>2. 1 \in Ch /\ \A c \in Ch : cerr[c] \in {"nil", "bad", "io", "canceled"}
    BY IngestAssumption DEF IngestInv, IngestTypeOK, Ch
  <2>3. CASE single
    <3>1. ret' = cerr[1] /\ \A c \in Ch \ {1} : cerr[c] = "nil"
      BY <2>1, <2>3 DEF Returned, IngestInv, Control, Active
    <3>2. ~Caused
      BY <2>3 DEF IngestInv, Errs, Caused
    <3>3. cerr[1] = "canceled" => parentDone
      BY <2>2, <3>2 DEF IngestInv, Errs
    <3> QED BY <2>1, <2>2, <3>1, <3>3 DEF Outcome, Collect
  <2>4. CASE ~single
    <3>1. FirstCause(ret', errCh)
      BY <2>1, <2>4 DEF Returned
    <3>2. \A i \in DOMAIN errCh : errCh[i] \in {"bad", "io", "canceled"}
      BY DEF IngestInv, IngestTypeOK
    <3>3. ret' # "canceled" /\ (ret' \in {"bad", "io"} => \E i \in DOMAIN errCh : errCh[i] = ret')
      BY <3>1 DEF FirstCause
    <3>4. ret' \in {"bad", "io"} => \E c \in Ch : cerr[c] = ret'
      BY <3>3 DEF IngestInv, Errs
    <3>5. ret' = "nil" => ~Caused
      BY <3>1, <3>2 DEF FirstCause, Caused
    <3>6. ret' = "nil" => parentDone \/ \A c \in Ch : cerr[c] = "nil"
      BY <2>1, <2>2, <2>4, <3>2, <3>5 DEF IngestInv, Errs, Caused
    <3> QED BY <2>1, <2>4, <3>3, <3>4, <3>6 DEF Outcome, Collect
  <2> QED BY <2>3, <2>4
<1> QED BY <1>1, <1>2, <1>3, <1>4, <1>5, <1>6, <1>7 DEF IngestInv

\* The channels are closed.
LEMMA CloseErrsInv == ASSUME IngestInv, CloseErrs PROVE IngestInv'
<1>1. IngestTypeOK'
  <2>1. ret \in {"nil", "setup", "bad", "io", "canceled"}
    BY DEF IngestInv, IngestTypeOK, Errors
  <2>2. errs' \in Seq({"setup", "bad", "io", "canceled"}) /\ Len(errs') <= 1
    <3>1. CASE ret = "nil"
      BY <3>1 DEF CloseErrs
    <3>2. CASE ret # "nil"
      BY <2>1, <3>2 DEF CloseErrs
    <3> QED BY <3>1, <3>2
  <2> QED BY <2>2 DEF IngestInv, IngestTypeOK, CloseErrs
<1>2. Control'
  BY IngestAssumption, LinesType DEF IngestInv, CloseErrs, IngestTypeOK, Control, Active, Holding
<1>3. Owned'
  BY IngestAssumption, LinesType DEF IngestInv, CloseErrs, IngestTypeOK, Control, Owned, Holding, Active
<1>4. Progress'
  BY IngestAssumption, LinesType DEF IngestInv, CloseErrs, IngestTypeOK, Control, Owned, Progress, Holding, Active, ReadRows
<1>5. Errs'
  BY IngestAssumption, LinesType DEF IngestInv, CloseErrs, IngestTypeOK, Control, Errs, Caused, Active, Holding
<1>6. Room'
  BY IngestAssumption, LinesType DEF IngestInv, CloseErrs, IngestTypeOK, Room, Reported, Errs
<1>7. Outcome'
  BY IngestAssumption, LinesType DEF IngestInv, CloseErrs, IngestTypeOK, Control, Outcome, Errs, Active
<1> QED BY <1>1, <1>2, <1>3, <1>4, <1>5, <1>6, <1>7 DEF IngestInv

\* The channel of batches is closed.
LEMMA CloseBatchesInv == ASSUME IngestInv, CloseBatches PROVE IngestInv'
<1>1. IngestTypeOK'
  BY IngestAssumption, LinesType DEF IngestInv, CloseBatches, IngestTypeOK
<1>2. Control'
  BY IngestAssumption, LinesType DEF IngestInv, CloseBatches, IngestTypeOK, Control, Active, Holding
<1>3. Owned'
  BY IngestAssumption, LinesType DEF IngestInv, CloseBatches, IngestTypeOK, Control, Owned, Holding, Active
<1>4. Progress'
  BY IngestAssumption, LinesType DEF IngestInv, CloseBatches, IngestTypeOK, Control, Owned, Progress, Holding, Active, ReadRows
<1>5. Errs'
  BY IngestAssumption, LinesType DEF IngestInv, CloseBatches, IngestTypeOK, Control, Errs, Caused, Active, Holding
<1>6. Room'
  BY IngestAssumption, LinesType DEF IngestInv, CloseBatches, IngestTypeOK, Room, Reported, Errs
<1>7. Outcome'
  BY IngestAssumption, LinesType DEF IngestInv, CloseBatches, IngestTypeOK, Control, Outcome, Errs, Active
<1> QED BY <1>1, <1>2, <1>3, <1>4, <1>5, <1>6, <1>7 DEF IngestInv

-----------------------------------------------------------------------------
(* drainChunk returns. *)

\* Every return of drainChunk releases the batch, and its error says why: the
\* lines are at their end, the line just read could not be taken, or the context
\* is done.
LEMMA ReturnInv ==
    ASSUME IngestInv, NEW c \in Ch, NEW err \in {"nil", "bad", "io", "canceled"},
           cpc[c] \in Holding, Return(c, err),
           UNCHANGED <<inputs, igVars, errCh, chunkDone, parentDone, skipVars>>,
           \/ at' = at
           \/ at' = [at EXCEPT ![c] = @ + 1] /\ at[c] < Len(lines[c]) /\ err # "nil",
           err = "nil" => at[c] = Len(lines[c]),
           err = "canceled" => CtxDone
    PROVE  IngestInv'
<1>1. /\ cur[c] \in Batch /\ cur[c] \in made /\ pool[cur[c]] = 0
      /\ \A d \in Ch \ {c} : cpc[d] \in Holding => cur[d] # cur[c]
      /\ igpc = "wait" /\ c \in Active /\ cerr[c] = "nil"
  <2>1. cur[c] \in Batch /\ cur[c] \in made /\ pool[cur[c]] = 0
    BY DEF IngestInv, IngestTypeOK, Control, Owned
  <2>2. \A d \in Ch \ {c} : cpc[d] \in Holding => cur[d] # cur[c]
    BY DEF IngestInv, Owned
  <2>3. cerr[c] = "nil"
    BY DEF IngestInv, IngestTypeOK, Errs, Holding
  <2>4. igpc = "wait" /\ c \in Active
    BY DEF IngestInv, IngestTypeOK, Control, Holding
  <2> QED BY <2>1, <2>2, <2>3, <2>4
<1>2. /\ pool' = [pool EXCEPT ![cur[c]] = 1] /\ UNCHANGED <<made, buf>>
      /\ cur' = [cur EXCEPT ![c] = NoBatch]
      /\ cerr' = [cerr EXCEPT ![c] = err]
      /\ cpc' = [cpc EXCEPT ![c] = IF single \/ err = "nil" THEN "done" ELSE "report"]
  BY <1>1 DEF IngestInv, IngestTypeOK, Return, Put, Goto
<1>3. \A d \in Ch \ {c} : cpc'[d] = cpc[d] /\ cerr'[d] = cerr[d] /\ cur'[d] = cur[d]
  BY <1>2 DEF IngestInv, IngestTypeOK
<1>4. /\ cpc'[c] = (IF single \/ err = "nil" THEN "done" ELSE "report")
      /\ cerr'[c] = err /\ cur'[c] = NoBatch
  BY <1>2 DEF IngestInv, IngestTypeOK
<1>5. /\ at \in [Ch -> Nat] /\ at' \in [Ch -> 0..MaxLines] /\ \A d \in Ch \ {c} : at'[d] = at[d]
      /\ at[c] <= at'[c] /\ at'[c] <= Len(lines[c])
      /\ \A d \in Ch : Len(lines[d]) \in 0..MaxLines
  BY LinesType, IngestAssumption DEF IngestInv, IngestTypeOK, Progress
<1>6. IngestTypeOK'
  BY <1>1, <1>2, <1>5 DEF IngestInv, IngestTypeOK
<1>7. Control'
  BY <1>1, <1>2, <1>3, <1>4 DEF IngestInv, IngestTypeOK, Control, Active, Holding
<1>8. Owned'
  <2>1. \A b \in Batch : pool'[b] = IF b = cur[c] THEN 1 ELSE pool[b]
    BY <1>1, <1>2 DEF IngestInv, IngestTypeOK
  <2>2. \A d \in Ch : cpc'[d] \in Holding => /\ d # c /\ cpc[d] \in Holding /\ cur'[d] = cur[d]
                                             /\ cur[d] \in Batch /\ cur[d] # cur[c]
    BY <1>1, <1>3, <1>4 DEF IngestInv, IngestTypeOK, Control, Holding
  <2>3. \A b \in Batch : pool'[b] \in 0..1 /\ (pool'[b] = 1 => b \in made')
    BY <1>1, <1>2, <2>1 DEF IngestInv, Owned
  <2>4. \A d \in Ch : cpc'[d] \in Holding => cur'[d] \in made' /\ pool'[cur'[d]] = 0
    BY <1>2, <2>1, <2>2 DEF IngestInv, Owned
  <2>5. \A d, e \in Ch : cpc'[d] \in Holding /\ cur'[d] = cur'[e] => d = e
    BY <1>3, <1>4, <2>2, IngestAssumption DEF IngestInv, Owned
  <2> QED BY <2>3, <2>4, <2>5 DEF Owned
<1>9. Progress'
  <2>1. \A d \in Ch : ReadRows(d) \subseteq ReadRows(d)'
    BY <1>5 DEF ReadRows, Row
  <2>2. \A d \in Ch \ {c} : ReadRows(d)' = ReadRows(d)
    BY <1>5 DEF ReadRows
  <2>3. ASSUME NEW d \in Ch, cpc'[d] \in Holding
        PROVE  Range(buf'[cur'[d]]) \subseteq ReadRows(d)' /\ IsInjective(buf'[cur'[d]])
    <3>1. d # c
      BY <1>4, <2>3 DEF Holding
    <3> QED BY <1>2, <1>3, <2>1, <2>3, <3>1 DEF IngestInv, Progress
  <2>4. ASSUME NEW d \in Ch
        PROVE  /\ at'[d] <= Len(lines'[d])
               /\ cpc'[d] = "sendLast" \/ (cpc'[d] = "done" /\ cerr'[d] = "nil")
                     => at'[d] = Len(lines'[d])
               /\ \A i \in 1..at'[d] :
                     lines'[d][i] = "io" \/ (lines'[d][i] = "bad" /\ policy' = "fail")
                        => cerr'[d] # "nil"
    <3>1. CASE d = c
      BY <1>1, <1>4, <1>5, <3>1 DEF IngestInv, Progress
    <3>2. CASE d # c
      BY <1>3, <1>5, <3>2 DEF IngestInv, Progress
    <3> QED BY <3>1, <3>2
  <2> QED BY <2>3, <2>4 DEF Progress
<1>10. Errs'
  <2>1. Caused' = Caused
    BY DEF Caused
  <2>2. cerr'[c] = "canceled" => parentDone \/ Caused
    BY <1>1, <1>4 DEF CtxDone, IngestInv, Errs
  <2>3. ASSUME NEW d \in Ch
        PROVE  /\ cerr'[d] # "nil" => cpc'[d] \in {"report", "cancel", "done"}
               /\ cpc'[d] \in {"report", "cancel"} => ~single' /\ cerr'[d] # "nil"
               /\ ~single' /\ cerr'[d] # "nil" /\ cpc'[d] \in {"cancel", "done"} =>
                     \E i \in DOMAIN errCh' : errCh'[i] = cerr'[d]
               /\ cerr'[d] = "canceled" => parentDone' \/ Caused'
    <3>1. CASE d = c
      BY <1>4, <2>1, <2>2, <3>1
    <3>2. CASE d # c
      BY <1>3, <2>1, <3>2 DEF IngestInv, Errs
    <3> QED BY <3>1, <3>2
  <2>4. \A i \in DOMAIN errCh : errCh[i] \in {"bad", "io", "canceled"}
    BY DEF IngestInv, IngestTypeOK
  <2>5. \A i \in DOMAIN errCh : \E d \in Ch : cerr'[d] = errCh[i]
    BY <1>1, <1>3, <2>4 DEF IngestInv, Errs
  <2> QED BY <1>1, <2>1, <2>3, <2>5 DEF IngestInv, Errs
<1>11. Room'
  <2>1. ~single => Reported' = Reported
    BY <1>1, <1>3, <1>4 DEF Reported
  <2> QED BY <2>1 DEF IngestInv, Room
<1>12. Outcome'
  BY <1>1 DEF IngestInv, Outcome
<1> QED BY <1>6, <1>7, <1>8, <1>9, <1>10, <1>11, <1>12 DEF IngestInv

\* The four ways to return, and the send of a last batch.
LEMMA SeeDoneInv == ASSUME IngestInv, NEW c \in Ch, SeeDone(c) PROVE IngestInv'
BY ReturnInv DEF SeeDone, Holding

\* A goroutine returns because a read failed ...
LEMMA ReadFailsInv == ASSUME IngestInv, NEW c \in Ch, ReadFails(c) PROVE IngestInv'
BY ReturnInv DEF ReadFails, Reading, Holding

\* ... because its context was done while it was sending ...
LEMMA SendAbortedInv == ASSUME IngestInv, NEW c \in Ch, SendAborted(c) PROVE IngestInv'
BY ReturnInv DEF SendAborted, Holding

\* ... or because its chunk is at its end.
LEMMA AtEOFInv == ASSUME IngestInv, NEW c \in Ch, AtEOF(c) PROVE IngestInv'
<1>1. CASE Return(c, "nil")
  BY <1>1, ReturnInv DEF AtEOF, Holding
<1>2. CASE Goto(c, "sendLast") /\ UNCHANGED <<cur, cerr, poolVars>>
  <2>1. /\ cpc[c] = "loop" /\ at[c] = Len(lines[c]) /\ cpc' = [cpc EXCEPT ![c] = "sendLast"]
        /\ UNCHANGED <<inputs, igVars, at, errCh, chunkDone, parentDone, skipVars>>
    BY <1>2 DEF AtEOF, Goto
  <2>2. \A d \in Ch : cpc'[d] = IF d = c THEN "sendLast" ELSE cpc[d]
    BY <2>1 DEF IngestInv, IngestTypeOK
  <2>3. IngestTypeOK' /\ Outcome'
    BY <1>2, <2>1 DEF IngestInv, IngestTypeOK, Outcome
  <2>4. Control' /\ Owned'
    BY <1>2, <2>1, <2>2 DEF IngestInv, Control, Owned, Holding, Active
  <2>5. Progress'
    BY <1>2, <2>1, <2>2 DEF IngestInv, Progress, Holding, ReadRows
  <2>6. Errs'
    BY <1>2, <2>1, <2>2 DEF IngestInv, Errs, Caused
  <2>7. Room'
    <3>1. Reported' = Reported
      BY <1>2, <2>1, <2>2 DEF IngestInv, Errs, Reported
    <3> QED BY <1>2, <2>1, <3>1 DEF IngestInv, Room
  <2> QED BY <2>3, <2>4, <2>5, <2>6, <2>7 DEF IngestInv
<1> QED BY <1>1, <1>2 DEF AtEOF

-----------------------------------------------------------------------------
(* All of it. *)

\* Every step of a chunk goroutine preserves the invariant.
LEMMA ChunkInv == ASSUME IngestInv, NEW c \in Ch, Chunk(c) PROVE IngestInv'
BY GetInv, SeeDoneInv, AtEOFInv, ReadGoodInv, SkipLoadInv, SkipStoreInv, ReadFailsInv,
   SendAbortedInv, ReportInv, CancelInv DEF Chunk

\* Every step of the goroutine of Ingest preserves it.
LEMMA IngestGoroutineInv == ASSUME IngestInv, IngestGoroutine PROVE IngestInv'
BY BeginInv, SetupFailsInv, CollectInv, CloseErrsInv, CloseBatchesInv DEF IngestGoroutine

\* A consumer that gives back a batch no chunk holds, or ends the context, takes
\* nothing from the producers.
LEMMA ConsumerInv ==
    ASSUME IngestInv,
           UNCHANGED <<inputs, igpc, ret, errsClosed, batchesClosed, cpc, cur, at, cerr,
                       errCh, chunkDone, made, buf, skipVars>>,
           errs' \in {errs, <<>>},
           parentDone' \in BOOLEAN, parentDone => parentDone',
           \/ UNCHANGED pool
           \/ \E b \in made : /\ pool[b] = 0 /\ \A c \in Ch : cur[c] # b
                              /\ pool' = [pool EXCEPT ![b] = 1]
    PROVE  IngestInv'
<1>1. IngestTypeOK'
  <2>1. pool' \in [Batch -> Nat]
    <3>1. ASSUME NEW b \in made, pool' = [pool EXCEPT ![b] = 1]
          PROVE  pool' \in [Batch -> Nat]
      BY <3>1 DEF IngestInv, IngestTypeOK
    <3> QED BY <3>1 DEF IngestInv, IngestTypeOK
  <2>2. errs' \in Seq({"setup", "bad", "io", "canceled"}) /\ Len(errs') <= 1
    <3>1. CASE errs' = errs
      BY <3>1 DEF IngestInv, IngestTypeOK
    <3>2. CASE errs' = <<>>
      BY <3>2
    <3> QED BY <3>1, <3>2
  <2> QED BY <2>1, <2>2 DEF IngestInv, IngestTypeOK
<1>2. Control' /\ Progress'
  BY DEF IngestInv, Control, Progress, Active, ReadRows
<1>3. Owned'
  BY DEF IngestInv, IngestTypeOK, Owned
<1>4. Errs' /\ Room' /\ Outcome'
  BY DEF IngestInv, Errs, Caused, Room, Reported, Outcome
<1> QED BY <1>1, <1>2, <1>3, <1>4 DEF IngestInv

\* No goroutine has begun.
LEMMA IngestInitInv == IngestInit => IngestInv
<1> SUFFICES ASSUME IngestInit PROVE IngestInv
  OBVIOUS
<1>1. IngestTypeOK
  <2>1. /\ cpc \in [Ch -> {"idle", "get", "loop", "store", "send", "sendLast",
                           "report", "cancel", "done"}]
        /\ cur \in [Ch -> Batch \cup {NoBatch}]
        /\ cerr \in [Ch -> {"nil", "bad", "io", "canceled"}]
    BY DEF IngestInit
  <2>2. at \in [Ch -> 0..MaxLines] /\ tmp \in [Ch -> Nat] /\ skipped \in Nat
    BY IngestAssumption DEF IngestInit
  <2>3. /\ errCh \in Seq({"bad", "io", "canceled"}) /\ Len(errCh) <= NChunks
        /\ errs \in Seq({"setup", "bad", "io", "canceled"}) /\ Len(errs) <= 1
    BY IngestAssumption DEF IngestInit
  <2>4. pool \in [Batch -> Nat] /\ made \subseteq Batch /\ buf \in [Batch -> Seq(Row)]
    BY DEF IngestInit
  <2> QED BY <2>1, <2>2, <2>3, <2>4 DEF IngestInit, IngestTypeOK, Errors
<1>2. Control /\ Owned
  BY DEF IngestInit, Control, Owned, Holding
<1>3. Progress
  BY LinesType DEF IngestInit, Progress, Holding
<1>4. Errs /\ Outcome
  BY DEF IngestInit, Errs, Caused, Outcome
<1>5. Room
  <2>1. Reported = {}
    BY DEF IngestInit, Reported
  <2> QED BY <2>1, FS_EmptySet DEF IngestInit, Room
<1> QED BY <1>1, <1>2, <1>3, <1>4, <1>5 DEF IngestInv

-----------------------------------------------------------------------------
(* What the consumers need to know of a producer's step. *)

\* An error that drainChunk reports is in the line it has just read.
LEMMA ChunkSourced ==
    ASSUME IngestInv, Sourced, NEW c \in Ch, Chunk(c)
    PROVE  Sourced'
<1>1. \A kind \in Kind : LinesAre(kind)' = LinesAre(kind)
  BY DEF LinesAre, Chunk, Get, SeeDone, AtEOF, ReadGood, SkipLoad, SkipStore, ReadFails,
         SendAborted, Report, Cancel
<1>2. CASE ReadFails(c)
  <2>1. PICK kind \in {"bad", "io"} :
           /\ kind = "bad" => policy = "fail"
           /\ Reading(c, kind)
           /\ cerr' = [cerr EXCEPT ![c] = kind]
    BY <1>2 DEF ReadFails, Return
  <2>2. <<c, at[c] + 1>> \in LinesAre(kind)
    <3>1. lines[c] \in Lines /\ at[c] \in 0..MaxLines
      BY DEF IngestInv, IngestTypeOK
    <3>2. Len(lines[c]) \in 0..MaxLines
      BY <3>1, LinesType
    <3>3. at[c] < Len(lines[c]) /\ lines[c][at[c] + 1] = kind
      BY <2>1 DEF Reading
    <3>4. at[c] + 1 \in 1..MaxLines /\ at[c] + 1 <= Len(lines[c])
      BY <3>1, <3>2, <3>3, IngestAssumption
    <3> QED BY <3>3, <3>4 DEF LinesAre, Row
  <2>3. UNCHANGED policy
    BY <1>2 DEF ReadFails
  <2> QED BY <1>1, <2>1, <2>2, <2>3 DEF Sourced, Kind, IngestInv, IngestTypeOK
<1>3. CASE SeeDone(c) \/ AtEOF(c) \/ SendAborted(c)
  <2>1. /\ UNCHANGED policy
        /\ \/ UNCHANGED cerr
           \/ \E err \in {"nil", "canceled"} : cerr' = [cerr EXCEPT ![c] = err]
    BY <1>3 DEF SeeDone, AtEOF, SendAborted, Return
  <2> QED BY <1>1, <2>1 DEF Sourced, Kind, IngestInv, IngestTypeOK
<1>4. CASE UNCHANGED <<policy, cerr>>
  BY <1>1, <1>4 DEF Sourced, Kind
<1> QED BY <1>2, <1>3, <1>4 DEF Chunk, Get, ReadGood, SkipLoad, SkipStore, Report, Cancel

\* A batch that is with a consumer stays there, as it is; every other one is in
\* the pool or with a chunk.
LEMMA ChunkBatches ==
    ASSUME IngestInv, NEW c \in Ch, Chunk(c)
    PROVE  /\ UNCHANGED <<inputs, igVars, parentDone>> /\ igpc = "wait" /\ made \subseteq made'
           /\ \A b \in made : pool[b] = 0 /\ (\A d \in Ch : cur[d] # b) =>
                 buf'[b] = buf[b] /\ pool'[b] = 0 /\ \A d \in Ch : cur'[d] # b
           /\ \A b \in made' : \/ pool'[b] = 1
                               \/ \E d \in Ch : cur'[d] = b
                               \/ b \in made /\ pool[b] = 0 /\ \A d \in Ch : cur[d] # b
<1>1. UNCHANGED <<inputs, igVars, parentDone>> /\ igpc = "wait"
  BY DEF Chunk, Get, SeeDone, AtEOF, ReadGood, SkipLoad, SkipStore, ReadFails, SendAborted,
         Report, Cancel, Reading, IngestInv, Control, IngestTypeOK
<1>2. /\ made \subseteq Batch /\ pool \in [Batch -> Nat] /\ buf \in [Batch -> Seq(Row)]
      /\ cur \in [Ch -> Batch \cup {NoBatch}] /\ NoBatch \notin Batch
      /\ \A b \in Batch : pool[b] \in 0..1
  BY IngestAssumption DEF IngestInv, IngestTypeOK, Owned
<1>3. CASE Get(c)
  <2>1. PICK b \in Batch :
           /\ cur' = [cur EXCEPT ![c] = b]
           /\ buf' = [buf EXCEPT ![b] = <<>>]
           /\ pool[b] = 1 \/ b \notin made
           /\ \A d \in Ch : cur[d] # b
           /\ pool' = [pool EXCEPT ![b] = 0]
           /\ made' = made \cup {b}
    BY <1>3, GetTakes
  <2>2. cur[c] = NoBatch
    BY <1>3 DEF Get, IngestInv, Control, Holding
  <2> QED BY <1>1, <1>2, <2>1, <2>2
<1>4. CASE cpc[c] \in Holding /\ (\E err \in {"nil", "bad", "io", "canceled"} : Return(c, err))
  <2>1. cur[c] \in Batch /\ pool[cur[c]] = 0
    BY <1>2, <1>4 DEF IngestInv, Owned
  <2>2. /\ pool' = [pool EXCEPT ![cur[c]] = 1]
        /\ cur' = [cur EXCEPT ![c] = NoBatch] /\ UNCHANGED <<made, buf>>
    BY <1>2, <1>4, <2>1 DEF Return, Put
  <2>3. /\ \A b \in Batch : pool'[b] = IF b = cur[c] THEN 1 ELSE pool[b]
        /\ \A d \in Ch : cur'[d] = IF d = c THEN NoBatch ELSE cur[d]
    BY <1>2, <2>2
  <2> QED BY <1>1, <1>2, <2>1, <2>2, <2>3
<1>5. CASE ReadGood(c)
  <2>1. /\ UNCHANGED <<pool, made, cur>>
        /\ buf' = [buf EXCEPT ![cur[c]] = Append(buf[cur[c]], <<c, at'[c]>>)]
    BY <1>5 DEF ReadGood
  <2> QED BY <1>1, <1>2, <2>1
<1>6. CASE UNCHANGED <<cur, pool, made, buf>>
  BY <1>1, <1>2, <1>6
<1> QED BY <1>3, <1>4, <1>5, <1>6
        DEF Chunk, SeeDone, AtEOF, SkipLoad, SkipStore, ReadFails, SendAborted, Report, Cancel,
            Reading, Holding

\* What each kind of step does to what the goroutine has read and holds.
LEMMA RowsKept ==
    ASSUME IngestInv, NEW c \in Ch, Chunk(c)
    PROVE  \A d \in Ch \ {c} : /\ ReadRows(d)' = ReadRows(d) /\ OwnRows(d)' = OwnRows(d)
                               /\ cerr'[d] = cerr[d]
<1> SUFFICES ASSUME NEW d \in Ch \ {c}
             PROVE  /\ ReadRows(d)' = ReadRows(d) /\ OwnRows(d)' = OwnRows(d)
                    /\ cerr'[d] = cerr[d]
  OBVIOUS
<1>1. at'[d] = at[d] /\ cerr'[d] = cerr[d] /\ cpc'[d] = cpc[d] /\ UNCHANGED lines
  BY DEF IngestInv, IngestTypeOK, Chunk, Get, SeeDone, AtEOF, ReadGood, SkipLoad, SkipStore,
         ReadFails, SendAborted, Report, Cancel, Reading, Return, Goto
<1>2. ASSUME cpc[d] \in Holding
      PROVE  cur'[d] = cur[d] /\ buf'[cur[d]] = buf[cur[d]]
  <2>1. cur[d] \in Batch /\ cur[d] # cur[c]
    BY <1>2 DEF IngestInv, IngestTypeOK, Control, Owned
  <2>2. CASE Get(c)
    BY <2>1, <2>2, GetTakes DEF IngestInv, IngestTypeOK
  <2>3. CASE ReadGood(c)
    BY <2>1, <2>3 DEF IngestInv, IngestTypeOK, ReadGood
  <2>4. CASE UNCHANGED buf /\ cur' \in {cur, [cur EXCEPT ![c] = NoBatch]}
    BY <2>4 DEF IngestInv, IngestTypeOK
  <2> QED BY <2>2, <2>3, <2>4
          DEF Chunk, SeeDone, AtEOF, SkipLoad, SkipStore, ReadFails, SendAborted, Report,
              Cancel, Reading, Return
<1> QED BY <1>1, <1>2 DEF ReadRows, OwnRows

\* A goroutine reads on; the good rows it reads join its batch, and none leaves it
\* unless the goroutine fails.
LEMMA ChunkRows ==
    ASSUME IngestInv, NEW c \in Ch, Chunk(c)
    PROVE  /\ ReadRows(c) \subseteq ReadRows(c)'
           /\ OwnRows(c)' \subseteq OwnRows(c) \cup (ReadRows(c)' \ ReadRows(c))
           /\ cerr'[c] = "nil" => /\ cerr[c] = "nil"
                                  /\ OwnRows(c) \cup (ReadRows(c)' \ ReadRows(c)) \subseteq OwnRows(c)'
<1> DEFINE r == <<c, at[c] + 1>>
<1>1. /\ lines[c] \in Seq(Kind) /\ Len(lines[c]) \in 0..MaxLines /\ at[c] \in Nat
      /\ UNCHANGED lines
  BY LinesType DEF IngestInv, IngestTypeOK, Chunk, Get, SeeDone, AtEOF, ReadGood, SkipLoad,
         SkipStore, ReadFails, SendAborted, Report, Cancel
<1>2. ASSUME UNCHANGED at PROVE ReadRows(c)' = ReadRows(c)
  BY <1>1, <1>2 DEF ReadRows
<1>3. ASSUME NEW kind \in {"bad", "io"}, Reading(c, kind) PROVE ReadRows(c)' = ReadRows(c)
  BY <1>1, <1>3 DEF ReadRows, Row, Reading, IngestInv, IngestTypeOK
<1>4. CASE Get(c)
  <2>1. PICK b \in Batch : cur' = [cur EXCEPT ![c] = b] /\ buf' = [buf EXCEPT ![b] = <<>>]
    BY <1>4, GetTakes
  <2>2. buf'[cur'[c]] = <<>> /\ cpc[c] \notin Holding /\ cerr'[c] = cerr[c] /\ UNCHANGED at
    BY <1>4, <2>1 DEF Get, Holding, IngestInv, IngestTypeOK
  <2>3. OwnRows(c) = {} /\ OwnRows(c)' = {}
    BY <2>2, NoRow DEF OwnRows
  <2> QED BY <1>2, <2>2, <2>3
<1>5. CASE ReadGood(c)
  <2>1. cpc[c] = "loop" /\ cpc'[c] \in Holding /\ UNCHANGED <<cur, cerr>> /\ cur[c] \in Batch
    BY <1>5 DEF ReadGood, Reading, Goto, Holding, IngestInv, IngestTypeOK, Control
  <2>2. r \in Row /\ at'[c] = at[c] + 1 /\ at[c] < Len(lines[c]) /\ lines[c][at[c] + 1] = "good"
    BY <1>1, <1>5, IngestAssumption DEF ReadGood, Reading, IngestInv, IngestTypeOK, Row
  <2>3. buf'[cur[c]] = Append(buf[cur[c]], r) /\ buf[cur[c]] \in Seq(Row)
    BY <1>5, <2>1, <2>2 DEF ReadGood, IngestInv, IngestTypeOK
  <2>4. OwnRows(c)' = OwnRows(c) \cup {r}
    BY <2>1, <2>2, <2>3, AppendRow DEF OwnRows, Holding
  <2>5. ReadRows(c)' = ReadRows(c) \cup {r} /\ r \notin ReadRows(c)
    BY <1>1, <2>2 DEF ReadRows, Row
  <2> QED BY <2>1, <2>4, <2>5
<1>6. CASE SkipLoad(c)
  <2>1. /\ Reading(c, "bad") /\ UNCHANGED <<cur, cerr, buf>> /\ cpc[c] \in Holding
        /\ cpc'[c] \in Holding
    BY <1>6 DEF SkipLoad, Reading, Goto, Holding, IngestInv, IngestTypeOK
  <2> QED BY <1>3, <2>1 DEF OwnRows
<1>7. CASE SkipStore(c) \/ Report(c) \/ Cancel(c)
  <2>1. UNCHANGED <<at, cur, cerr, buf>> /\ (cpc'[c] \in Holding <=> cpc[c] \in Holding)
    BY <1>7 DEF SkipStore, Report, Cancel, Goto, Holding, IngestInv, IngestTypeOK
  <2> QED BY <1>2, <2>1 DEF OwnRows
<1>8. CASE AtEOF(c)
  <2>1. cpc[c] \in Holding /\ UNCHANGED <<at, buf>> /\ cerr[c] = "nil"
    BY <1>8 DEF AtEOF, Return, Holding, IngestInv, Errs
  <2>2. CASE buf[cur[c]] = <<>> /\ Return(c, "nil")
    <3>1. OwnRows(c) = {} /\ OwnRows(c)' = {}
      BY <2>1, <2>2, NoRow DEF OwnRows, Return, Goto, Holding, IngestInv, IngestTypeOK
    <3> QED BY <1>2, <2>1, <3>1
  <2>3. CASE Goto(c, "sendLast") /\ UNCHANGED <<cur, cerr>>
    <3>1. OwnRows(c)' = OwnRows(c)
      BY <2>1, <2>3 DEF OwnRows, Goto, Holding, IngestInv, IngestTypeOK
    <3> QED BY <1>2, <2>1, <3>1
  <2> QED BY <1>8, <2>2, <2>3 DEF AtEOF
<1>9. CASE SeeDone(c) \/ SendAborted(c) \/ ReadFails(c)
  <2>1. /\ \E err \in {"bad", "io", "canceled"} : Return(c, err)
        /\ UNCHANGED at \/ \E kind \in {"bad", "io"} : Reading(c, kind)
    BY <1>9 DEF SeeDone, SendAborted, ReadFails
  <2>2. cerr'[c] # "nil" /\ cpc'[c] \notin Holding
    BY <2>1 DEF Return, Goto, Holding, IngestInv, IngestTypeOK
  <2> QED BY <1>2, <1>3, <2>1, <2>2 DEF OwnRows
<1> QED BY <1>4, <1>5, <1>6, <1>7, <1>8, <1>9 DEF Chunk

\* The goroutine of Ingest touches no batch and no row.
LEMMA GoroutineRows ==
    ASSUME IngestInv, IngestGoroutine
    PROVE  /\ UNCHANGED <<inputs, cur, cerr, poolVars, parentDone, skipVars>>
           /\ \A c \in Ch : ReadRows(c)' = ReadRows(c) /\ OwnRows(c)' = OwnRows(c)
           /\ Sourced => Sourced'
<1>1. UNCHANGED <<inputs, at, cur, cerr, poolVars, parentDone, skipVars>>
  BY DEF IngestGoroutine, Begin, SetupFails, Collect, CloseErrs, CloseBatches
<1>2. \A c \in Ch : cpc'[c] \in Holding <=> cpc[c] \in Holding
  BY DEF IngestGoroutine, Begin, SetupFails, Collect, CloseErrs, CloseBatches, Holding,
         IngestInv, Control
<1>3. \A kind \in Kind : LinesAre(kind)' = LinesAre(kind)
  BY <1>1 DEF LinesAre
<1> QED BY <1>1, <1>2, <1>3 DEF ReadRows, OwnRows, Sourced, Kind

\* Nor does a step that is not the producers'.
LEMMA IngestStutter ==
    ASSUME IngestInv, UNCHANGED ingestVars
    PROVE  /\ IngestInv'
           /\ \A c \in Ch : ReadRows(c)' = ReadRows(c) /\ OwnRows(c)' = OwnRows(c)
           /\ Sourced => Sourced'
<1>1. IngestTypeOK' /\ Control' /\ Owned'
  BY DEF IngestInv, IngestTypeOK, Control, Owned, Active
<1>2. Progress' /\ Errs' /\ Room' /\ Outcome'
  BY DEF IngestInv, Progress, Errs, Room, Outcome, ReadRows, Caused, Reported
<1> QED BY <1>1, <1>2 DEF IngestInv, Sourced, LinesAre, ReadRows, OwnRows
=============================================================================
