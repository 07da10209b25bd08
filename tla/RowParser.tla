----------------------------- MODULE RowParser -----------------------------
(***************************************************************************)
(* One reader's lines turned into rows of a batch: schema resolution from  *)
(* a header line, splitting into fields with and without quoting, typed    *)
(* values, and the two policies for lines that do not parse.               *)
(*                                                                         *)
(* A character is a quote, a delimiter, a digit or anything else.  Where   *)
(* lines begin and end, and which reader skips a header, is ChunkPlan's    *)
(* subject; what becomes of the batch, and reads that fail, Ingest's.      *)
(***************************************************************************)
EXTENDS Integers, Sequences, FiniteSets, FiniteSetsExt

CONSTANTS
    Files,  \* sequences of lines a reader may be given
    Tables  \* Schema.Columns: sequences of column types; <<>> asks to infer

Char == {"quote", "delim", "digit", "other"}

ASSUME RowParserAssumption ==
    /\ Files \subseteq Seq(Seq(Char))
    /\ Tables \subseteq Seq({"string", "number"})

VARIABLES
    lines,      \* what the reader returns
    quoteAware, \* Schema.QuoteAware
    explicit,   \* Schema.Columns
    skipHeader, \* the first line is a header, to be discarded
    policy,     \* Config.OnError
    pc,         \* "resolve", "header", "rows", "eof" or "failed"
    types,      \* the resolved columns
    at,         \* lines read
    lineNo,     \* data lines read
    cols,       \* Batch.Cols: the values of each column
    numRows,    \* Batch.NumRows
    reported    \* the line numbers OnSkippedRow was called with

vars == <<lines, quoteAware, explicit, skipHeader, policy, pc, types, at, lineNo,
          cols, numRows, reported>>

config == <<lines, quoteAware, explicit, skipHeader, policy>>

-----------------------------------------------------------------------------
(* Splitting. *)

\* splitFields: cut at every delimiter.
SplitFields(line) ==
    LET Take(fields, c) ==
            IF c = "delim" THEN Append(fields, <<>>)
            ELSE [fields EXCEPT ![Len(fields)] = Append(@, c)]
        Upto[n \in 0 .. Len(line)] ==
            IF n = 0 THEN <<<<>>>> ELSE Take(Upto[n - 1], line[n])
    IN Upto[Len(line)]

\* splitFieldsQuoted scans a line once.  It is at the start of a field, in a
\* bare one, inside quotes, behind a quote that closes the field unless a second
\* one follows, or at an error it never leaves.
Scan(s, c) ==
    LET Grow(mode) == [s EXCEPT !.mode = mode, !.field = Append(@, c)]
        Cut        == [mode |-> "start", fields |-> Append(s.fields, s.field), field |-> <<>>]
    IN CASE s.mode = "start" /\ c = "quote"             -> [s EXCEPT !.mode = "quoted"]
         [] s.mode = "start" /\ c \notin {"quote", "delim"} -> Grow("bare")
         [] s.mode = "bare" /\ c # "delim"               -> Grow("bare")
         [] s.mode = "quoted" /\ c # "quote"             -> Grow("quoted")
         [] s.mode = "quoted" /\ c = "quote"             -> [s EXCEPT !.mode = "closed"]
         [] s.mode = "closed" /\ c = "quote"             -> Grow("quoted")
         [] s.mode \in {"start", "bare", "closed"} /\ c = "delim" -> Cut
         [] OTHER                                        -> [s EXCEPT !.mode = "error"]

Started == [mode |-> "start", fields |-> <<>>, field |-> <<>>]

NoFields == <<>>    \* a line has at least one field: stands for an error

\* Mutated form: a doubled quote ends the field.
SplitFieldsQuotedPlain(line) ==
    LET Step(s, c) == IF s.mode = "closed" /\ c = "quote"
                      THEN [s EXCEPT !.mode = "error"] ELSE Scan(s, c)
        After[n \in 0 .. Len(line)] ==
            IF n = 0 THEN Started ELSE Step(After[n - 1], line[n])
        end == After[Len(line)]
    IN IF end.mode \in {"quoted", "error"} THEN NoFields
       ELSE Append(end.fields, end.field)

SplitFieldsQuoted(line) ==
    LET After[n \in 0 .. Len(line)] ==
            IF n = 0 THEN Started ELSE Scan(After[n - 1], line[n])
        end == After[Len(line)]
    IN IF end.mode \in {"quoted", "error"} THEN NoFields
       ELSE Append(end.fields, end.field)

Split(line) == IF quoteAware THEN SplitFieldsQuoted(line) ELSE SplitFields(line)

\* strconv on a field of these characters.
Parses(type, field) ==
    type = "number" => field # <<>> /\ \A i \in DOMAIN field : field[i] = "digit"

-----------------------------------------------------------------------------
Init ==
    /\ lines \in Files
    /\ quoteAware \in BOOLEAN
    /\ explicit \in Tables
    /\ skipHeader \in BOOLEAN
    /\ policy \in {"skip", "fail"}
    /\ pc = "resolve"
    /\ types = <<>> /\ at = 0 /\ lineNo = 0
    /\ cols = <<>> /\ numRows = 0
    /\ reported = <<>>

\* Mutated form: the batch is shaped from Config.Schema, before it is resolved.
ColumnsUnresolved(t) == types' = t /\ cols' = [i \in DOMAIN explicit |-> <<>>]

Columns(t) == types' = t /\ cols' = [i \in DOMAIN t |-> <<>>]

\* resolveSchema: the columns are given ...
ResolveGiven ==
    /\ pc = "resolve" /\ explicit # <<>>
    /\ Columns(explicit)
    /\ pc' = "header"
    /\ UNCHANGED <<config, at, lineNo, numRows, reported>>

\* ... or inferred from the header line, which is thereby read, all strings ...
ResolveInferred ==
    /\ pc = "resolve" /\ explicit = <<>> /\ skipHeader
    /\ IF lines = <<>>
       THEN Columns(<<>>) /\ UNCHANGED at
       ELSE Columns([i \in DOMAIN SplitFields(lines[1]) |-> "string"]) /\ at' = 1
    /\ pc' = "rows"
    /\ UNCHANGED <<config, lineNo, numRows, reported>>

\* ... or there is nothing to infer them from.
ResolveFails ==
    /\ pc = "resolve" /\ explicit = <<>> /\ ~skipHeader
    /\ pc' = "failed"
    /\ UNCHANGED <<config, types, at, lineNo, cols, numRows, reported>>

\* handleHeader.
HandleHeader ==
    /\ pc = "header"
    /\ IF skipHeader /\ lines = <<>>
       THEN pc' = "eof" /\ UNCHANGED at
       ELSE pc' = "rows" /\ at' = at + (IF skipHeader THEN 1 ELSE 0)
    /\ UNCHANGED <<config, types, lineNo, cols, numRows, reported>>

\* The next line is read; its fields are F.
Read(F) ==
    /\ pc = "rows"
    /\ at < Len(lines)
    /\ F = Split(lines[at + 1])
    /\ at' = at + 1
    /\ lineNo' = lineNo + 1

Fits(F) ==
    /\ F # NoFields
    /\ Len(F) = Len(types)
    /\ \A i \in DOMAIN types : Parses(types[i], F[i])

\* Every field parses as its column asks: the row joins the batch.
NextOK ==
    LET F == Split(lines[at + 1])
    IN /\ Read(F)
       /\ Fits(F)
       /\ cols' = [i \in DOMAIN cols |-> Append(cols[i], F[i])]
       /\ numRows' = numRows + 1
       /\ UNCHANGED <<config, pc, types, reported>>

\* Mutated form of NextSkipped: each value is appended as soon as it is parsed.
NextSkippedHalf ==
    LET F == Split(lines[at + 1])
        good == {i \in DOMAIN cols : \A j \in 1 .. i : Parses(types[j], F[j])}
    IN /\ Read(F)
       /\ ~Fits(F) /\ policy = "skip"
       /\ reported' = Append(reported, lineNo')
       /\ cols' = IF Len(F) = Len(types)
                  THEN [i \in DOMAIN cols |-> IF i \in good THEN Append(cols[i], F[i]) ELSE cols[i]]
                  ELSE cols
       /\ UNCHANGED <<config, pc, types, numRows>>

\* handleRowError under ErrorPolicySkip: no column gets anything ...
NextSkipped ==
    LET F == Split(lines[at + 1])
    IN /\ Read(F)
       /\ ~Fits(F) /\ policy = "skip"
       /\ reported' = Append(reported, lineNo')
       /\ UNCHANGED <<config, pc, types, cols, numRows>>

\* ... and under ErrorPolicyFail.
NextFails ==
    LET F == Split(lines[at + 1])
    IN /\ Read(F)
       /\ ~Fits(F) /\ policy = "fail"
       /\ pc' = "failed"
       /\ UNCHANGED <<config, types, cols, numRows, reported>>

NextEOF ==
    /\ pc = "rows"
    /\ at = Len(lines)
    /\ pc' = "eof"
    /\ UNCHANGED <<config, types, at, lineNo, cols, numRows, reported>>

Next ==
    \/ ResolveGiven \/ ResolveInferred \/ ResolveFails \/ HandleHeader
    \/ NextOK \/ NextSkipped \/ NextFails \/ NextEOF

Spec == Init /\ [][Next]_vars

-----------------------------------------------------------------------------
(* The format, declared rather than scanned: a line is fields joined by      *)
(* delimiters, and a field is written bare or quoted.                        *)

Texts(n) == UNION {[1 .. m -> Char] : m \in 0 .. n}

Doubled(text) ==
    LET Upto[n \in 0 .. Len(text)] ==
            IF n = 0 THEN <<>>
            ELSE Upto[n - 1] \o (IF text[n] = "quote" THEN <<"quote", "quote">> ELSE <<text[n]>>)
    IN Upto[Len(text)]

\* The texts a piece of a line may stand for.
TextsOf(piece) ==
    LET n == Len(piece)
        bare == /\ \A i \in DOMAIN piece : piece[i] # "delim"
                /\ quoteAware /\ n > 0 => piece[1] # "quote"
        inner == SubSeq(piece, 2, n - 1)
    IN (IF bare THEN {piece} ELSE {})
       \cup (IF quoteAware /\ n >= 2 /\ piece[1] = "quote" /\ piece[n] = "quote"
             THEN {t \in Texts(n - 2) : Doubled(t) = inner}
             ELSE {})

\* The sequences of fields a line may stand for: its last piece follows position 0, or
\* a delimiter and the pieces before that.
Readings(line) ==
    LET Of[n \in 0 .. Len(line)] ==     \* of the first n characters
            UNION {{Append(F, t) : F \in IF c = 0 THEN {<<>>} ELSE Of[c - 1],
                                   t \in TextsOf(SubSeq(line, c + 1, n))} :
                      c \in {c \in 0 .. n : c > 0 => line[c] = "delim"}}
    IN Of[Len(line)]

\* The data lines read so far, by their numbers.
FirstData == IF skipHeader THEN 1 ELSE 0
IsRow(i) == \E F \in Readings(lines[FirstData + i]) :
               Len(F) = Len(types) /\ \A c \in DOMAIN F : Parses(types[c], F[c])

\* Which of the numbers in S i is.
PlaceIn(S, i) == Cardinality({j \in S : j <= i})

-----------------------------------------------------------------------------
\* The shape of the state: a batch has a column per column of the schema.
TypeOK ==
    /\ pc \in {"resolve", "header", "rows", "eof", "failed"}
    /\ at \in 0 .. Len(lines) /\ lineNo \in 0 .. at
    /\ DOMAIN cols = DOMAIN types
    /\ \A c \in DOMAIN cols : \A r \in DOMAIN cols[c] : Parses(types[c], cols[c][r])
    /\ numRows \in 0 .. lineNo
    /\ \A i \in DOMAIN reported : reported[i] \in 1 .. lineNo

\* Row r of the batch is row r of each of its columns (parser.go:281-284).
Aligned == \A c \in DOMAIN cols : Len(cols[c]) = numRows

\* The rows of the batch are, in order, the lines read that are well-formed rows
\* of the schema, with the texts they stand for; no line stands for two rows.
\* Every other line is reported once, in order, or ends the run, and leaves no
\* value behind when it is dropped half-way.
RowsAreTheLines ==
    LET good == {i \in 1 .. lineNo : IsRow(i)}
        bad  == 1 .. lineNo \ good
    IN /\ Aligned
       /\ numRows = Cardinality(good)
       /\ \A i \in good : Readings(lines[FirstData + i])
                             = {[c \in DOMAIN cols |-> cols[c][PlaceIn(good, i)]]}
       /\ policy = "skip" => /\ Len(reported) = Cardinality(bad)
                             /\ \A i \in bad : reported[PlaceIn(bad, i)] = i
                             /\ pc = "failed" => explicit = <<>>
       /\ policy = "fail" => /\ reported = <<>>
                             /\ \A i \in bad : i = lineNo /\ pc = "failed"

\* Quoted fields are handled (schema.go:73-75): when the columns are inferred
\* and every line of a quote-aware file is well-formed with the same number of
\* fields as the header, no row is dropped.
QuotedFileIsRead ==
    /\ quoteAware /\ explicit = <<>> /\ skipHeader /\ lines # <<>>
    /\ \E n \in 1 .. Max({Len(lines[i]) + 1 : i \in DOMAIN lines}) :
          \A i \in DOMAIN lines : \E F \in Readings(lines[i]) : Len(F) = n
    => reported = <<>>
=============================================================================
