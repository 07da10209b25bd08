----------------------------- MODULE QueryPath -----------------------------
(***************************************************************************)
(* One query from the text a user types to the lines that are printed,     *)
(* through every conversion on the way:                                    *)
(*                                                                         *)
(*   cordage query        Parse, SpecToProto                               *)
(*   CoordinatorServer    protoToSpec, New, Discover, PlanShards           *)
(*   RunDistributed       onErrorToProto, specToProto, schemaToProto       *)
(*   WorkerServer         protoToSchema, ..., Add, ExportState, ...        *)
(*   RunDistributed       protoToGroupStates, MergeState                   *)
(*   CoordinatorServer    Result, resultToProto                            *)
(*   cordage query        ResultFromProto, printResult                     *)
(*                                                                         *)
(* Two other ways in: the one-shot coordinator takes flags and prints      *)
(* itself, and a client of another make sends any message it likes.        *)
(*                                                                         *)
(* How calls overlap and how they are cancelled is the subject of          *)
(* Distribute, where a file is cut that of ChunkPlan.  Here a call is one  *)
(* step and the file is any sequence of whole lines.                       *)
(***************************************************************************)
EXTENDS Grammar, Engine, Convert

CONSTANTS
    Cases,          \* [mode, ask, schema, lines, onError]
    MaxWorkers,     \* bound: addresses Discover returns
    Binary          \* strings that are not valid UTF-8

ASSUME QueryPathAssumption ==
    /\ MaxWorkers \in Nat \ {0}
    /\ \A c \in Cases :
          /\ c.mode \in {"query", "foreign", "oneshot"} /\ c.onError \in {"skip", "fail"}
          /\ c.mode = "query" => c.ask \in Seq(STRING)
          /\ c.schema \in [columns : Seq([name : Seq(STRING), type : STRING, kind : STRING]),
                          hasHeader : BOOLEAN, delimiter : 0 .. 255]

VARIABLES
    case,       \* what is asked of what
    pc,         \* the step the query is at
    msg,        \* QueryRequest.spec, once sent
    spec,       \* the AggSpec the coordinator works with
    workers,    \* how many addresses Discover returned
    shards,     \* the parts of the file: [lines, skipHeader]
    results,    \* by shard: the ShardResult
    returned,   \* shards whose call is over
    firstErr,   \* of RunDistributed: the code of the first call to fail
    fault,      \* history: the world failed, not the query
    agg,        \* the final aggregator
    totals,     \* shards merged, rows, skipped
    reply       \* the code and the result the asker is left with

planned == <<workers, shards>>
called == <<results, returned, firstErr>>
merge == <<agg, totals>>
vars == <<case, pc, msg, spec, planned, called, fault, merge, reply>>

Pending == [code |-> "none", result |-> Nil]
Failed(code) == [code |-> code, result |-> Nil]

Init ==
    /\ case \in Cases
    /\ pc = "ask"
    /\ msg = Nil
    /\ spec = Nil
    /\ workers = 0
    /\ shards = <<>>
    /\ results = <<>>
    /\ returned = {}
    /\ firstErr = Nil
    /\ fault = FALSE
    /\ agg = Nil
    /\ totals = [merged |-> 0, rows |-> 0, skipped |-> 0]
    /\ reply = Pending

Finish(r) == pc' = "end" /\ reply' = r

-----------------------------------------------------------------------------
(* The asker. *)

\* runQuery: a text that does not parse is not sent.
AskText ==
    /\ pc = "ask" /\ case.mode = "query"
    /\ LET sent == Then(Parse(case.ask), SpecToProto)
       IN \/ /\ sent # {}
             /\ msg' \in sent
             /\ pc' = "query" /\ UNCHANGED reply
          \/ sent = {} /\ Finish(Failed("Usage")) /\ UNCHANGED msg
    /\ UNCHANGED <<case, spec, planned, called, fault, merge>>

\* Any client of the Coordinator service.
AskMessage ==
    /\ pc = "ask" /\ case.mode = "foreign"
    /\ msg' = case.ask
    /\ pc' = "query"
    /\ UNCHANGED <<case, spec, planned, called, fault, merge, reply>>

\* measureFlags.Set, one flag.
MeasureFlag(flag) ==
    IF flag.column = <<>> \/ flag.funcs = <<>> THEN {}
    ELSE Then(Each(ParseAggFunc, flag.funcs), LAMBDA fs :
             {[column |-> flag.column, funcs |-> fs]})

FlagSpec(flags) ==
    Then(Each(MeasureFlag, flags.measures), LAMBDA ms :
        {[groupBy |-> flags.groupBy, measures |-> ms]})

\* What both coordinators ask of a spec before anything else.
Checked(s) == Then(New(case.schema, s), LAMBDA a : If(ValidateDistributable(s), s))

\* runCoordinator without -listen.
AskFlags ==
    /\ pc = "ask" /\ case.mode = "oneshot"
    /\ LET asked == Then(FlagSpec(case.ask), Checked)
       IN \/ asked # {} /\ spec' \in asked /\ pc' = "discover" /\ UNCHANGED reply
          \/ asked = {} /\ Finish(Failed("Usage")) /\ UNCHANGED spec
    /\ UNCHANGED <<case, msg, planned, called, fault, merge>>

-----------------------------------------------------------------------------
(* The coordinator, up to the calls. *)

\* Mutated form: percentiles are let through.
QueryUnvalidated ==
    /\ pc = "query"
    /\ LET asked == Then(ProtoToSpec(msg), LAMBDA s :
                        Then(New(case.schema, s), LAMBDA a : {s}))
       IN \/ asked # {} /\ spec' \in asked /\ pc' = "discover" /\ UNCHANGED reply
          \/ asked = {} /\ Finish(Failed("InvalidArgument")) /\ UNCHANGED spec
    /\ UNCHANGED <<case, msg, planned, called, fault, merge>>

\* CoordinatorServer.Query, as far as the request is to blame.
Query ==
    /\ pc = "query"
    /\ LET asked == Then(ProtoToSpec(msg), Checked)
       IN \/ asked # {} /\ spec' \in asked /\ pc' = "discover" /\ UNCHANGED reply
          \/ asked = {} /\ Finish(Failed("InvalidArgument")) /\ UNCHANGED spec
    /\ UNCHANGED <<case, msg, planned, called, fault, merge>>

\* A static list, or what DNS has at this moment: a lookup that fails or finds
\* nothing is an error.
Discover ==
    /\ pc = "discover"
    /\ \/ /\ workers' \in 1 .. MaxWorkers
          /\ pc' = "plan"
          /\ UNCHANGED <<fault, reply>>
       \/ /\ Finish(Failed("Internal"))
          /\ fault' = TRUE
          /\ UNCHANGED workers
    /\ UNCHANGED <<case, msg, spec, shards, called, merge>>

\* The parts a file of whole lines can be cut into for n workers: the first is
\* never empty; an empty file is one part.
Cuts(lines, n) ==
    IF lines = <<>> THEN {<< <<>> >>}
    ELSE {[i \in 1 .. n |-> SubSeq(lines, IF i = 1 THEN 1 ELSE ends[i - 1] + 1, ends[i])] :
            ends \in {e \in [1 .. n -> 1 .. Len(lines)] :
                        e[n] = Len(lines) /\ \A i \in 1 .. n - 1 : e[i] <= e[i + 1]}}

\* Only the first part begins with the header.  The file may be missing.
PlanShards ==
    /\ pc = "plan"
    /\ \/ /\ \E parts \in Cuts(case.lines, workers) :
                shards' = [i \in DOMAIN parts |->
                             [lines |-> parts[i],
                              skipHeader |-> case.schema.hasHeader /\ i = 1]]
          /\ pc' = "dispatch"
          /\ UNCHANGED <<fault, reply>>
       \/ /\ Finish(Failed("Internal"))
          /\ fault' = TRUE
          /\ UNCHANGED shards
    /\ UNCHANGED <<case, msg, spec, workers, called, merge>>

-----------------------------------------------------------------------------
(* The worker. *)

ParseField(type, text) ==
    CASE type = "string" -> {Value("string", text.str)}
      [] type = "int64"  -> If(text.num # Nil, Value("int64", IF text.num = NegZero THEN 0 ELSE text.num))
      [] OTHER           -> If(text.num # Nil, Value("float64", text.num))

\* A line of another number of fields is bad, and so is one with a field that
\* does not parse.
ParseRow(columns, line) ==
    IF Len(line) # Len(columns) THEN {}
    ELSE Each(LAMBDA i : ParseField(columns[i].type, line[i]), [i \in DOMAIN line |-> i])

\* withInferredColumns.
Inferred(header) ==
    [i \in DOMAIN header |-> [name |-> header[i], type |-> "string", kind |-> "dimension"]]

\* Ingest over one part, which has a single reader: the rows, and how many lines
\* were skipped.
Ingest(schema, onError, lines) ==
    LET columns == IF schema.columns # <<>> \/ lines = <<>> THEN schema.columns
                   ELSE Inferred(Head(lines))
        data == IF schema.hasHeader /\ lines # <<>> THEN Tail(lines) ELSE lines
        Good(line) == ParseRow(columns, line) # {}
        good == SelectSeq(data, Good)
    IN If(/\ schema.columns = <<>> => schema.hasHeader
          /\ onError = "fail" => Len(good) = Len(data),
          [rows |-> [i \in DOMAIN good |-> CHOOSE r \in ParseRow(columns, good[i]) : TRUE],
           skipped |-> Len(data) - Len(good)])

AddAll(a, rows) == FoldLeft(LAMBDA as, r : Then(as, LAMBDA x : Add(x, r)), {a}, rows)

\* gRPC: a string field that is not UTF-8 cannot be sent.
Marshals(groups) ==
    \A g \in Range(groups) : \A v \in Range(g.key) : v.kind = "str" => v.val \notin Binary

\* WorkerServer.RunShard; lines are what the file has at offset and length.
RunShard(req) ==
    LET decoded ==
            Then(ProtoToSchema(req.schema), LAMBDA schema :
                Then(ProtoToSpec(req.spec), LAMBDA s :
                    IF ~ValidateDistributable(s) THEN {}
                    ELSE Then(ProtoToOnError(req.onError), LAMBDA onError :
                             Then(New(schema, s), LAMBDA a :
                                 {[agg |-> a, schema |-> schema, onError |-> onError]}))))
        answered ==
            Then(decoded, LAMBDA d :
                Then(Ingest(d.schema, d.onError, req.lines), LAMBDA in :
                    Then(AddAll(d.agg, in.rows), LAMBDA a :
                        Then(GroupStatesToProto(ExportState(a)), LAMBDA groups :
                            If(Marshals(groups),
                               [code |-> "OK",
                                result |-> [groups |-> groups, rows |-> Len(in.rows),
                                            skipped |-> in.skipped]])))))
    IN IF decoded = {} THEN {Failed("InvalidArgument")}
       ELSE IF answered = {} THEN {Failed("Internal")} ELSE answered

-----------------------------------------------------------------------------
(* RunDistributed. *)

\* Mutated form: every shard is sent the schema as it is.
ShardRequestHeaderKept(shard) ==
    Then(OnErrorToProto(case.onError), LAMBDA onError :
        Then(SpecToProto(spec), LAMBDA pbSpec :
            Then(SchemaToProto(case.schema), LAMBDA pbSchema :
                {[schema |-> pbSchema, spec |-> pbSpec, onError |-> onError,
                  lines |-> shard.lines]})))

ShardRequest(shard) ==
    Then(OnErrorToProto(case.onError), LAMBDA onError :
        Then(SpecToProto(spec), LAMBDA pbSpec :
            Then(SchemaToProto(case.schema), LAMBDA pbSchema :
                {[schema |-> [pbSchema EXCEPT !.hasHeader = shard.skipHeader],
                  spec |-> pbSpec, onError |-> onError, lines |-> shard.lines]})))

\* The checks before the goroutines start.
Dispatch ==
    /\ pc = "dispatch"
    /\ IF ~ValidateDistributable(spec) \/ OnErrorToProto(case.onError) = {} \/ SpecToProto(spec) = {}
       THEN Finish(Failed("Internal")) /\ UNCHANGED results
       ELSE /\ results' = [i \in DOMAIN shards |-> Nil]
            /\ pc' = "calls"
            /\ UNCHANGED reply
    /\ UNCHANGED <<case, msg, spec, planned, returned, firstErr, fault, merge>>

Fail(code) == firstErr' = IF firstErr = Nil THEN code ELSE firstErr

\* One goroutine: the request is built and sent, and answered.
Call(i) ==
    /\ pc = "calls" /\ i \notin returned
    /\ LET sent == ShardRequest(shards[i])
           answer == IF sent = {} THEN {Failed("Unsendable")} ELSE Then(sent, RunShard)
       IN \E r \in answer :
            \/ /\ r.code = "OK"
               /\ results' = [results EXCEPT ![i] = r.result]
               /\ UNCHANGED firstErr
            \/ r.code # "OK" /\ Fail(r.code) /\ UNCHANGED results
    /\ returned' = returned \cup {i}
    /\ UNCHANGED <<case, pc, msg, spec, planned, fault, merge, reply>>

\* The worker is not there, or cannot read the file.
CallLost(i) ==
    /\ pc = "calls" /\ i \notin returned
    /\ Fail("Unavailable")
    /\ fault' = TRUE
    /\ returned' = returned \cup {i}
    /\ UNCHANGED <<case, pc, msg, spec, planned, results, merge, reply>>

\* The first error cancels what is still under way.
CallCanceled(i) ==
    /\ pc = "calls" /\ i \notin returned
    /\ firstErr # Nil
    /\ returned' = returned \cup {i}
    /\ UNCHANGED <<case, pc, msg, spec, planned, results, firstErr, fault, merge, reply>>

\* wg.Wait() returns.
Gather ==
    /\ pc = "calls" /\ returned = DOMAIN shards
    /\ \/ firstErr # Nil /\ Finish(Failed("Internal")) /\ UNCHANGED agg
       \/ firstErr = Nil /\ agg' \in New(case.schema, spec) /\ pc' = "merge" /\ UNCHANGED reply
    /\ UNCHANGED <<case, msg, spec, planned, called, fault, totals>>

\* One round of the loop over results.
MergeShard ==
    /\ pc = "merge" /\ totals.merged < Len(shards)
    /\ LET r == results[totals.merged + 1]
           merged == Then(ProtoToGroupStates(r.groups), LAMBDA states : MergeState(agg, states))
       IN IF merged = {} THEN Finish(Failed("Internal")) /\ UNCHANGED merge
          ELSE /\ agg' \in merged
               /\ totals' = [merged |-> totals.merged + 1, rows |-> totals.rows + r.rows,
                             skipped |-> totals.skipped + r.skipped]
               /\ UNCHANGED <<pc, reply>>
    /\ UNCHANGED <<case, msg, spec, planned, called, fault>>

-----------------------------------------------------------------------------
(* Back to the asker. *)

\* printResult: the function's name and the column it is of, and the bare value.
PrintResult(r) ==
    LET PrintGroup(g) ==
            [key |-> [i \in DOMAIN r.groupByColumns |-> <<r.groupByColumns[i], g.key[i].val>>],
             count |-> g.count,
             measures |-> [i \in DOMAIN g.measures |->
                <<g.measures[i].func.kind, g.measures[i].column, g.measures[i].value.val>>]]
    IN [i \in DOMAIN r.groups |-> PrintGroup(r.groups[i])]

\* Query's response, or what the one-shot coordinator prints with the totals.
Respond ==
    /\ pc = "merge" /\ totals.merged = Len(shards)
    /\ \E r \in Results(agg) :
          \/ /\ case.mode = "oneshot"
             /\ Finish([code |-> "OK",
                        result |-> [groups |-> PrintResult(r), rows |-> totals.rows,
                                    skipped |-> totals.skipped]])
          \/ /\ case.mode # "oneshot"
             /\ reply' \in {[code |-> "OK", result |-> p] : p \in ResultToProto(r)}
             /\ pc' = "print"
    /\ UNCHANGED <<case, msg, spec, planned, called, fault, merge>>

\* ResultFromProto and printResult; elapsed is all that is printed besides.
PrintReply ==
    /\ pc = "print"
    /\ \E r \in ProtoToResult(reply.result) :
          Finish([code |-> "OK", result |-> [groups |-> PrintResult(r)]])
    /\ UNCHANGED <<case, msg, spec, planned, called, fault, merge>>

Ended == pc = "end" /\ UNCHANGED vars

Next ==
    \/ AskText \/ AskMessage \/ AskFlags
    \/ Query \/ Discover \/ PlanShards
    \/ Dispatch \/ Gather \/ MergeShard
    \/ \E i \in DOMAIN shards : Call(i) \/ CallLost(i) \/ CallCanceled(i)
    \/ Respond \/ PrintReply
    \/ Ended

Spec == Init /\ [][Next]_vars

-----------------------------------------------------------------------------
(* Properties. *)

\* The text is understood as the grammar says, through parser and wire: what
\* reaches the coordinator is the meaning of the text, and a text that has none
\* is not sent.
Parsed == case.mode = "query" /\ pc # "ask" => ProtoToSpec(msg) = Meaning(case.ask)

\* What the asker asks for.
Asked == CASE case.mode = "query"   -> Meaning(case.ask)
           [] case.mode = "foreign" -> ProtoToSpec(case.ask)
           [] case.mode = "oneshot" -> FlagSpec(case.ask)

\* Where a column is: the last of that name.
Place(name) ==
    LET named == {i \in DOMAIN case.schema.columns : case.schema.columns[i].name = name}
    IN IF named = {} THEN 0 ELSE Max(named)

\* A request this coordinator must answer.
Acceptable ==
    \E s \in Asked :
        /\ \A i, j \in DOMAIN s.groupBy : s.groupBy[i] = s.groupBy[j] => i = j
        /\ \A name \in Range(s.groupBy) : Place(name) # 0
        /\ \A m \in Range(s.measures) :
              /\ Place(m.column) # 0
              /\ \A f \in Range(m.funcs) :
                    \/ f.kind = "distinct"
                    \/ /\ f.kind \in {"sum", "min", "max", "avg"}
                       /\ case.schema.columns[Place(m.column)].type \in {"int64", "float64"}

\* The file as it should be read: columns, and the lines that hold data.
Columns == IF case.schema.columns # <<>> \/ case.lines = <<>> THEN case.schema.columns
           ELSE Inferred(case.lines[1])
Data == {i \in DOMAIN case.lines : case.schema.hasHeader => i > 1}
Rows == {i \in Data : ParseRow(Columns, case.lines[i]) # {}}
Cell(i, name) == LET k == Place(name)
                 IN CHOOSE v \in ParseField(Columns[k].type, case.lines[i][k]) : TRUE
Key(s, i) == [n \in DOMAIN s.groupBy |-> <<s.groupBy[n], Cell(i, s.groupBy[n]).val>>]

\* The line that is to be printed for one key.
Expected(s, key) ==
    LET of == {i \in Rows : Key(s, i) = key}
        Values(name) == {Cell(i, name).val : i \in of}
        Sum(name) == MapThenSumSet(LAMBDA i : Cell(i, name).val, of)
        Answer(name, f) ==
            <<f.kind, name,
              CASE f.kind = "sum" -> Sum(name)
                [] f.kind = "min" -> Min(Values(name))
                [] f.kind = "max" -> Max(Values(name))
                [] f.kind = "avg" -> <<Sum(name), Cardinality(of)>>
                [] OTHER          -> Cardinality(Values(name))>>
        Answers(m) == [n \in DOMAIN m.funcs |-> Answer(m.column, m.funcs[n])]
    IN [key |-> key, count |-> Cardinality(of),
        measures |-> FlattenSeq([n \in DOMAIN s.measures |-> Answers(s.measures[n])])]

\* What is printed is the whole answer: one line per key of the file's good rows,
\* with the count and every measure over all rows of that key wherever the file
\* was cut, in ascending order of the keys; and the one-shot coordinator's
\* totals account for every line.
Answers ==
    pc = "end" /\ reply.code = "OK" =>
        \E s \in Asked :
            LET keys == {Key(s, i) : i \in Rows}
                printed == reply.result.groups
                Order(k) == [n \in DOMAIN k |-> Value("", k[n][2])]
            IN /\ Len(printed) = Cardinality(keys)
               /\ Range(printed) = {Expected(s, k) : k \in keys}
               /\ \A i \in DOMAIN printed : \A j \in 1 .. i - 1 :
                     ~KeyLess(Order(printed[i].key), Order(printed[j].key))
               /\ case.mode = "oneshot" =>
                     /\ reply.result.rows = Cardinality(Rows)
                     /\ reply.result.skipped = Cardinality(Data \ Rows)

\* Data that no cluster could answer from: a bad line under "fail"; a key that
\* cannot be sent; a column type the wire has no word for; and a schema that
\* leaves the columns to the header, unless there is nothing but a header and
\* one worker to read it.
Unanswerable ==
    \/ case.onError = "fail" /\ Rows # Data
    \/ \E s \in Asked : \E i \in Rows : \E name \in Range(s.groupBy) :
          Cell(i, name).type = "string" /\ Cell(i, name).val \in Binary
    \/ \E c \in Range(case.schema.columns) : c.type \notin {"string", "int64", "float64"}
    \/ /\ case.schema.columns = <<>>
       /\ ~case.schema.hasHeader \/ Len(shards) > 1 \/ Rows # {}

\* The asker is told that the request is wrong exactly when it is: by the asker's
\* own program or by the coordinator, whose worker never refuses what it accepted.
RequestBlamed ==
    /\ firstErr # "InvalidArgument"
    /\ pc = "end" => (reply.code \in {"Usage", "InvalidArgument"} <=> ~Acceptable)

\* "Internal" is for data that cannot be answered from, or a world that failed.
WorldBlamed == pc = "end" => (reply.code = "Internal" <=> Acceptable /\ (fault \/ Unanswerable))
=============================================================================
