------------------------------- MODULE Convert -------------------------------
(***************************************************************************)
(* internal/distribute/convert.go: the aggregate and ingest types to and   *)
(* from their protobuf messages.  A sub-message may be absent (Nil), and   *)
(* an enum may hold any number: those are errors, and so is the            *)
(* UNSPECIFIED that an enum is when nobody set it.                         *)
(***************************************************************************)
EXTENDS Sequences, Fallible

-----------------------------------------------------------------------------
(* Enums: the switch statements, both ways. *)

ColumnTypes == [string  |-> "COLUMN_TYPE_STRING",
                int64   |-> "COLUMN_TYPE_INT64",
                float64 |-> "COLUMN_TYPE_FLOAT64"]

ColumnKinds == [dimension |-> "COLUMN_KIND_DIMENSION",
                measure   |-> "COLUMN_KIND_MEASURE",
                ignore    |-> "COLUMN_KIND_IGNORE"]

FuncKinds == [sum |-> "FUNC_KIND_SUM", min |-> "FUNC_KIND_MIN", max |-> "FUNC_KIND_MAX",
              avg |-> "FUNC_KIND_AVG", distinct |-> "FUNC_KIND_DISTINCT",
              percentile |-> "FUNC_KIND_PERCENTILE"]

\* The alternatives of Value's oneof.
ValueKinds == [string |-> "str", int64 |-> "i64", float64 |-> "f64"]

OnErrors == [skip |-> "skip", fail |-> "fail"]

Encode(table, v) == If(v \in DOMAIN table, table[v])
Decode(table, w) == If(w \in Range(table), CHOOSE v \in DOMAIN table : table[v] = w)

ColumnTypeToProto(t) == Encode(ColumnTypes, t)
ProtoToColumnType(w) == Decode(ColumnTypes, w)
ColumnKindToProto(k) == Encode(ColumnKinds, k)
ProtoToColumnKind(w) == Decode(ColumnKinds, w)
FuncKindToProto(k) == Encode(FuncKinds, k)
ProtoToFuncKind(w) == Decode(FuncKinds, w)
OnErrorToProto(p) == Encode(OnErrors, p)

\* A request that says nothing skips bad rows.
ProtoToOnError(s) == IF s = "" THEN {"skip"} ELSE Decode(OnErrors, s)

-----------------------------------------------------------------------------
(* Schemas. *)

ColumnToProto(c) ==
    Then(ColumnTypeToProto(c.type), LAMBDA t :
        Then(ColumnKindToProto(c.kind), LAMBDA k :
            {[name |-> c.name, type |-> t, kind |-> k]}))

ProtoToColumn(p) ==
    Then(ProtoToColumnType(p.type), LAMBDA t :
        Then(ProtoToColumnKind(p.kind), LAMBDA k :
            {[name |-> p.name, type |-> t, kind |-> k]}))

SchemaToProto(s) ==
    Then(Each(ColumnToProto, s.columns), LAMBDA cols : {[s EXCEPT !.columns = cols]})

\* The delimiter's uint32 is cut to a byte.
ProtoToSchema(p) ==
    Present(p, LAMBDA s :
        Then(Each(ProtoToColumn, s.columns), LAMBDA cols :
            {[s EXCEPT !.columns = cols, !.delimiter = @ % 256]}))

-----------------------------------------------------------------------------
(* Specs. *)

\* Only a percentile has a quantile.
AggFuncFromKind(kind, q) == {[kind |-> kind, q |-> IF kind = "percentile" THEN q ELSE 0]}

AggFuncToProto(f) ==
    Then(FuncKindToProto(f.kind), LAMBDA k : {[kind |-> k, quantile |-> f.q]})

ProtoToAggFunc(p) ==
    Present(p, LAMBDA f :
        Then(ProtoToFuncKind(f.kind), LAMBDA k : AggFuncFromKind(k, f.quantile)))

MeasureToProto(m) ==
    Then(Each(AggFuncToProto, m.funcs), LAMBDA fs : {[column |-> m.column, funcs |-> fs]})

ProtoToMeasure(p) ==
    Then(Each(ProtoToAggFunc, p.funcs), LAMBDA fs : {[column |-> p.column, funcs |-> fs]})

SpecToProto(s) ==
    Then(Each(MeasureToProto, s.measures), LAMBDA ms :
        {[groupBy |-> s.groupBy, measures |-> ms]})

ProtoToSpec(p) ==
    Present(p, LAMBDA s :
        Then(Each(ProtoToMeasure, s.measures), LAMBDA ms :
            {[groupBy |-> s.groupBy, measures |-> ms]}))

-----------------------------------------------------------------------------
(* Values and group states. *)

ValueToProto(v) ==
    Then(Encode(ValueKinds, v.type), LAMBDA k : {[kind |-> k, val |-> v.val]})

ProtoToValue(p) ==
    Present(p, LAMBDA v :
        Then(Decode(ValueKinds, v.kind), LAMBDA t : {[type |-> t, val |-> v.val]}))

\* Every field but the type is copied as it is.
MeasureStateToProto(m) ==
    Then(ColumnTypeToProto(m.colType), LAMBDA t : {[m EXCEPT !.colType = t]})

ProtoToMeasureState(p) ==
    Present(p, LAMBDA m :
        Then(ProtoToColumnType(m.colType), LAMBDA t : {[m EXCEPT !.colType = t]}))

GroupStateToProto(g) ==
    Then(Each(ValueToProto, g.key), LAMBDA key :
        Then(Each(MeasureStateToProto, g.measures), LAMBDA ms :
            {[key |-> key, count |-> g.count, measures |-> ms]}))

ProtoToGroupState(p) ==
    Present(p, LAMBDA g :
        Then(Each(ProtoToValue, g.key), LAMBDA key :
            Then(Each(ProtoToMeasureState, g.measures), LAMBDA ms :
                {[key |-> key, count |-> g.count, measures |-> ms]})))

GroupStatesToProto(gs) == Each(GroupStateToProto, gs)
ProtoToGroupStates(ps) == Each(ProtoToGroupState, ps)

-----------------------------------------------------------------------------
(* Results. *)

MeasureResultToProto(m) ==
    Then(AggFuncToProto(m.func), LAMBDA f :
        Then(ValueToProto(m.value), LAMBDA v :
            {[column |-> m.column, func |-> f, value |-> v]}))

ProtoToMeasureResult(p) ==
    Present(p, LAMBDA m :
        Then(ProtoToAggFunc(m.func), LAMBDA f :
            Then(ProtoToValue(m.value), LAMBDA v :
                {[column |-> m.column, func |-> f, value |-> v]})))

GroupResultToProto(g) ==
    Then(Each(ValueToProto, g.key), LAMBDA key :
        Then(Each(MeasureResultToProto, g.measures), LAMBDA ms :
            {[key |-> key, count |-> g.count, measures |-> ms]}))

ProtoToGroupResult(p) ==
    Present(p, LAMBDA g :
        Then(Each(ProtoToValue, g.key), LAMBDA key :
            Then(Each(ProtoToMeasureResult, g.measures), LAMBDA ms :
                {[key |-> key, count |-> g.count, measures |-> ms]})))

ResultToProto(r) ==
    Then(Each(GroupResultToProto, r.groups), LAMBDA gs : {[r EXCEPT !.groups = gs]})

ProtoToResult(p) ==
    Present(p, LAMBDA r :
        Then(Each(ProtoToGroupResult, r.groups), LAMBDA gs : {[r EXCEPT !.groups = gs]}))
=============================================================================
