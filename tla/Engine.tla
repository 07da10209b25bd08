------------------------------- MODULE Engine -------------------------------
(***************************************************************************)
(* An aggregator from the spec it is made for to the result it gives:      *)
(* names resolved against a schema, rows folded into groups, states        *)
(* exported and merged, groups finalised and sorted.                       *)
(*                                                                         *)
(* A value is [type, val].  A string's val is its rank in byte order, and  *)
(* the registers of a distinct count are the set of values seen.  How      *)
(* accumulators combine when numbers wrap, are NaN or share registers is   *)
(* the subject of Aggregation; percentiles are that of TDigest.            *)
(***************************************************************************)
EXTENDS Integers, FiniteSets, FiniteSetsExt, Sequences, SequencesExt, Fallible

CONSTANT NegZero    \* the float64 -0

Value(type, val) == [type |-> type, val |-> val]

-----------------------------------------------------------------------------
(* Specs against schemas. *)

ValidateDistributable(spec) ==
    \A m \in Range(spec.measures) : \A f \in Range(m.funcs) : f.kind # "percentile"

RequiresNumeric(f) == f.kind # "distinct"

\* Of several columns with one name the last is meant.
New(schema, spec) ==
    LET Named(name) == {i \in DOMAIN schema.columns : schema.columns[i].name = name}
        Index(name) == Max(Named(name))
        Type(name) == schema.columns[Index(name)].type
        valid ==
            /\ IsInjective(spec.groupBy)
            /\ \A name \in Range(spec.groupBy) : Named(name) # {}
            /\ \A m \in Range(spec.measures) :
                  /\ Named(m.column) # {}
                  /\ \A f \in Range(m.funcs) :
                        RequiresNumeric(f) => Type(m.column) \in {"int64", "float64"}
    IN If(valid,
          [columns |-> Len(schema.columns),
           spec |-> spec,
           groupByIdx   |-> [i \in DOMAIN spec.groupBy |-> Index(spec.groupBy[i])],
           groupByTypes |-> [i \in DOMAIN spec.groupBy |-> Type(spec.groupBy[i])],
           measureIdx   |-> [i \in DOMAIN spec.measures |-> Index(spec.measures[i].column)],
           measureTypes |-> [i \in DOMAIN spec.measures |-> Type(spec.measures[i].column)],
           distinct     |-> [i \in DOMAIN spec.measures |->
                               \E f \in Range(spec.measures[i].funcs) : f.kind = "distinct"],
           groups |-> <<>>])

-----------------------------------------------------------------------------
(* Accumulators.  Those of the two numeric types use fields of their own. *)

Field(type) == IF type = "int64" THEN "i64" ELSE "f64"
Zero == [sum |-> 0, min |-> 0, max |-> 0]

NewMeasure(type, distinct) ==
    [colType |-> type, i64 |-> Zero, f64 |-> Zero, haveMinMax |-> FALSE,
     hll |-> IF distinct THEN {} ELSE Nil]

AddValue(m, v) ==
    LET f == Field(m.colType)
        seen == [m EXCEPT !.hll = IF @ = Nil THEN Nil ELSE @ \cup {v}]
    IN IF m.colType = "string" THEN seen
       ELSE [seen EXCEPT ![f] = [sum |-> @.sum + v,
                                 min |-> IF m.haveMinMax THEN Min({@.min, v}) ELSE v,
                                 max |-> IF m.haveMinMax THEN Max({@.max, v}) ELSE v],
                         !.haveMinMax = TRUE]

MergeMeasure(a, b) ==
    LET f == Field(a.colType)
        x == IF a.haveMinMax THEN a[f] ELSE b[f]
        y == IF b.haveMinMax THEN b[f] ELSE a[f]
    IN [a EXCEPT ![f] = [sum |-> a[f].sum + b[f].sum,
                         min |-> Min({x.min, y.min}), max |-> Max({x.max, y.max})],
                 !.haveMinMax = a.haveMinMax \/ b.haveMinMax,
                 !.hll = IF @ = Nil THEN Nil ELSE @ \cup b.hll]

-----------------------------------------------------------------------------
(* Groups. *)

WithGroup(agg, key, g) == [agg EXCEPT !.groups = (key :> g) @@ @]

\* Add, for one row; a batch of another number of columns is refused.
Add(agg, row) ==
    LET key == [i \in DOMAIN agg.groupByIdx |-> row[agg.groupByIdx[i]]]
        g == IF key \in DOMAIN agg.groups THEN agg.groups[key]
             ELSE [count |-> 0,
                   measures |-> [i \in DOMAIN agg.measureIdx |->
                                    NewMeasure(agg.measureTypes[i], agg.distinct[i])]]
    IN If(Len(row) = agg.columns,
          WithGroup(agg, key,
             [count |-> g.count + 1,
              measures |-> [i \in DOMAIN g.measures |->
                              AddValue(g.measures[i], row[agg.measureIdx[i]].val)]]))

\* In an order of the hash table's own.
ExportState(agg) ==
    SetToSeq({[key |-> k, count |-> agg.groups[k].count, measures |-> agg.groups[k].measures] :
                k \in DOMAIN agg.groups})

\* stateToGroupAccum: the state has the shape of the aggregator's spec.
Fits(agg, s) ==
    /\ [i \in DOMAIN s.key |-> s.key[i].type] = agg.groupByTypes
    /\ [i \in DOMAIN s.measures |-> s.measures[i].colType] = agg.measureTypes
    /\ \A i \in DOMAIN s.measures : agg.distinct[i] = (s.measures[i].hll # Nil)

MergeState(agg, states) ==
    LET MergeOne(a, s) ==
            LET g == [count |-> s.count, measures |-> s.measures]
            IN WithGroup(a, s.key,
                 IF s.key \notin DOMAIN a.groups THEN g
                 ELSE [count |-> a.groups[s.key].count + g.count,
                       measures |-> [i \in DOMAIN g.measures |->
                          MergeMeasure(a.groups[s.key].measures[i], g.measures[i])]])
    IN If(ValidateDistributable(agg.spec) /\ \A s \in Range(states) : Fits(agg, s),
          FoldLeft(MergeOne, agg, states))

-----------------------------------------------------------------------------
(* Results. *)

\* An average is the fraction <<sum, count>>; an estimate is exact.
MeasureResultValue(m, count, fn) ==
    CASE fn.kind \in {"sum", "min", "max"} -> Value(m.colType, m[Field(m.colType)][fn.kind])
      [] fn.kind = "avg" -> Value("float64", <<m[Field(m.colType)].sum, count>>)
      [] fn.kind = "distinct" -> Value("int64", Cardinality(m.hll))

\* -0 and 0 are two groups, and compare as equal.
SortKey(v) == IF v.val = NegZero THEN 0 ELSE v.val

\* compareKeys(a, b) < 0
KeyLess(a, b) ==
    \E i \in DOMAIN a : /\ SortKey(a[i]) < SortKey(b[i])
                        /\ \A j \in 1 .. i - 1 : SortKey(a[j]) = SortKey(b[j])

NotAfter(g, h) == ~KeyLess(h.key, g.key)

GroupResult(agg, key) ==
    LET g == agg.groups[key]
        Of(i) == LET ms == agg.spec.measures[i]
                 IN [j \in DOMAIN ms.funcs |->
                       [column |-> ms.column, func |-> ms.funcs[j],
                        value |-> MeasureResultValue(g.measures[i], g.count, ms.funcs[j])]]
    IN [key |-> key, count |-> g.count,
        measures |-> FlattenSeq([i \in DOMAIN agg.spec.measures |-> Of(i)])]

\* Result may return any of these: the sort is not stable, and the table is seeded
\* at random.
Results(agg) ==
    {[groupByColumns |-> agg.spec.groupBy, groups |-> s] :
       s \in {s \in SetToSeqs({GroupResult(agg, k) : k \in DOMAIN agg.groups}) :
                IsSorted(s, NotAfter)}}
=============================================================================
