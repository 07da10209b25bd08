-------------------------- MODULE QueryPathProofs --------------------------
(***************************************************************************)
(* Proofs about QueryPath, for every text, file, schema and request: a     *)
(* text is understood as the grammar says, what goes over the wire arrives *)
(* as it was sent, and no worker refuses what its coordinator accepted.    *)
(***************************************************************************)
EXTENDS QueryPath, FiniteSetTheorems, WellFoundedInduction, TLAPS

-----------------------------------------------------------------------------
(* Over the wire and back. *)

\* What is absent is none of the messages that are sent, and no status code.
NilIsNoMessage ==
    /\ "InvalidArgument" # Nil
    /\ \A k, q : [kind |-> k, quantile |-> q] # Nil
    /\ \A g, m : [groupBy |-> g, measures |-> m] # Nil
    /\ \A c \in Cases : \A cols, h :
          [[c.schema EXCEPT !.columns = cols] EXCEPT !.hasHeader = h] # Nil

\* The values of the Go types that can be sent.
AFunc(f) == \E k \in DOMAIN FuncKinds : \E q :
                f = [kind |-> k, q |-> q] /\ (k # "percentile" => q = 0)
FuncsOf(fs) == fs = [i \in DOMAIN fs |-> fs[i]] /\ \A i \in DOMAIN fs : AFunc(fs[i])
AMeasure(m) == \E c, fs : m = [column |-> c, funcs |-> fs] /\ FuncsOf(fs)
MeasuresOf(ms) == ms = [i \in DOMAIN ms |-> ms[i]] /\ \A i \in DOMAIN ms : AMeasure(ms[i])
ASpec(s) == \E g, ms : s = [groupBy |-> g, measures |-> ms] /\ MeasuresOf(ms)

\* The messages they are sent as.
FuncMessage(f) == [kind |-> FuncKinds[f.kind], quantile |-> f.q]
MeasureMessage(m) ==
    [column |-> m.column, funcs |-> [i \in DOMAIN m.funcs |-> FuncMessage(m.funcs[i])]]
SpecMessage(s) ==
    [groupBy |-> s.groupBy,
     measures |-> [i \in DOMAIN s.measures |-> MeasureMessage(s.measures[i])]]

\* A word of a table is read as what it stands for.
LEMMA WordTrips ==
    ASSUME NEW table, NEW v \in DOMAIN table,
           \A u, w \in DOMAIN table : table[u] = table[w] => u = w
    PROVE  Encode(table, v) = {table[v]} /\ Decode(table, table[v]) = {v}
<1>1. table[v] \in Range(table)
  BY DEF Range
<1>2. (CHOOSE u \in DOMAIN table : table[u] = table[v]) = v
  OBVIOUS
<1>. QED
  BY <1>1, <1>2 DEF Encode, Decode, If

\* No two functions have one word, and no two types.
LEMMA WordsDiffer ==
    /\ \A u, w \in DOMAIN FuncKinds : FuncKinds[u] = FuncKinds[w] => u = w
    /\ \A u, w \in DOMAIN ColumnTypes : ColumnTypes[u] = ColumnTypes[w] => u = w
    /\ \A u, w \in DOMAIN ColumnKinds : ColumnKinds[u] = ColumnKinds[w] => u = w
    /\ \A u, w \in DOMAIN OnErrors : OnErrors[u] = OnErrors[w] => u = w
<1>1. \A u, w \in DOMAIN FuncKinds : FuncKinds[u] = FuncKinds[w] => u = w
  BY DEF FuncKinds
<1>2. \A u, w \in DOMAIN ColumnTypes : ColumnTypes[u] = ColumnTypes[w] => u = w
  BY DEF ColumnTypes
<1>3. \A u, w \in DOMAIN ColumnKinds : ColumnKinds[u] = ColumnKinds[w] => u = w
  BY DEF ColumnKinds
<1>4. \A u, w \in DOMAIN OnErrors : OnErrors[u] = OnErrors[w] => u = w
  BY DEF OnErrors
<1>. QED
  BY <1>1, <1>2, <1>3, <1>4

\* What follows a result is what follows its value.
LEMMA FuncTrips ==
    ASSUME NilIsNoMessage, NEW f, AFunc(f)
    PROVE  AggFuncToProto(f) = {FuncMessage(f)} /\ ProtoToAggFunc(FuncMessage(f)) = {f}
<1>1. PICK k, q : k \in DOMAIN FuncKinds /\ f = [kind |-> k, q |-> q] /\ (k # "percentile" => q = 0)
  BY DEF AFunc
<1>. DEFINE w == FuncKinds[k]
<1>2. FuncKindToProto(k) = {w} /\ ProtoToFuncKind(w) = {k}
  BY <1>1, WordTrips, WordsDiffer DEF FuncKindToProto, ProtoToFuncKind
<1>3. FuncMessage(f) = [kind |-> w, quantile |-> q] /\ f.kind = k /\ f.q = q
  BY <1>1 DEF FuncMessage
<1>. HIDE DEF w
<1>4. AggFuncToProto(f) = {FuncMessage(f)}
  BY <1>2, <1>3 DEF AggFuncToProto, Then
<1>5. AggFuncFromKind(k, q) = {f}
  BY <1>1 DEF AggFuncFromKind
<1>6. ProtoToAggFunc(FuncMessage(f)) = {f}
  <2>1. [kind |-> w, quantile |-> q] # Nil
    BY DEF NilIsNoMessage
  <2>2. ProtoToAggFunc([kind |-> w, quantile |-> q])
           = UNION {AggFuncFromKind(x, q) : x \in ProtoToFuncKind(w)}
    BY <2>1 DEF ProtoToAggFunc, Present, Then
  <2>. QED
    BY <1>2, <1>3, <1>5, <2>2
<1>. QED
  BY <1>4, <1>6

\* There is nothing else to choose.
LEMMA OneToChoose == \A a : (CHOOSE x \in {a} : TRUE) = a
OBVIOUS

\* The functions of a measure.
LEMMA FuncsTrip ==
    ASSUME NilIsNoMessage, NEW fs, FuncsOf(fs),
           NEW ps, ps = [i \in DOMAIN fs |-> FuncMessage(fs[i])]
    PROVE  Each(AggFuncToProto, fs) = {ps} /\ Each(ProtoToAggFunc, ps) = {fs}
<1>1. DOMAIN ps = DOMAIN fs /\ \A i \in DOMAIN fs : ps[i] = FuncMessage(fs[i])
  OBVIOUS
<1>2. \A i \in DOMAIN fs : AFunc(fs[i])
  BY DEF FuncsOf
<1>3. \A i \in DOMAIN fs : AggFuncToProto(fs[i]) = {ps[i]} /\ ProtoToAggFunc(ps[i]) = {fs[i]}
  BY <1>1, <1>2, FuncTrips
<1>4. \A i \in DOMAIN fs : /\ (CHOOSE x \in AggFuncToProto(fs[i]) : TRUE) = ps[i]
                           /\ (CHOOSE x \in ProtoToAggFunc(ps[i]) : TRUE) = fs[i]
  BY <1>3, OneToChoose
<1>5. Each(AggFuncToProto, fs) = {[i \in DOMAIN fs |-> CHOOSE x \in AggFuncToProto(fs[i]) : TRUE]}
  BY <1>3 DEF Each
<1>6. Each(ProtoToAggFunc, ps) = {[i \in DOMAIN ps |-> CHOOSE x \in ProtoToAggFunc(ps[i]) : TRUE]}
  BY <1>1, <1>3 DEF Each
<1>7. [i \in DOMAIN fs |-> CHOOSE x \in AggFuncToProto(fs[i]) : TRUE] = ps
  BY <1>4
<1>8. [i \in DOMAIN ps |-> CHOOSE x \in ProtoToAggFunc(ps[i]) : TRUE] = [i \in DOMAIN fs |-> fs[i]]
  BY <1>1, <1>4
<1>. QED
  BY <1>5, <1>6, <1>7, <1>8 DEF FuncsOf

\* A measure.
LEMMA MeasureTrips ==
    ASSUME NilIsNoMessage, NEW m, AMeasure(m)
    PROVE  MeasureToProto(m) = {MeasureMessage(m)} /\ ProtoToMeasure(MeasureMessage(m)) = {m}
<1>1. PICK c, fs : m = [column |-> c, funcs |-> fs] /\ FuncsOf(fs)
  BY DEF AMeasure
<1>. DEFINE ps == [i \in DOMAIN fs |-> FuncMessage(fs[i])]
<1>2. Each(AggFuncToProto, fs) = {ps} /\ Each(ProtoToAggFunc, ps) = {fs}
  BY <1>1, FuncsTrip
<1>3. MeasureMessage(m) = [column |-> c, funcs |-> ps] /\ m.column = c /\ m.funcs = fs
  BY <1>1 DEF MeasureMessage
<1>. HIDE DEF ps
<1>4. MeasureToProto(m) = {MeasureMessage(m)}
  BY <1>2, <1>3 DEF MeasureToProto, Then
<1>5. ProtoToMeasure([column |-> c, funcs |-> ps]) = {[column |-> c, funcs |-> fs]}
  BY <1>2 DEF ProtoToMeasure, Then
<1>. QED
  BY <1>1, <1>3, <1>4, <1>5

\* The measures of a spec.
LEMMA MeasuresTrip ==
    ASSUME NilIsNoMessage, NEW ms, MeasuresOf(ms),
           NEW ps, ps = [i \in DOMAIN ms |-> MeasureMessage(ms[i])]
    PROVE  Each(MeasureToProto, ms) = {ps} /\ Each(ProtoToMeasure, ps) = {ms}
<1>1. DOMAIN ps = DOMAIN ms /\ \A i \in DOMAIN ms : ps[i] = MeasureMessage(ms[i])
  OBVIOUS
<1>2. \A i \in DOMAIN ms : AMeasure(ms[i])
  BY DEF MeasuresOf
<1>3. \A i \in DOMAIN ms : MeasureToProto(ms[i]) = {ps[i]} /\ ProtoToMeasure(ps[i]) = {ms[i]}
  BY <1>1, <1>2, MeasureTrips
<1>4. \A i \in DOMAIN ms : /\ (CHOOSE x \in MeasureToProto(ms[i]) : TRUE) = ps[i]
                           /\ (CHOOSE x \in ProtoToMeasure(ps[i]) : TRUE) = ms[i]
  BY <1>3, OneToChoose
<1>5. Each(MeasureToProto, ms) = {[i \in DOMAIN ms |-> CHOOSE x \in MeasureToProto(ms[i]) : TRUE]}
  BY <1>3 DEF Each
<1>6. Each(ProtoToMeasure, ps) = {[i \in DOMAIN ps |-> CHOOSE x \in ProtoToMeasure(ps[i]) : TRUE]}
  BY <1>1, <1>3 DEF Each
<1>7. [i \in DOMAIN ms |-> CHOOSE x \in MeasureToProto(ms[i]) : TRUE] = ps
  BY <1>4
<1>8. [i \in DOMAIN ps |-> CHOOSE x \in ProtoToMeasure(ps[i]) : TRUE] = [i \in DOMAIN ms |-> ms[i]]
  BY <1>1, <1>4
<1>. QED
  BY <1>5, <1>6, <1>7, <1>8 DEF MeasuresOf

\* A spec arrives as it was sent: specToProto never fails on one, and protoToSpec gives
\* it back (convert.go).
THEOREM SpecTrips ==
    ASSUME NilIsNoMessage, NEW s, ASpec(s)
    PROVE  SpecToProto(s) = {SpecMessage(s)} /\ ProtoToSpec(SpecMessage(s)) = {s}
<1>1. PICK g, ms : s = [groupBy |-> g, measures |-> ms] /\ MeasuresOf(ms)
  BY DEF ASpec
<1>. DEFINE ps == [i \in DOMAIN ms |-> MeasureMessage(ms[i])]
<1>2. Each(MeasureToProto, ms) = {ps} /\ Each(ProtoToMeasure, ps) = {ms}
  BY <1>1, MeasuresTrip
<1>3. SpecMessage(s) = [groupBy |-> g, measures |-> ps] /\ s.groupBy = g /\ s.measures = ms
  BY <1>1 DEF SpecMessage
<1>. HIDE DEF ps
<1>4. SpecToProto(s) = {SpecMessage(s)}
  BY <1>2, <1>3 DEF SpecToProto, Then
<1>5. [groupBy |-> g, measures |-> ps] # Nil
  BY DEF NilIsNoMessage
<1>6. ProtoToSpec([groupBy |-> g, measures |-> ps]) = {[groupBy |-> g, measures |-> ms]}
  BY <1>2, <1>5 DEF ProtoToSpec, Present, Then
<1>. QED
  BY <1>1, <1>3, <1>4, <1>6

\* Whatever protoToSpec is given, what it accepts is a spec.
LEMMA ReadSpecIs ==
    ASSUME NEW p, NEW s \in ProtoToSpec(p)
    PROVE  ASpec(s)
<1>1. ASSUME NEW f, NEW x \in ProtoToAggFunc(f)
      PROVE  AFunc(x)
  <2>1. PICK k \in ProtoToFuncKind(f.kind) : x \in AggFuncFromKind(k, f.quantile)
    BY <1>1 DEF ProtoToAggFunc, Present, Then
  <2>2. k \in DOMAIN FuncKinds
    <3>1. k \in Decode(FuncKinds, f.kind)
      BY <2>1 DEF ProtoToFuncKind
    <3>2. f.kind \in Range(FuncKinds) /\ k = CHOOSE v \in DOMAIN FuncKinds : FuncKinds[v] = f.kind
      BY <3>1 DEF Decode, If
    <3>. QED
      BY <3>2 DEF Range
  <2>3. x = [kind |-> k, q |-> IF k = "percentile" THEN f.quantile ELSE 0]
    BY <2>1 DEF AggFuncFromKind
  <2>. QED
    BY <2>2, <2>3 DEF AFunc
<1>2. ASSUME NEW m, NEW x \in ProtoToMeasure(m)
      PROVE  AMeasure(x)
  <2>1. PICK fs \in Each(ProtoToAggFunc, m.funcs) : x = [column |-> m.column, funcs |-> fs]
    BY <1>2 DEF ProtoToMeasure, Then
  <2>2. /\ fs = [i \in DOMAIN m.funcs |-> CHOOSE y \in ProtoToAggFunc(m.funcs[i]) : TRUE]
        /\ \A i \in DOMAIN m.funcs : ProtoToAggFunc(m.funcs[i]) # {}
    BY <2>1 DEF Each
  <2>3. \A i \in DOMAIN fs : fs[i] \in ProtoToAggFunc(m.funcs[i])
    BY <2>2
  <2>4. FuncsOf(fs)
    BY <1>1, <2>2, <2>3 DEF FuncsOf
  <2>. QED
    BY <2>1, <2>4 DEF AMeasure
<1>3. PICK ms \in Each(ProtoToMeasure, p.measures) : s = [groupBy |-> p.groupBy, measures |-> ms]
  BY DEF ProtoToSpec, Present, Then
<1>4. /\ ms = [i \in DOMAIN p.measures |-> CHOOSE y \in ProtoToMeasure(p.measures[i]) : TRUE]
      /\ \A i \in DOMAIN p.measures : ProtoToMeasure(p.measures[i]) # {}
  BY <1>3 DEF Each
<1>5. \A i \in DOMAIN ms : ms[i] \in ProtoToMeasure(p.measures[i])
  BY <1>4
<1>6. MeasuresOf(ms)
  BY <1>2, <1>4, <1>5 DEF MeasuresOf
<1>. QED
  BY <1>3, <1>6 DEF ASpec

-----------------------------------------------------------------------------
(* What the coordinator accepts, its workers accept. *)

\* Both find the columns a spec names in the same places.
SameColumns(x, y) ==
    /\ DOMAIN x.columns = DOMAIN y.columns
    /\ \A i \in DOMAIN y.columns : /\ x.columns[i].name = y.columns[i].name
                                   /\ x.columns[i].type = y.columns[i].type

\* A column type is read as the type it was sent for, and so is a kind.
LEMMA ColumnTrips ==
    ASSUME NEW c, NEW p \in ColumnToProto(c)
    PROVE  \E d : /\ ProtoToColumn(p) = {d}
                  /\ d.name = c.name /\ d.type = c.type
<1>1. PICK t \in ColumnTypeToProto(c.type), k \in ColumnKindToProto(c.kind) :
         p = [name |-> c.name, type |-> t, kind |-> k]
  BY DEF ColumnToProto, Then
<1>2. c.type \in DOMAIN ColumnTypes /\ t = ColumnTypes[c.type]
  BY <1>1 DEF ColumnTypeToProto, Encode, If
<1>3. c.kind \in DOMAIN ColumnKinds /\ k = ColumnKinds[c.kind]
  BY <1>1 DEF ColumnKindToProto, Encode, If
<1>4. ProtoToColumnType(t) = {c.type}
  BY <1>2, WordTrips, WordsDiffer DEF ProtoToColumnType
<1>5. ProtoToColumnKind(k) = {c.kind}
  BY <1>3, WordTrips, WordsDiffer DEF ProtoToColumnKind
<1>. DEFINE d == [name |-> c.name, type |-> c.type, kind |-> c.kind]
<1>6. ProtoToColumn(p) = UNION {UNION {{[name |-> c.name, type |-> u, kind |-> v]} :
                                          v \in ProtoToColumnKind(k)} : u \in ProtoToColumnType(t)}
  BY <1>1 DEF ProtoToColumn, Then
<1>7. ProtoToColumn(p) = {d}
  BY <1>4, <1>5, <1>6
<1>8. d.name = c.name /\ d.type = c.type
  OBVIOUS
<1>. HIDE DEF d
<1>. QED
  BY <1>7, <1>8

\* A worker gets the columns of the coordinator's schema, and the header flag of its shard.
LEMMA SchemaTrips ==
    ASSUME NilIsNoMessage, NEW c \in Cases, NEW p \in SchemaToProto(c.schema), NEW h
    PROVE  \E d : /\ ProtoToSchema([p EXCEPT !.hasHeader = h]) = {d}
                  /\ d.hasHeader = h /\ d.delimiter = c.schema.delimiter
                  /\ SameColumns(d, c.schema)
<1>. DEFINE s == c.schema
            cs == s.columns
<1>1. s \in [columns : Seq([name : Seq(STRING), type : STRING, kind : STRING]),
             hasHeader : BOOLEAN, delimiter : 0 .. 255]
  BY QueryPathAssumption
<1>2. PICK ps \in Each(ColumnToProto, cs) : p = [s EXCEPT !.columns = ps]
  BY DEF SchemaToProto, Then
<1>3. /\ ps = [i \in DOMAIN cs |-> CHOOSE y \in ColumnToProto(cs[i]) : TRUE]
      /\ \A i \in DOMAIN cs : ColumnToProto(cs[i]) # {}
  BY <1>2 DEF Each
<1>4. DOMAIN ps = DOMAIN cs /\ \A i \in DOMAIN cs : ps[i] \in ColumnToProto(cs[i])
  BY <1>3
<1>5. \A i \in DOMAIN cs : \E d : /\ ProtoToColumn(ps[i]) = {d}
                                  /\ d.name = cs[i].name /\ d.type = cs[i].type
  BY <1>4, ColumnTrips
<1>. DEFINE ds == [i \in DOMAIN ps |-> CHOOSE y \in ProtoToColumn(ps[i]) : TRUE]
<1>6. \A i \in DOMAIN cs : ds[i].name = cs[i].name /\ ds[i].type = cs[i].type
  BY <1>4, <1>5, OneToChoose
<1>7. \A i \in DOMAIN ps : ProtoToColumn(ps[i]) # {}
  BY <1>4, <1>5
<1>8. Each(ProtoToColumn, ps) = {ds}
  BY <1>7 DEF Each
<1>9. DOMAIN ds = DOMAIN cs
  BY <1>4
<1>. DEFINE m == [p EXCEPT !.hasHeader = h]
            d == [m EXCEPT !.columns = ds, !.delimiter = @ % 256]
<1>. HIDE DEF ds
<1>10. m # Nil
  BY <1>2 DEF NilIsNoMessage
<1>11. m.columns = ps /\ m.hasHeader = h /\ m.delimiter = s.delimiter
       /\ DOMAIN m = {"columns", "hasHeader", "delimiter"}
  BY <1>1, <1>2
<1>. HIDE DEF m, s, cs
<1>12. ProtoToSchema(m) = {d}
  BY <1>8, <1>10, <1>11, ZenonT(30) DEF ProtoToSchema, Present, Then
<1>13. d.columns = ds /\ d.hasHeader = h /\ d.delimiter = s.delimiter % 256
  BY <1>11
<1>14. s.delimiter % 256 = s.delimiter
  <2>1. s.delimiter \in 0 .. 255
    BY QueryPathAssumption DEF s
  <2>2. \A k \in 0 .. 255 : k % 256 = k
    OBVIOUS
  <2>. QED
    BY <2>1, <2>2
<1>15. SameColumns(d, s)
  BY <1>6, <1>9, <1>13 DEF SameColumns, cs
<1>. HIDE DEF d
<1>. QED
  BY <1>12, <1>13, <1>14, <1>15 DEF m, s

\* A set of positions has a last one.
LEMMA LastPlace ==
    ASSUME NEW n \in Nat, NEW S \in SUBSET (1 .. n), S # {}
    PROVE  Max(S) \in S
<1>. DEFINE T == {n - x : x \in S}
<1>1. T \subseteq Nat /\ T # {}
  <2>1. \A x \in 1 .. n : n - x \in Nat
    OBVIOUS
  <2>2. T \subseteq Nat
    BY <2>1
  <2>. QED
    BY <2>2
<1>. DEFINE R == {p \in Nat \X Nat : p[1] < p[2]}
<1>2. IsWellFoundedOn(R, Nat)
  BY NatLessThanWellFounded DEF OpToRel
<1>3. PICK t \in T : \A u \in T : <<u, t>> \notin R
  <2>. HIDE DEF R, T
  <2>. QED
    BY <1>1, <1>2, WFMin
<1>4. PICK x \in S : t = n - x
  OBVIOUS
<1>5. ASSUME NEW y \in S
      PROVE  x >= y
  <2>1. n - y \in T /\ n - y \in Nat /\ n - x \in Nat /\ x \in Int /\ y \in Int
    OBVIOUS
  <2>2. ~(n - y < n - x)
    BY <1>3, <1>4, <2>1
  <2>. QED
    BY <2>1, <2>2
<1>. HIDE DEF T, R
<1>. QED
  BY <1>4, <1>5 DEF Max

\* New looks at nothing but the names and the types.
LEMMA SameNew ==
    ASSUME NEW c \in Cases, NEW d, SameColumns(d, c.schema), NEW asked, New(c.schema, asked) # {}
    PROVE  New(d, asked) # {}
<1>. DEFINE s == c.schema
            Named(x, name) == {i \in DOMAIN x.columns : x.columns[i].name = name}
            Type(x, name) == x.columns[Max(Named(x, name))].type
            Valid(x) == /\ IsInjective(asked.groupBy)
                        /\ \A name \in Range(asked.groupBy) : Named(x, name) # {}
                        /\ \A m \in Range(asked.measures) :
                              /\ Named(x, m.column) # {}
                              /\ \A f \in Range(m.funcs) :
                                    RequiresNumeric(f) => Type(x, m.column) \in {"int64", "float64"}
<1>1. \A x : New(x, asked) # {} <=> Valid(x)
  BY DEF New, If
<1>2. ASSUME NEW name
      PROVE  Named(d, name) = Named(s, name) /\ (Named(s, name) # {} => Type(d, name) = Type(s, name))
  <2>1. s.columns \in Seq([name : Seq(STRING), type : STRING, kind : STRING])
    BY QueryPathAssumption
  <2>2. Len(s.columns) \in Nat /\ DOMAIN s.columns = 1 .. Len(s.columns)
    BY <2>1
  <2>3. Named(d, name) = Named(s, name)
    BY DEF SameColumns
  <2>4. Named(s, name) # {} => Max(Named(s, name)) \in Named(s, name)
    <3>1. Named(s, name) \in SUBSET (1 .. Len(s.columns))
      BY <2>2
    <3>. HIDE DEF Named
    <3>. QED
      BY <2>2, <3>1, LastPlace
  <2>. QED
    BY <2>3, <2>4 DEF SameColumns
<1>3. Valid(s)
  BY <1>1
<1>. HIDE DEF Named, Type
<1>4. Valid(d)
  BY <1>2, <1>3
<1>. QED
  BY <1>1, <1>4

\* The coordinator has accepted the spec: it is valid for the schema, and has no percentile.
Accepted ==
    ASpec(spec) /\ ValidateDistributable(spec) /\ New(case.schema, spec) # {}

\* The worker decodes what its coordinator has encoded, and makes an aggregator of it.
LEMMA NotRefused ==
    ASSUME NilIsNoMessage, case \in Cases, Accepted,
           NEW shard, NEW req \in ShardRequest(shard), NEW r \in RunShard(req)
    PROVE  r.code # "InvalidArgument"
<1>1. PICK onError \in OnErrorToProto(case.onError), pbSpec \in SpecToProto(spec),
           pbSchema \in SchemaToProto(case.schema) :
         req = [schema |-> [pbSchema EXCEPT !.hasHeader = shard.skipHeader],
                spec |-> pbSpec, onError |-> onError, lines |-> shard.lines]
  BY DEF ShardRequest, Then
<1>2. /\ req.schema = [pbSchema EXCEPT !.hasHeader = shard.skipHeader]
      /\ req.spec = pbSpec /\ req.onError = onError
  BY <1>1
<1>3. PICK d : ProtoToSchema(req.schema) = {d} /\ SameColumns(d, case.schema)
  BY <1>1, <1>2, SchemaTrips
<1>4. ProtoToSpec(req.spec) = {spec}
  BY <1>1, <1>2, SpecTrips DEF Accepted
<1>5. \E p : ProtoToOnError(req.onError) = {p}
  <2>1. case.onError \in {"skip", "fail"}
    BY QueryPathAssumption
  <2>2. OnErrorToProto(case.onError) = {OnErrors[case.onError]}
        /\ Decode(OnErrors, OnErrors[case.onError]) = {case.onError}
    <3>1. case.onError \in DOMAIN OnErrors
      BY <2>1 DEF OnErrors
    <3>. QED
      BY <3>1, WordTrips, WordsDiffer DEF OnErrorToProto
  <2>3. onError = OnErrors[case.onError]
    BY <1>1, <2>2
  <2>4. OnErrors[case.onError] # ""
    <3>1. OnErrors["skip"] = "skip" /\ OnErrors["fail"] = "fail"
      BY DEF OnErrors
    <3>. QED
      BY <2>1, <3>1
  <2>. QED
    BY <1>2, <2>2, <2>3, <2>4 DEF ProtoToOnError
<1>6. New(d, spec) # {}
  BY <1>3, SameNew DEF Accepted
<1>. DEFINE decoded ==
              Then(ProtoToSchema(req.schema), LAMBDA schema :
                Then(ProtoToSpec(req.spec), LAMBDA s :
                    IF ~ValidateDistributable(s) THEN {}
                    ELSE Then(ProtoToOnError(req.onError), LAMBDA onErr :
                             Then(New(schema, s), LAMBDA a :
                                 {[agg |-> a, schema |-> schema, onError |-> onErr]}))))
<1>7. decoded # {}
  <2>1. PICK p : ProtoToOnError(req.onError) = {p}
    BY <1>5
  <2>2. PICK a : a \in New(d, spec)
    BY <1>6
  <2>3. [agg |-> a, schema |-> d, onError |-> p] \in decoded
    BY <1>3, <1>4, <2>1, <2>2 DEF Then, Accepted
  <2>. QED
    BY <2>3
<1>8. r.code \in {"OK", "Internal"}
  <2>1. \/ r = Failed("Internal")
        \/ \E x : r = [code |-> "OK", result |-> x]
    BY <1>7 DEF RunShard, Then, If
  <2>. QED
    BY <2>1 DEF Failed
<1>. QED
  BY <1>8

-----------------------------------------------------------------------------
(* The invariant. *)

\* From the moment a request is accepted, until the asker is answered.
IInv ==
    /\ case \in Cases
    /\ pc \in {"discover", "plan", "dispatch", "calls", "merge", "print"} => Accepted
    /\ firstErr # "InvalidArgument"


\* Checked passes a spec on or refuses it.
LEMMA CheckedIs ==
    ASSUME NEW x, NEW s \in Checked(x)
    PROVE  s = x /\ ValidateDistributable(x) /\ New(case.schema, x) # {}
BY DEF Checked, Then, If

\* A function a name parses to is one that can be sent.
LEMMA ParsedFuncIs ==
    ASSUME NEW name, NEW f \in ParseAggFunc(name)
    PROVE  AFunc(f)
<1>. DEFINE lower == Fold(Trim(name))
<1>1. ParseAggFunc(name) =
        CASE lower = <<>> -> {}
          [] Len(lower) = 1 /\ lower[1] \in Plain -> {AggFunc(lower[1], 0)}
          [] Len(lower) > 1 /\ lower[1] = "p" ->
               UNION {If(q = NaN \/ (q > 0 /\ q < 100 * Percent), AggFunc("percentile", q)) :
                        q \in ParseFloat(Tail(lower))}
          [] OTHER -> {}
  BY DEF ParseAggFunc, Then
<1>. HIDE DEF lower
<1>2. \/ lower[1] \in Plain /\ f = AggFunc(lower[1], 0)
      \/ \E q : f = AggFunc("percentile", q)
  <2>1. CASE lower = <<>>
    BY <1>1, <2>1
  <2>2. CASE lower # <<>> /\ Len(lower) = 1 /\ lower[1] \in Plain
    <3>1. f \in {AggFunc(lower[1], 0)} \/ f \in UNION {If(q = NaN \/ (q > 0 /\ q < 100 * Percent), AggFunc("percentile", q)) :
                        q \in ParseFloat(Tail(lower))}
      BY <1>1, <2>2
    <3>. QED
      BY <2>2, <3>1 DEF If
  <2>3. CASE lower # <<>> /\ ~(Len(lower) = 1 /\ lower[1] \in Plain)
    <3>1. f \in UNION {If(q = NaN \/ (q > 0 /\ q < 100 * Percent), AggFunc("percentile", q)) :
                        q \in ParseFloat(Tail(lower))}
      BY <1>1, <2>3
    <3>. QED
      BY <3>1 DEF If
  <2>. QED
    BY <2>1, <2>2, <2>3
<1>3. \A k \in Plain : k \in DOMAIN FuncKinds
  BY DEF Plain, FuncKinds
<1>4. "percentile" \in DOMAIN FuncKinds
  BY DEF FuncKinds
<1>. QED
  BY <1>2, <1>3, <1>4 DEF AFunc, AggFunc

\* What the flags of the one-shot coordinator ask for is a spec.
LEMMA FlagSpecIs ==
    ASSUME NEW flags, NEW s \in FlagSpec(flags)
    PROVE  ASpec(s)
<1>1. ASSUME NEW m, NEW x \in MeasureFlag(m)
      PROVE  AMeasure(x)
  <2>1. PICK fs \in Each(ParseAggFunc, m.funcs) : x = [column |-> m.column, funcs |-> fs]
    BY <1>1 DEF MeasureFlag, Then
  <2>2. /\ fs = [i \in DOMAIN m.funcs |-> CHOOSE y \in ParseAggFunc(m.funcs[i]) : TRUE]
        /\ \A i \in DOMAIN m.funcs : ParseAggFunc(m.funcs[i]) # {}
    BY <2>1 DEF Each
  <2>3. \A i \in DOMAIN fs : fs[i] \in ParseAggFunc(m.funcs[i])
    BY <2>2
  <2>4. FuncsOf(fs)
    BY <2>2, <2>3, ParsedFuncIs DEF FuncsOf
  <2>. QED
    BY <2>1, <2>4 DEF AMeasure
<1>2. PICK ms \in Each(MeasureFlag, flags.measures) : s = [groupBy |-> flags.groupBy, measures |-> ms]
  BY DEF FlagSpec, Then
<1>3. /\ ms = [i \in DOMAIN flags.measures |-> CHOOSE y \in MeasureFlag(flags.measures[i]) : TRUE]
      /\ \A i \in DOMAIN flags.measures : MeasureFlag(flags.measures[i]) # {}
  BY <1>2 DEF Each
<1>4. \A i \in DOMAIN ms : ms[i] \in MeasureFlag(flags.measures[i])
  BY <1>3
<1>5. MeasuresOf(ms)
  BY <1>1, <1>3, <1>4 DEF MeasuresOf
<1>. QED
  BY <1>2, <1>5 DEF ASpec

\* A request is accepted, or the query is over.
LEMMA AcceptingIs ==
    ASSUME IInv, AskText \/ AskMessage \/ AskFlags \/ Query
    PROVE  IInv'
<1>1. case' = case /\ firstErr' = firstErr
  BY DEF AskText, AskMessage, AskFlags, Query, called
<1>2. CASE pc' \notin {"discover", "plan", "dispatch", "calls", "merge", "print"}
  BY <1>1, <1>2 DEF IInv
<1>3. CASE AskText \/ AskMessage
  <2>1. pc' \in {"query", "end"}
    BY <1>3 DEF AskText, AskMessage, Finish
  <2>. QED
    BY <1>2, <2>1
<1>4. CASE AskFlags
  <2>1. pc' = "end" \/ spec' \in Then(FlagSpec(case.ask), Checked)
    BY <1>4 DEF AskFlags, Finish
  <2>2. CASE spec' \in Then(FlagSpec(case.ask), Checked)
    <3>1. PICK s \in FlagSpec(case.ask) : spec' \in Checked(s)
      BY <2>2 DEF Then
    <3>2. ASpec(spec') /\ ValidateDistributable(spec') /\ New(case.schema, spec') # {}
      BY <3>1, CheckedIs, FlagSpecIs
    <3>3. Accepted'
      BY <1>1, <3>2 DEF Accepted
    <3>. QED
      BY <1>1, <3>3 DEF IInv
  <2>. QED
    BY <1>2, <2>1, <2>2
<1>5. CASE Query
  <2>1. pc' = "end" \/ spec' \in Then(ProtoToSpec(msg), Checked)
    BY <1>5 DEF Query, Finish
  <2>2. CASE spec' \in Then(ProtoToSpec(msg), Checked)
    <3>1. PICK s \in ProtoToSpec(msg) : spec' \in Checked(s)
      BY <2>2 DEF Then
    <3>2. ASpec(spec') /\ ValidateDistributable(spec') /\ New(case.schema, spec') # {}
      BY <3>1, CheckedIs, ReadSpecIs
    <3>3. Accepted'
      BY <1>1, <3>2 DEF Accepted
    <3>. QED
      BY <1>1, <3>3 DEF IInv
  <2>. QED
    BY <1>2, <2>1, <2>2
<1>. QED
  BY <1>3, <1>4, <1>5

\* A call that ends: refused by nobody.
LEMMA CallsAre ==
    ASSUME NilIsNoMessage, IInv, NEW i \in DOMAIN shards, Call(i) \/ CallLost(i) \/ CallCanceled(i)
    PROVE  IInv'
<1>1. case' = case /\ pc' = pc /\ spec' = spec /\ pc = "calls" /\ Accepted /\ case \in Cases
  BY DEF Call, CallLost, CallCanceled, IInv
<1>2. Accepted'
  BY <1>1 DEF Accepted
<1>3. firstErr' # "InvalidArgument"
  <2>1. CASE CallLost(i) \/ CallCanceled(i)
    BY <2>1 DEF CallLost, CallCanceled, Fail, IInv
  <2>2. CASE Call(i)
    <3>. DEFINE sent == ShardRequest(shards[i])
                answer == IF sent = {} THEN {Failed("Unsendable")} ELSE Then(sent, RunShard)
    <3>1. PICK r \in answer : firstErr' = firstErr \/ Fail(r.code)
      BY <2>2 DEF Call
    <3>2. r.code # "InvalidArgument"
      <4>1. CASE sent = {}
        BY <3>1, <4>1 DEF Failed
      <4>2. CASE sent # {}
        <5>1. PICK req \in sent : r \in RunShard(req)
          BY <3>1, <4>2 DEF Then
        <5>. QED
          BY <1>1, <5>1, NotRefused
      <4>. QED
        BY <4>1, <4>2
    <3>. QED
      BY <3>1, <3>2 DEF Fail, IInv
  <2>. QED
    BY <2>1, <2>2
<1>. QED
  BY <1>1, <1>2, <1>3 DEF IInv

\* The other steps decide nothing about the request.
LEMMA OthersAre ==
    ASSUME IInv, Discover \/ PlanShards \/ Dispatch \/ Gather \/ MergeShard \/ Respond \/ PrintReply
                 \/ UNCHANGED vars
    PROVE  IInv'
<1>1. case' = case /\ spec' = spec /\ firstErr' = firstErr
  BY DEF Discover, PlanShards, Dispatch, Gather, MergeShard, Respond, PrintReply, vars, called
<1>2. pc' \in {"discover", "plan", "dispatch", "calls", "merge", "print"}
        => pc \in {"discover", "plan", "dispatch", "calls", "merge", "print"}
  BY DEF Discover, PlanShards, Dispatch, Gather, MergeShard, Respond, PrintReply, vars
<1>3. Accepted' <=> Accepted
  BY <1>1 DEF Accepted
<1>. QED
  BY <1>1, <1>2, <1>3 DEF IInv

\* However the calls of a query end, the invariant holds.
THEOREM Invariance == NilIsNoMessage => (Spec => []IInv)
<1>. SUFFICES ASSUME NilIsNoMessage PROVE Spec => []IInv
  OBVIOUS
<1>1. Init => IInv
  <2>1. Init => pc = "ask" /\ case \in Cases /\ firstErr = Nil
    BY DEF Init
  <2>. QED
    BY <2>1 DEF IInv, NilIsNoMessage
<1>2. IInv /\ [Next]_vars => IInv'
  <2>. SUFFICES ASSUME IInv, [Next]_vars PROVE IInv'
    OBVIOUS
  <2>. QED
    BY AcceptingIs, CallsAre, OthersAre DEF Next, Ended
<1>. QED
  BY <1>1, <1>2, PTL DEF Spec

-----------------------------------------------------------------------------
(* The theorems. *)

\* No worker ever answers that the request is wrong: what the coordinator accepted, every
\* worker accepts after decoding it (worker.go's checks repeat coordinator.go's).
THEOREM NoneRefuses == NilIsNoMessage => (Spec => [](firstErr # "InvalidArgument"))
<1>1. IInv => firstErr # "InvalidArgument"
  BY DEF IInv
<1>. QED
  BY <1>1, Invariance, PTL

-----------------------------------------------------------------------------
(* Induction over positions. *)

\* A set of naturals has a least element.
LEMMA LeastNatural ==
    ASSUME NEW T, T \subseteq Nat, T # {}
    PROVE  \E x \in T : \A y \in T : x <= y
<1>. DEFINE R == {p \in Nat \X Nat : p[1] < p[2]}
<1>1. IsWellFoundedOn(R, Nat)
  BY NatLessThanWellFounded DEF OpToRel
<1>2. PICK x \in T : \A y \in T : <<y, x>> \notin R
  <2>. HIDE DEF R
  <2>. QED
    BY <1>1, WFMin
<1>3. ASSUME NEW y \in T
      PROVE  x <= y
  <2>1. <<y, x>> \in Nat \X Nat /\ ~(y < x)
    BY <1>2
  <2>. QED
    BY <2>1
<1>. HIDE DEF R
<1>. QED
  BY <1>3

\* Induction from 0 up to n, stated over sets: the induction theorems of the library
\* take a predicate as a parameter.
LEMMA PositionsByInduction ==
    ASSUME NEW n \in Nat, NEW Q,
           0 \in Q,
           \A k \in 0 .. n - 1 : (\A j \in 0 .. k : j \in Q) => k + 1 \in Q
    PROVE  \A k \in 0 .. n : k \in Q
<1>. DEFINE T == {k \in 0 .. n : k \notin Q}
<1>1. CASE T # {}
  <2>1. T \subseteq Nat
    OBVIOUS
  <2>2. PICK x \in T : \A y \in T : x <= y
    <3>. HIDE DEF T
    <3>. QED
      BY <1>1, <2>1, LeastNatural
  <2>3. x \in 1 .. n /\ x \notin Q
    BY <2>2
  <2>4. x - 1 \in 0 .. n - 1 /\ (x - 1) + 1 = x
    BY <2>3
  <2>5. \A j \in 0 .. x - 1 : j \in Q
    BY <2>2, <2>3
  <2>. QED
    BY <2>3, <2>4, <2>5
<1>. QED
  BY <1>1

\* From n down to 1.
LEMMA Backwards ==
    ASSUME NEW n \in Nat, NEW Q,
           \A k \in 1 .. n : (\A j \in k + 1 .. n : j \in Q) => k \in Q
    PROVE  \A k \in 1 .. n : k \in Q
<1>. DEFINE T == {n - k : k \in {k \in 1 .. n : k \notin Q}}
<1>1. CASE T # {}
  <2>1. T \subseteq Nat
    OBVIOUS
  <2>2. PICK x \in T : \A y \in T : x <= y
    <3>. HIDE DEF T
    <3>. QED
      BY <1>1, <2>1, LeastNatural
  <2>3. PICK k \in 1 .. n : x = n - k /\ k \notin Q
    OBVIOUS
  <2>4. \A j \in k + 1 .. n : j \in 1 .. n /\ ~(n - k <= n - j)
    OBVIOUS
  <2>5. \A j \in k + 1 .. n : j \in Q
    BY <2>2, <2>3, <2>4
  <2>. QED
    BY <2>3, <2>5
<1>. QED
  BY <1>1

\* f runs from 0 to n.
Runs(f, n) == f = [k \in 0 .. n |-> f[k]]

\* Two runs that begin alike and go on alike are one.
LEMMA StepsDetermine ==
    ASSUME NEW n \in Nat, NEW f, NEW g, Runs(f, n), Runs(g, n), f[0] = g[0],
           \A k \in 1 .. n : f[k - 1] = g[k - 1] => f[k] = g[k]
    PROVE  f = g
<1>. DEFINE Q == {k \in 0 .. n : f[k] = g[k]}
<1>1. \A k \in 0 .. n - 1 : (\A j \in 0 .. k : j \in Q) => k + 1 \in Q
  <2>1. \A k \in 0 .. n - 1 : k + 1 \in 1 .. n /\ (k + 1) - 1 = k /\ k \in 0 .. k /\ k + 1 \in 0 .. n
    OBVIOUS
  <2>. QED
    BY <2>1
<1>2. 0 \in Q
  OBVIOUS
<1>3. \A k \in 0 .. n : k \in Q
  <2>. HIDE DEF Q
  <2>. QED
    BY <1>1, <1>2, PositionsByInduction
<1>. QED
  BY <1>3 DEF Runs

-----------------------------------------------------------------------------
(* Positions in order. *)

\* How many of S are not behind i.
Rank(S, i) == Cardinality({j \in S : j <= i})

LEMMA RankType ==
    ASSUME NEW m \in Nat, NEW S, S \subseteq 1 .. m
    PROVE  /\ IsFiniteSet(S) /\ Cardinality(S) \in Nat
           /\ \A i \in S : Rank(S, i) \in 1 .. Cardinality(S)
           /\ \A i, j \in S : i < j => Rank(S, i) < Rank(S, j)
<1>1. IsFiniteSet(S)
  <2>1. S \in SUBSET (1 .. m) /\ IsFiniteSet(1 .. m)
    BY FS_Interval
  <2>. QED
    BY <2>1, FS_Subset
<1>2. Cardinality(S) \in Nat
  BY <1>1, FS_CardinalityType
<1>3. ASSUME NEW i \in S
      PROVE  Rank(S, i) \in 1 .. Cardinality(S)
  <2>. DEFINE U == {j \in S : j <= i}
  <2>1. U \subseteq S /\ i \in U
    OBVIOUS
  <2>2. IsFiniteSet(U) /\ Cardinality(U) <= Cardinality(S)
    BY <1>1, <2>1, FS_Subset
  <2>3. Cardinality(U) \in Nat /\ Cardinality(U) # 0
    BY <2>1, <2>2, FS_CardinalityType, FS_EmptySet
  <2>. QED
    BY <1>2, <2>2, <2>3 DEF Rank
<1>4. ASSUME NEW i \in S, NEW j \in S, i < j
      PROVE  Rank(S, i) < Rank(S, j)
  <2>. DEFINE U == {x \in S : x <= i}
              V == {x \in S : x <= j}
  <2>1. U \subseteq V /\ U # V /\ V \subseteq S
    <3>1. i \in Nat /\ j \in Nat /\ \A x \in S : x \in Nat
      OBVIOUS
    <3>2. j \in V /\ j \notin U
      BY <1>4, <3>1
    <3>3. \A x \in U : x <= j
      BY <1>4, <3>1
    <3>. QED
      BY <3>2, <3>3
  <2>2. IsFiniteSet(V) /\ IsFiniteSet(U)
    BY <1>1, <2>1, FS_Subset
  <2>3. Cardinality(U) < Cardinality(V)
    <3>. HIDE DEF U, V
    <3>1. Cardinality(U) <= Cardinality(V) /\ (Cardinality(U) = Cardinality(V) => U = V)
      BY <2>1, <2>2, FS_Subset
    <3>2. Cardinality(U) \in Nat /\ Cardinality(V) \in Nat
      BY <2>2, FS_CardinalityType
    <3>. QED
      BY <2>1, <3>1, <3>2
  <2>. QED
    BY <2>3 DEF Rank
<1>. QED
  BY <1>1, <1>2, <1>3, <1>4

\* One position more, behind all others.
LEMMA RankOneMore ==
    ASSUME NEW m \in Nat, NEW S, S \subseteq 1 .. m
    PROVE  /\ Cardinality(S \cup {m + 1}) = Cardinality(S) + 1
           /\ Rank(S \cup {m + 1}, m + 1) = Cardinality(S) + 1
           /\ \A i \in S : Rank(S \cup {m + 1}, i) = Rank(S, i)
<1>. DEFINE T == S \cup {m + 1}
<1>1. m + 1 \notin S /\ IsFiniteSet(S)
  <2>1. m + 1 \notin 1 .. m
    OBVIOUS
  <2>. QED
    BY <2>1, RankType
<1>2. Cardinality(T) = Cardinality(S) + 1
  BY <1>1, FS_AddElement
<1>3. {j \in T : j <= m + 1} = T
  <2>1. \A j \in T : j <= m + 1
    <3>1. \A j \in 1 .. m : j <= m + 1
      OBVIOUS
    <3>2. m + 1 <= m + 1
      OBVIOUS
    <3>. QED
      BY <3>1, <3>2
  <2>. QED
    BY <2>1
<1>4. ASSUME NEW i \in S
      PROVE  {j \in T : j <= i} = {j \in S : j <= i}
  <2>1. i \in Nat /\ ~(m + 1 <= i)
    OBVIOUS
  <2>. QED
    BY <2>1
<1>. QED
  BY <1>2, <1>3, <1>4 DEF Rank

\* Every place in the order is taken.
LEMMA PlacesTaken ==
    ASSUME NEW m \in Nat, NEW S, S \subseteq 1 .. m, NEW n \in 1 .. Cardinality(S)
    PROVE  \E i \in S : Rank(S, i) = n
<1>. DEFINE Taken(S0) == \A p \in 1 .. Cardinality(S0) : \E i \in S0 : Rank(S0, i) = p
            Q == {k \in Nat : \A S0 \in SUBSET (1 .. k) : Taken(S0)}
<1>1. 0 \in Q
  <2>1. ASSUME NEW S0 \in SUBSET (1 .. 0)
        PROVE  Taken(S0)
    <3>1. S0 = {}
      OBVIOUS
    <3>2. Cardinality(S0) = 0
      BY <3>1, FS_EmptySet
    <3>. QED
      BY <3>2
  <2>. HIDE DEF Taken
  <2>. QED
    BY <2>1
<1>2. ASSUME NEW k \in Nat, k \in Q
      PROVE  k + 1 \in Q
  <2>1. ASSUME NEW S0 \in SUBSET (1 .. k + 1)
        PROVE  Taken(S0)
    <3>1. CASE k + 1 \notin S0
      <4>1. S0 \in SUBSET (1 .. k)
        BY <3>1
      <4>. QED
        BY <1>2, <4>1
    <3>2. CASE k + 1 \in S0
      <4>. DEFINE R == S0 \ {k + 1}
      <4>1. R \in SUBSET (1 .. k) /\ S0 = R \cup {k + 1}
        BY <3>2
      <4>2. Taken(R)
        BY <1>2, <4>1
      <4>. HIDE DEF R
      <4>3. /\ Cardinality(S0) = Cardinality(R) + 1
            /\ Rank(S0, k + 1) = Cardinality(R) + 1
            /\ \A i \in R : Rank(S0, i) = Rank(R, i)
        BY <4>1, RankOneMore
      <4>4. Cardinality(R) \in Nat
        BY <4>1, RankType
      <4>5. ASSUME NEW p \in 1 .. Cardinality(S0)
            PROVE  \E i \in S0 : Rank(S0, i) = p
        <5>1. CASE p = Cardinality(R) + 1
          BY <3>2, <4>3, <5>1
        <5>2. CASE p # Cardinality(R) + 1
          <6>1. p \in 1 .. Cardinality(R)
            BY <4>3, <4>4, <5>2
          <6>2. PICK i \in R : Rank(R, i) = p
            BY <4>2, <6>1
          <6>. QED
            BY <4>1, <4>3, <6>2
        <5>. QED
          BY <5>1, <5>2
      <4>. QED
        BY <4>5
    <3>. QED
      BY <3>1, <3>2
  <2>. HIDE DEF Taken
  <2>. QED
    BY <2>1
<1>3. m \in Q
  <2>1. \A k \in 0 .. m - 1 : (\A j \in 0 .. k : j \in Q) => k + 1 \in Q
    <3>1. \A k \in 0 .. m - 1 : k \in Nat /\ k \in 0 .. k
      OBVIOUS
    <3>. HIDE DEF Q
    <3>. QED
      BY <1>2, <3>1
  <2>2. m \in 0 .. m
    OBVIOUS
  <2>. HIDE DEF Q
  <2>. QED
    BY <1>1, <2>1, <2>2, PositionsByInduction
<1>4. Taken(S)
  <2>. HIDE DEF Taken
  <2>. QED
    BY <1>3
<1>. QED
  BY <1>4

\* InOrder has each position in its place.
LEMMA InOrderIs ==
    ASSUME NEW m \in Nat, NEW S, S \subseteq 1 .. m
    PROVE  /\ IsFiniteSet(S) /\ Cardinality(S) \in Nat
           /\ InOrder(S) \in [1 .. Cardinality(S) -> S]
           /\ InOrder(S) \in Seq(S) /\ Len(InOrder(S)) = Cardinality(S)
           /\ \A n \in 1 .. Cardinality(S) : Rank(S, InOrder(S)[n]) = n
           /\ \A i \in S : /\ Rank(S, i) \in 1 .. Cardinality(S)
                           /\ InOrder(S)[Rank(S, i)] = i
<1>. DEFINE c == Cardinality(S)
            At(n) == CHOOSE i \in S : Rank(S, i) = n
<1>1. InOrder(S) = [n \in 1 .. c |-> At(n)]
  BY DEF InOrder, Rank
<1>2. ASSUME NEW n \in 1 .. c
      PROVE  At(n) \in S /\ Rank(S, At(n)) = n
  BY PlacesTaken
<1>3. /\ IsFiniteSet(S) /\ c \in Nat
      /\ \A i \in S : Rank(S, i) \in 1 .. c
      /\ \A i, j \in S : i < j => Rank(S, i) < Rank(S, j)
  BY RankType
<1>. HIDE DEF At, c
<1>4. InOrder(S) \in [1 .. c -> S]
  BY <1>1, <1>2
<1>5. InOrder(S) \in Seq(S) /\ Len(InOrder(S)) = c
  BY <1>3, <1>4
<1>6. \A n \in 1 .. c : InOrder(S)[n] \in S /\ Rank(S, InOrder(S)[n]) = n
  BY <1>1, <1>2
<1>7. ASSUME NEW i \in S
      PROVE  InOrder(S)[Rank(S, i)] = i
  <2>1. Rank(S, i) \in 1 .. c
    BY <1>3
  <2>2. PICK j : j = InOrder(S)[Rank(S, i)]
    OBVIOUS
  <2>3. j \in S /\ Rank(S, j) = Rank(S, i)
    BY <1>6, <2>1, <2>2
  <2>4. i \in Nat /\ j \in Nat
    BY <2>3
  <2>5. ~(i < j) /\ ~(j < i)
    <3>1. i < j => Rank(S, i) < Rank(S, j)
      BY <1>3, <2>3
    <3>2. j < i => Rank(S, j) < Rank(S, i)
      BY <1>3, <2>3
    <3>. QED
      BY <2>1, <2>3, <3>1, <3>2
  <2>. QED
    BY <2>2, <2>4, <2>5
<1>. QED
  BY <1>3, <1>4, <1>5, <1>6, <1>7 DEF c

\* None, one, one more behind all others, and the first.
LEMMA InOrderNone == InOrder({}) = <<>>
<1>1. Cardinality({}) = 0
  BY FS_EmptySet
<1>2. DOMAIN InOrder({}) = 1 .. 0
  BY <1>1 DEF InOrder
<1>3. InOrder({}) = [n \in 1 .. 0 |-> n]
  BY <1>1, <1>2 DEF InOrder
<1>. QED
  BY <1>3

LEMMA InOrderAppend ==
    ASSUME NEW x \in Nat \ {0}, NEW S, S \subseteq 1 .. x - 1
    PROVE  InOrder(S \cup {x}) = Append(InOrder(S), x)
<1>. DEFINE T == S \cup {x}
            c == Cardinality(S)
            f == InOrder(S)
            g == InOrder(T)
<1>0. x - 1 \in Nat /\ (x - 1) + 1 = x /\ T \subseteq 1 .. x /\ x \in Nat
  <2>1. \A j \in 1 .. x - 1 : j \in 1 .. x
    OBVIOUS
  <2>. QED
    BY <2>1
<1>1. /\ Cardinality(T) = c + 1 /\ Rank(T, x) = c + 1
      /\ \A i \in S : Rank(T, i) = Rank(S, i)
  <2>1. PICK m \in Nat : m = x - 1 /\ m + 1 = x /\ S \subseteq 1 .. m
    BY <1>0
  <2>2. /\ Cardinality(S \cup {m + 1}) = c + 1 /\ Rank(S \cup {m + 1}, m + 1) = c + 1
        /\ \A i \in S : Rank(S \cup {m + 1}, i) = Rank(S, i)
    BY <2>1, RankOneMore
  <2>. QED
    BY <2>1, <2>2
<1>2. /\ c \in Nat /\ f \in Seq(S) /\ Len(f) = c
      /\ \A n \in 1 .. c : f[n] \in S /\ Rank(S, f[n]) = n
  BY <1>0, InOrderIs
<1>3. /\ g \in Seq(T) /\ Len(g) = c + 1
      /\ \A i \in T : g[Rank(T, i)] = i
  <2>. HIDE DEF T
  <2>. QED
    BY <1>0, <1>1, InOrderIs
<1>. HIDE DEF c, f, g
<1>4. ASSUME NEW n \in 1 .. c + 1
      PROVE  g[n] = Append(f, x)[n]
  <2>1. CASE n \in 1 .. c
    <3>1. f[n] \in T /\ Rank(T, f[n]) = n
      BY <1>1, <1>2, <2>1
    <3>2. g[n] = f[n]
      BY <1>3, <3>1
    <3>. QED
      BY <1>2, <2>1, <3>2
  <2>2. CASE n = c + 1
    <3>1. g[n] = x
      BY <1>1, <1>3, <2>2
    <3>. QED
      BY <1>2, <2>2, <3>1
  <2>. QED
    BY <1>2, <2>1, <2>2
<1>5. Append(f, x) \in Seq(T) /\ Len(Append(f, x)) = c + 1
  <2>1. f \in Seq(T)
    BY <1>2
  <2>. HIDE DEF T
  <2>2. x \in T
    BY DEF T
  <2>. QED
    BY <1>2, <2>1, <2>2
<1>6. g = Append(f, x)
  BY <1>2, <1>3, <1>4, <1>5
<1>. QED
  BY <1>6 DEF f, g

LEMMA InOrderOne ==
    ASSUME NEW x \in Nat \ {0}
    PROVE  InOrder({x}) = <<x>>
<1>1. {} \cup {x} = {x} /\ {} \subseteq 1 .. x - 1
  OBVIOUS
<1>2. InOrder({} \cup {x}) = Append(InOrder({}), x)
  BY <1>1, InOrderAppend
<1>3. Append(<<>>, x) = <<x>>
  OBVIOUS
<1>. QED
  BY <1>1, <1>2, <1>3, InOrderNone

LEMMA InOrderFirst ==
    ASSUME NEW m \in Nat, NEW S, S \subseteq 1 .. m, NEW x \in S, \A j \in S : x <= j
    PROVE  InOrder(S) = <<x>> \o InOrder(S \ {x})
<1>. DEFINE R == S \ {x}
            c == Cardinality(R)
            f == InOrder(R)
            g == InOrder(S)
<1>0. R \subseteq 1 .. m /\ x \notin R /\ S = R \cup {x} /\ x \in Nat
  OBVIOUS
<1>1. IsFiniteSet(R) /\ c \in Nat
  BY <1>0, RankType
<1>2. Cardinality(S) = c + 1
  <2>. HIDE DEF R
  <2>. QED
    BY <1>0, <1>1, FS_AddElement DEF c
<1>3. Rank(S, x) = 1
  <2>1. \A j \in S : j <= x <=> j = x
    <3>1. \A j \in S : j \in Nat
      OBVIOUS
    <3>. QED
      BY <1>0, <3>1
  <2>2. {j \in S : j <= x} = {x}
    BY <2>1
  <2>. QED
    BY <2>2, FS_Singleton DEF Rank
<1>4. ASSUME NEW i \in R
      PROVE  Rank(S, i) = Rank(R, i) + 1
  <2>. DEFINE U == {j \in R : j <= i}
  <2>1. {j \in S : j <= i} = U \cup {x} /\ x \notin U
    OBVIOUS
  <2>2. IsFiniteSet(U)
    BY <1>1, FS_Subset
  <2>3. Cardinality(U \cup {x}) = Cardinality(U) + 1
    <3>. HIDE DEF U
    <3>. QED
      BY <2>1, <2>2, FS_AddElement
  <2>. QED
    BY <2>1, <2>3 DEF Rank
<1>5. /\ f \in Seq(R) /\ Len(f) = c
      /\ \A n \in 1 .. c : f[n] \in R /\ Rank(R, f[n]) = n
  BY <1>0, InOrderIs, ZenonT(30)
<1>6. /\ g \in Seq(S) /\ Len(g) = c + 1
      /\ \A i \in S : g[Rank(S, i)] = i
  BY <1>2, InOrderIs
<1>. HIDE DEF R, c, f, g
<1>7. ASSUME NEW n \in 1 .. c + 1
      PROVE  g[n] = (<<x>> \o f)[n]
  <2>1. CASE n = 1
    BY <1>1, <1>3, <1>5, <1>6, <2>1
  <2>2. CASE n # 1
    <3>1. n - 1 \in 1 .. c /\ (n - 1) + 1 = n
      BY <1>1, <2>2
    <3>2. f[n - 1] \in R /\ Rank(S, f[n - 1]) = n
      BY <1>4, <1>5, <3>1
    <3>3. g[n] = f[n - 1]
      BY <1>0, <1>6, <3>2
    <3>. QED
      BY <1>1, <1>5, <2>2, <3>1, <3>3
  <2>. QED
    BY <2>1, <2>2
<1>8. <<x>> \o f \in Seq(S) /\ Len(<<x>> \o f) = c + 1
  <2>1. f \in Seq(S)
    BY <1>0, <1>5
  <2>. QED
    BY <1>1, <1>5, <2>1
<1>9. g = <<x>> \o f
  BY <1>1, <1>6, <1>7, <1>8
<1>. QED
  BY <1>9 DEF f, g, R

-----------------------------------------------------------------------------
(* Between the commas. *)

\* f is a list of n elements.
Lists(f, n) == f = [i \in 1 .. n |-> f[i]]

LEMMA ListIs ==
    ASSUME NEW n \in Nat, NEW f, Lists(f, n)
    PROVE  Len(f) = n /\ DOMAIN f = 1 .. n /\ \E V : f \in Seq(V)
<1>. DEFINE V == {f[i] : i \in 1 .. n}
<1>1. f \in [1 .. n -> V] /\ DOMAIN f = 1 .. n
  BY DEF Lists
<1>. HIDE DEF V
<1>2. f \in Seq(V) /\ Len(f) = n
  BY <1>1
<1>. QED
  BY <1>1, <1>2

LEMMA ListsIn ==
    ASSUME NEW n \in Nat, NEW f, Lists(f, n), NEW V, \A i \in 1 .. n : f[i] \in V
    PROVE  f \in Seq(V) /\ Len(f) = n
<1>1. f \in [1 .. n -> V]
  BY DEF Lists
<1>. QED
  BY <1>1

LEMMA ListOfOne ==
    ASSUME NEW f, Lists(f, 1)
    PROVE  f = <<f[1]>>
<1>. DEFINE g == <<f[1]>>
            V == {f[1]}
<1>1. g \in Seq(V) /\ Len(g) = 1 /\ g[1] = f[1] /\ \A i \in 1 .. 1 : f[i] \in V
  OBVIOUS
<1>. HIDE DEF V
<1>2. f \in Seq(V) /\ Len(f) = 1
  BY <1>1, ListsIn
<1>. HIDE DEF g
<1>3. f = g
  BY <1>1, <1>2
<1>. QED
  BY <1>3 DEF g

LEMMA ListOfFour ==
    ASSUME NEW f, Lists(f, 4)
    PROVE  f = <<f[1], f[2], f[3], f[4]>>
<1>. DEFINE g == <<f[1], f[2], f[3], f[4]>>
            V == {f[1], f[2], f[3], f[4]}
<1>1. g \in Seq(V) /\ Len(g) = 4 /\ g[1] = f[1] /\ g[2] = f[2] /\ g[3] = f[3] /\ g[4] = f[4]
  OBVIOUS
<1>2. \A i \in 1 .. 4 : i = 1 \/ i = 2 \/ i = 3 \/ i = 4
  OBVIOUS
<1>3. \A i \in 1 .. 4 : f[i] \in V
  BY <1>2
<1>. HIDE DEF V
<1>4. f \in Seq(V) /\ Len(f) = 4
  BY <1>3, ListsIn
<1>. HIDE DEF g
<1>5. \A i \in 1 .. 4 : f[i] = g[i]
  BY <1>1, <1>2
<1>6. f = g
  BY <1>1, <1>4, <1>5
<1>. QED
  BY <1>6 DEF g

LEMMA HowLong ==
    ASSUME NEW n \in Nat, NEW f, Lists(f, n)
    PROVE  /\ \A a : f = <<a>> => n = 1
           /\ \A a, b, c, d : f = <<a, b, c, d>> => n = 4
<1>1. Len(f) = n
  BY ListIs
<1>2. ASSUME NEW a, f = <<a>>
      PROVE  Len(f) = 1
  BY <1>2
<1>3. ASSUME NEW a, NEW b, NEW c, NEW d, f = <<a, b, c, d>>
      PROVE  Len(f) = 4
  BY <1>3
<1>. QED
  BY <1>1, <1>2, <1>3

LEMMA SequenceLists ==
    ASSUME NEW V, NEW f \in Seq(V)
    PROVE  Lists(f, Len(f))
BY DEF Lists

\* A list with one element before it.
Before(x, f) == <<x>> \o f

LEMMA PrependedIs ==
    ASSUME NEW n \in Nat, NEW f, NEW x, Lists(f, n), NEW h, h = Before(x, f)
    PROVE  /\ Lists(h, n + 1) /\ Len(h) = n + 1 /\ DOMAIN h = 1 .. n + 1
           /\ h[1] = x /\ \A i \in 1 .. n : h[i + 1] = f[i]
<1>. DEFINE V == {f[i] : i \in 1 .. n} \cup {x}
<1>1. f \in Seq(V) /\ Len(f) = n /\ x \in V
  <2>1. f \in [1 .. n -> V]
    BY DEF Lists
  <2>. HIDE DEF V
  <2>2. f \in Seq(V) /\ Len(f) = n
    BY <2>1
  <2>. QED
    BY <2>2 DEF V
<1>. HIDE DEF V
<1>2. h \in Seq(V) /\ Len(h) = n + 1 /\ h[1] = x /\ \A i \in 1 .. n : h[i + 1] = f[i]
  BY <1>1 DEF Before
<1>3. h = [i \in 1 .. n + 1 |-> h[i]] /\ DOMAIN h = 1 .. n + 1
  BY <1>2
<1>. QED
  BY <1>2, <1>3 DEF Lists

LEMMA Prepended ==
    ASSUME NEW n \in Nat, NEW f, NEW g, Lists(f, n), Lists(g, n + 1),
           \A i \in 1 .. n : g[i + 1] = f[i]
    PROVE  g = <<g[1]>> \o f
<1>. DEFINE h == <<g[1]>> \o f
<1>0. h = Before(g[1], f)
  BY DEF Before
<1>. HIDE DEF h
<1>1. Lists(h, n + 1) /\ h[1] = g[1] /\ \A i \in 1 .. n : h[i + 1] = f[i]
  BY <1>0, PrependedIs
<1>2. ASSUME NEW i \in 1 .. n + 1
      PROVE  g[i] = h[i]
  <2>1. i = 1 \/ (i - 1 \in 1 .. n /\ (i - 1) + 1 = i)
    OBVIOUS
  <2>. QED
    BY <1>1, <2>1
<1>3. g = h
  BY <1>1, <1>2 DEF Lists
<1>. QED
  BY <1>3 DEF h

Commas(t, a, b) == {i \in a .. b : t[i].kind = Comma}

LEMMA NoComma ==
    ASSUME NEW t, NEW a \in Nat, NEW b \in Nat, Commas(t, a, b) = {}
    PROVE  Pieces(t, a, b) = <<SubSeq(t, a, b)>>
<1>. DEFINE ends == <<a - 1>> \o InOrder(Commas(t, a, b)) \o <<b + 1>>
<1>1. ends = <<a - 1>> \o <<>> \o <<b + 1>>
  BY InOrderNone
<1>. HIDE DEF ends
<1>2. Len(ends) - 1 = 1 /\ ends[1] + 1 = a /\ ends[2] - 1 = b
  <2>1. <<a - 1>> \in Seq(Int) /\ <<b + 1>> \in Seq(Int) /\ <<a - 1>> \o <<>> = <<a - 1>>
    OBVIOUS
  <2>2. ends = <<a - 1>> \o <<b + 1>>
    BY <1>1, <2>1
  <2>3. Len(ends) = 2 /\ ends[1] = a - 1 /\ ends[2] = b + 1
    BY <2>1, <2>2
  <2>. QED
    BY <2>3
<1>3. Pieces(t, a, b) = [n \in 1 .. 1 |-> SubSeq(t, ends[n] + 1, ends[n + 1] - 1)]
  BY <1>2 DEF Pieces, ends, Commas
<1>4. Pieces(t, a, b) = [n \in 1 .. 1 |-> SubSeq(t, a, b)]
  BY <1>2, <1>3
<1>. QED
  BY <1>4

LEMMA FirstComma ==
    ASSUME NEW t, NEW a \in Nat \ {0}, NEW b \in Nat, NEW x \in Commas(t, a, b),
           \A i \in a .. x - 1 : t[i].kind # Comma
    PROVE  Pieces(t, a, b) = <<SubSeq(t, a, x - 1)>> \o Pieces(t, x + 1, b)
<1>. DEFINE S == Commas(t, a, b)
            R == Commas(t, x + 1, b)
            f == InOrder(R)
            ends == <<a - 1>> \o InOrder(S) \o <<b + 1>>
            rest == <<x>> \o f \o <<b + 1>>
            c == Cardinality(R)
            P == Pieces(t, a, b)
            P1 == Pieces(t, x + 1, b)
<1>1. x \in a .. b /\ t[x].kind = Comma
  BY DEF Commas
<1>2. S \subseteq 1 .. b /\ R \subseteq 1 .. b /\ \A j \in S : x <= j
  <2>1. \A j \in a .. b : j \in 1 .. b /\ (j < x => j \in a .. x - 1)
    BY <1>1
  <2>2. \A j \in x + 1 .. b : j \in 1 .. b
    BY <1>1
  <2>3. \A j \in S : j \in a .. b /\ ~(j < x)
    BY <2>1 DEF Commas
  <2>. QED
    BY <1>1, <2>1, <2>2, <2>3 DEF Commas
<1>3. R = S \ {x}
  <2>1. \A j : j \in x + 1 .. b <=> j \in a .. b /\ x < j
    BY <1>1
  <2>2. \A j \in S : j \in a .. b /\ (x < j <=> j # x)
    BY <1>1, <1>2 DEF Commas
  <2>3. \A j : j \in R <=> j \in S /\ j # x
    BY <2>1, <2>2 DEF Commas
  <2>. QED
    BY <2>3
<1>4. InOrder(S) = <<x>> \o f
  BY <1>2, <1>3, InOrderFirst
<1>5. f \in Seq(Nat) /\ Len(f) = c /\ c \in Nat
  <2>1. f \in Seq(R) /\ Len(f) = c /\ c \in Nat
    BY <1>2, InOrderIs
  <2>2. R \subseteq Nat
    BY <1>2
  <2>. QED
    BY <2>1, <2>2
<1>. HIDE DEF S, R, f, c
<1>6. x \in Nat /\ a - 1 \in Nat /\ b + 1 \in Nat
  BY <1>1
<1>7. /\ Len(ends) = c + 3 /\ Len(rest) = c + 2
      /\ ends[1] = a - 1 /\ rest[1] = x
      /\ \A n \in 1 .. c + 2 : ends[n + 1] = rest[n]
  <2>1. ends = <<a - 1>> \o rest
    BY <1>4, <1>5, <1>6
  <2>2. rest \in Seq(Nat) /\ Len(rest) = c + 2 /\ rest[1] = x
    BY <1>5, <1>6
  <2>. HIDE DEF ends, rest
  <2>. QED
    BY <1>5, <1>6, <2>1, <2>2
<1>8. P = [n \in 1 .. Len(ends) - 1 |-> SubSeq(t, ends[n] + 1, ends[n + 1] - 1)]
  BY DEF Pieces, S, Commas
<1>9. P1 = [n \in 1 .. Len(rest) - 1 |-> SubSeq(t, rest[n] + 1, rest[n + 1] - 1)]
  <2>1. (x + 1) - 1 = x
    BY <1>6
  <2>. QED
    BY <2>1 DEF Pieces, R, f, Commas
<1>. HIDE DEF ends, rest, P, P1
<1>10. /\ P = [n \in 1 .. c + 2 |-> P[n]] /\ P1 = [n \in 1 .. c + 1 |-> P1[n]]
       /\ P[1] = SubSeq(t, a, x - 1)
       /\ \A n \in 1 .. c + 1 : P[n + 1] = P1[n]
  <2>1. Len(ends) - 1 = c + 2 /\ Len(rest) - 1 = c + 1
    BY <1>5, <1>7
  <2>2. P[1] = SubSeq(t, a, x - 1)
    <3>1. 1 \in 1 .. c + 2 /\ 1 \in 1 .. Len(ends) - 1 /\ ends[1] + 1 = a /\ ends[1 + 1] = x
      BY <1>5, <1>6, <1>7, <2>1
    <3>. QED
      BY <1>8, <3>1
  <2>3. ASSUME NEW n \in 1 .. c + 1
        PROVE  P[n + 1] = P1[n]
    <3>1. n + 1 \in 1 .. c + 2 /\ n \in 1 .. c + 2
      BY <1>5
    <3>2. ends[n + 1] = rest[n] /\ ends[(n + 1) + 1] = rest[n + 1]
      BY <1>7, <3>1
    <3>. QED
      BY <1>8, <1>9, <2>1, <3>1, <3>2
  <2>. QED
    BY <1>8, <1>9, <2>1, <2>2, <2>3
<1>11. P = <<SubSeq(t, a, x - 1)>> \o P1
  <2>1. PICK d \in Nat : d = c + 1 /\ d + 1 = c + 2
    BY <1>5
  <2>2. Lists(P1, d) /\ Lists(P, d + 1) /\ \A n \in 1 .. d : P[n + 1] = P1[n]
    BY <1>10, <2>1 DEF Lists
  <2>3. P = <<P[1]>> \o P1
    BY <2>2, Prepended
  <2>. QED
    BY <1>10, <2>3
<1>. QED
  BY <1>11 DEF P, P1

\* There is at least one piece.
LEMMA PiecesList ==
    ASSUME NEW t, NEW a \in Nat \ {0}, NEW b \in Nat
    PROVE  \E n \in Nat \ {0} : Lists(Pieces(t, a, b), n)
<1>. DEFINE f == InOrder(Commas(t, a, b))
            ends == <<a - 1>> \o f \o <<b + 1>>
            c == Cardinality(Commas(t, a, b))
<1>1. Commas(t, a, b) \subseteq 1 .. b
  <2>1. \A i \in a .. b : i \in 1 .. b
    OBVIOUS
  <2>. QED
    BY <2>1 DEF Commas
<1>2. f \in Seq(Nat) /\ Len(f) = c /\ c \in Nat
  <2>1. f \in Seq(Commas(t, a, b)) /\ Len(f) = c /\ c \in Nat
    BY <1>1, InOrderIs
  <2>2. Commas(t, a, b) \subseteq Nat
    BY <1>1
  <2>. QED
    BY <2>1, <2>2
<1>. HIDE DEF f, c
<1>3. Len(ends) = c + 2
  <2>1. a - 1 \in Nat /\ b + 1 \in Nat
    OBVIOUS
  <2>. QED
    BY <1>2, <2>1
<1>4. Pieces(t, a, b) = [n \in 1 .. Len(ends) - 1 |-> SubSeq(t, ends[n] + 1, ends[n + 1] - 1)]
  BY DEF Pieces, f, Commas
<1>. HIDE DEF ends
<1>5. PICK n \in Nat \ {0} : n = Len(ends) - 1
  BY <1>2, <1>3
<1>6. Lists(Pieces(t, a, b), n)
  BY <1>4, <1>5 DEF Lists
<1>. QED
  BY <1>6

-----------------------------------------------------------------------------
(* The parser of lists, for elements that are told by the tokens they are of *)
(* and the kind of the token behind them.                                    *)

\* Every piece is one of G, with the kind of the token behind it.
AllGood(G, P, kind) ==
    \A n \in DOMAIN P : <<P[n], IF n = Len(P) THEN kind ELSE Comma>> \in G

Values(f, P) == [n \in DOMAIN P |-> f[P[n]]]

\* A piece is not empty and has no comma.
GoodPieces(G) ==
    \A u, kind : <<u, kind>> \in G => Len(u) > 0 /\ \A i \in 1 .. Len(u) : u[i].kind # Comma

LEMMA OneGood ==
    ASSUME NEW G, NEW u, NEW kind, NEW f
    PROVE  /\ AllGood(G, <<u>>, kind) <=> <<u, kind>> \in G
           /\ Values(f, <<u>>) = <<f[u]>>
<1>1. DOMAIN <<u>> = {1} /\ Len(<<u>>) = 1 /\ <<u>>[1] = u
  OBVIOUS
<1>2. Values(f, <<u>>) = <<f[u]>>
  <2>1. Values(f, <<u>>) = [n \in {1} |-> f[u]]
    BY <1>1 DEF Values
  <2>2. <<f[u]>> = [n \in {1} |-> f[u]]
    OBVIOUS
  <2>. QED
    BY <2>1, <2>2
<1>. QED
  BY <1>1, <1>2 DEF AllGood

LEMMA FirstGood ==
    ASSUME NEW G, NEW u, NEW kind, NEW n \in Nat \ {0}, NEW P, Lists(P, n),
           NEW h, h = Before(u, P)
    PROVE  AllGood(G, h, kind) <=> <<u, Comma>> \in G /\ AllGood(G, P, kind)
<1>1. Lists(h, n + 1) /\ Len(h) = n + 1 /\ DOMAIN h = 1 .. n + 1
      /\ h[1] = u /\ \A i \in 1 .. n : h[i + 1] = P[i]
  BY PrependedIs
<1>2. Len(P) = n /\ DOMAIN P = 1 .. n
  BY ListIs
<1>3. AllGood(G, h, kind) <=> <<u, Comma>> \in G /\ AllGood(G, P, kind)
  <2>1. ASSUME AllGood(G, h, kind)
        PROVE  <<u, Comma>> \in G /\ AllGood(G, P, kind)
    <3>1. 1 \in DOMAIN h /\ 1 # Len(h)
      BY <1>1
    <3>2. ASSUME NEW i \in 1 .. n
          PROVE  <<P[i], IF i = Len(P) THEN kind ELSE Comma>> \in G
      <4>1. i + 1 \in DOMAIN h /\ (i + 1 = Len(h) <=> i = n)
        BY <1>1
      <4>. QED
        BY <1>1, <1>2, <2>1, <4>1 DEF AllGood
    <3>. QED
      BY <1>1, <1>2, <2>1, <3>1, <3>2 DEF AllGood
  <2>2. ASSUME <<u, Comma>> \in G, AllGood(G, P, kind), NEW i \in 1 .. n + 1
        PROVE  <<h[i], IF i = Len(h) THEN kind ELSE Comma>> \in G
    <3>1. CASE i = 1
      <4>1. i # Len(h)
        BY <1>1, <3>1
      <4>. QED
        BY <1>1, <2>2, <3>1, <4>1
    <3>2. CASE i # 1
      <4>1. i - 1 \in 1 .. n /\ (i - 1) + 1 = i /\ (i = Len(h) <=> i - 1 = n)
        BY <1>1, <3>2
      <4>2. h[i] = P[i - 1]
        BY <1>1, <4>1
      <4>. QED
        BY <1>2, <2>2, <4>1, <4>2 DEF AllGood
    <3>. QED
      BY <3>1, <3>2
  <2>. QED
    BY <1>1, <2>1, <2>2 DEF AllGood
<1>. QED
  BY <1>3

LEMMA FirstValue ==
    ASSUME NEW u, NEW f, NEW n \in Nat \ {0}, NEW P, Lists(P, n),
           NEW h, h = Before(u, P)
    PROVE  Values(f, h) = Before(f[u], Values(f, P))
<1>1. Lists(h, n + 1) /\ Len(h) = n + 1 /\ DOMAIN h = 1 .. n + 1
      /\ h[1] = u /\ \A i \in 1 .. n : h[i + 1] = P[i]
  BY PrependedIs
<1>2. Len(P) = n /\ DOMAIN P = 1 .. n
  BY ListIs
<1>3. Values(f, h) = Before(f[u], Values(f, P))
  <2>1. Lists(Values(f, P), n) /\ Lists(Values(f, h), n + 1)
    BY <1>1, <1>2 DEF Lists, Values
  <2>2. Values(f, h)[1] = f[u] /\ \A i \in 1 .. n : Values(f, h)[i + 1] = Values(f, P)[i]
    <3>1. 1 \in 1 .. n + 1 /\ \A i \in 1 .. n : i + 1 \in 1 .. n + 1
      OBVIOUS
    <3>. QED
      BY <1>1, <1>2, <3>1 DEF Values
  <2>. QED
    BY <2>1, <2>2, Prepended DEF Before
<1>. QED
  BY <1>3

\* What an element that begins at p can be, and a list.
ElementsAt(toks, G, f, p) ==
    {Read(f[SubSeq(toks, p, q - 1)], q) :
        q \in {q \in p .. Len(toks) : <<SubSeq(toks, p, q - 1), toks[q].kind>> \in G}}

ListEnds(toks, G, p) ==
    {k \in p .. Len(toks) : /\ AllGood(G, Pieces(toks, p, k - 1), toks[k].kind)
                            /\ toks[k].kind # Comma}

ListsAt(toks, G, f, p) ==
    {Read(Values(f, Pieces(toks, p, k - 1)), k) : k \in ListEnds(toks, G, p)}

\* What ParseList makes of an element.
Continued(toks, L, e) ==
    IF toks[e.next].kind = Comma
    THEN UNION {{Read(<<e.val>> \o rest.val, rest.next)} : rest \in L[e.next + 1]}
    ELSE {Read(<<e.val>>, e.next)}

\* Tokens, of which the last is no comma.
ATokenList(toks) ==
    \E n \in Nat \ {0} : Lists(toks, n) /\ Len(toks) = n /\ toks[n].kind # Comma

LEMMA ElementIs ==
    ASSUME NEW toks, NEW G, GoodPieces(G), NEW p \in Nat \ {0}, NEW q \in Nat, NEW kind,
           p <= q, <<SubSeq(toks, p, q - 1), kind>> \in G
    PROVE  p < q /\ Commas(toks, p, q - 1) = {}
<1>. DEFINE u == SubSeq(toks, p, q - 1)
<1>1. Len(u) > 0 /\ \A i \in 1 .. Len(u) : u[i].kind # Comma
  BY DEF GoodPieces
<1>2. Len(u) = q - p /\ \A i \in 1 .. q - p : u[i] = toks[p + i - 1]
  OBVIOUS
<1>. HIDE DEF u
<1>3. ASSUME NEW i \in p .. q - 1
      PROVE  toks[i].kind # Comma
  <2>1. i - p + 1 \in 1 .. q - p /\ p + (i - p + 1) - 1 = i
    OBVIOUS
  <2>. QED
    BY <1>1, <1>2, <2>1
<1>. QED
  BY <1>1, <1>2, <1>3 DEF Commas

\* The lists of the grammar are what the loop of the parser reads: an element,
\* and behind a comma a list.
LEMMA ListStep ==
    ASSUME NEW toks, ATokenList(toks), NEW G, GoodPieces(G), NEW f,
           NEW p \in 1 .. Len(toks),
           NEW L, \A q \in 1 .. Len(toks) : L[q] = ListsAt(toks, G, f, q)
    PROVE  ListsAt(toks, G, f, p)
               = UNION {Continued(toks, L, e) : e \in ElementsAt(toks, G, f, p)}
<1>. DEFINE P(a, k) == Pieces(toks, a, k - 1)
            N == Len(toks)
<1>0. N \in Nat \ {0} /\ toks[N].kind # Comma /\ p \in Nat \ {0}
  BY DEF ATokenList
<1>. HIDE DEF N
<1>1. ASSUME NEW k \in ListEnds(toks, G, p)
      PROVE  \E e \in ElementsAt(toks, G, f, p) :
                 Read(Values(f, P(p, k)), k) \in Continued(toks, L, e)
  <2>0. /\ k \in p .. N /\ k \in Nat /\ k - 1 \in Nat /\ p <= k
        /\ AllGood(G, P(p, k), toks[k].kind) /\ toks[k].kind # Comma
    BY <1>0 DEF ListEnds, N
  <2>1. CASE Commas(toks, p, k - 1) = {}
    <3>. DEFINE u == SubSeq(toks, p, k - 1)
                e == Read(f[u], k)
    <3>1. P(p, k) = <<u>>
      BY <1>0, <2>0, <2>1, NoComma
    <3>. HIDE DEF P
    <3>2. <<u, toks[k].kind>> \in G /\ Values(f, P(p, k)) = <<f[u]>>
      BY <2>0, <3>1, OneGood
    <3>3. e \in ElementsAt(toks, G, f, p)
      BY <2>0, <3>2 DEF ElementsAt, N
    <3>4. Continued(toks, L, e) = {Read(<<f[u]>>, k)}
      BY <2>0 DEF Continued, Read
    <3>. QED
      BY <3>2, <3>3, <3>4
  <2>2. CASE Commas(toks, p, k - 1) # {}
    <3>1. PICK x \in Commas(toks, p, k - 1) : \A y \in Commas(toks, p, k - 1) : x <= y
      <4>1. Commas(toks, p, k - 1) \subseteq Nat
        BY <1>0, <2>0 DEF Commas
      <4>. QED
        BY <2>2, <4>1, LeastNatural
    <3>2. x \in p .. k - 1 /\ x \in p .. N /\ x + 1 \in 1 .. N /\ k \in x + 1 .. N
          /\ toks[x].kind = Comma /\ x \in Nat /\ x + 1 \in Nat \ {0}
      <4>1. x \in p .. k - 1 /\ toks[x].kind = Comma
        BY DEF Commas
      <4>. QED
        BY <1>0, <2>0, <4>1
    <3>3. \A i \in p .. x - 1 : toks[i].kind # Comma
      <4>1. \A i \in p .. x - 1 : i \in p .. k - 1 /\ ~(x <= i)
        BY <1>0, <2>0, <3>2
      <4>. QED
        BY <3>1, <4>1 DEF Commas
    <3>. DEFINE u == SubSeq(toks, p, x - 1)
                e == Read(f[u], x)
                Q == P(x + 1, k)
    <3>4. P(p, k) = <<u>> \o Q
      BY <1>0, <2>0, <3>3, FirstComma
    <3>5. PICK n \in Nat \ {0} : Lists(Q, n)
      BY <2>0, <3>2, PiecesList
    <3>6. /\ <<u, Comma>> \in G /\ AllGood(G, Q, toks[k].kind)
          /\ Values(f, P(p, k)) = <<f[u]>> \o Values(f, Q)
      <4>1. P(p, k) = Before(u, Q)
        BY <3>4 DEF Before
      <4>. HIDE DEF P, u, Q
      <4>2. <<u, Comma>> \in G /\ AllGood(G, Q, toks[k].kind)
        BY <2>0, <3>5, <4>1, FirstGood
      <4>3. Values(f, P(p, k)) = Before(f[u], Values(f, Q))
        <5>1. PICK h : h = P(p, k)
          OBVIOUS
        <5>2. Values(f, h) = Before(f[u], Values(f, Q))
          BY <3>5, <4>1, <5>1, FirstValue
        <5>. QED
          BY <5>1, <5>2
      <4>. QED
        BY <4>2, <4>3 DEF Before
    <3>7. e \in ElementsAt(toks, G, f, p)
      BY <3>2, <3>6 DEF ElementsAt, N
    <3>8. Read(Values(f, Q), k) \in L[x + 1]
      <4>1. k \in ListEnds(toks, G, x + 1)
        BY <2>0, <3>2, <3>6 DEF ListEnds, N
      <4>2. Read(Values(f, Q), k) \in ListsAt(toks, G, f, x + 1)
        BY <4>1 DEF ListsAt
      <4>. QED
        BY <3>2, <4>2 DEF N
    <3>. HIDE DEF P, Q, u
    <3>9. Continued(toks, L, e) = UNION {{Read(<<f[u]>> \o r.val, r.next)} : r \in L[x + 1]}
      BY <3>2 DEF Continued, Read
    <3>10. Read(<<f[u]>> \o Values(f, Q), k)
               = Read(<<f[u]>> \o Read(Values(f, Q), k).val, Read(Values(f, Q), k).next)
      BY DEF Read
    <3>11. Read(<<f[u]>> \o Values(f, Q), k) \in Continued(toks, L, e)
      BY <3>8, <3>9, <3>10
    <3>. QED
      BY <3>6, <3>7, <3>11
  <2>. QED
    BY <2>1, <2>2
<1>2. ASSUME NEW e \in ElementsAt(toks, G, f, p), NEW z \in Continued(toks, L, e)
      PROVE  \E k \in ListEnds(toks, G, p) : z = Read(Values(f, P(p, k)), k)
  <2>1. PICK q \in p .. N : /\ <<SubSeq(toks, p, q - 1), toks[q].kind>> \in G
                            /\ e = Read(f[SubSeq(toks, p, q - 1)], q)
    BY DEF ElementsAt, N
  <2>2. q \in Nat /\ q \in p .. N /\ p <= q /\ q - 1 \in Nat
    BY <1>0
  <2>. DEFINE u == SubSeq(toks, p, q - 1)
  <2>3. p < q /\ Commas(toks, p, q - 1) = {}
    BY <1>0, <2>1, <2>2, ElementIs
  <2>4. CASE toks[q].kind # Comma
    <3>1. P(p, q) = <<u>>
      BY <1>0, <2>2, <2>3, NoComma
    <3>2. AllGood(G, P(p, q), toks[q].kind) /\ Values(f, P(p, q)) = <<f[u]>>
      BY <2>1, <3>1, OneGood
    <3>3. q \in ListEnds(toks, G, p)
      BY <2>2, <2>4, <3>2 DEF ListEnds, N
    <3>. HIDE DEF P, u
    <3>4. z = Read(<<f[u]>>, q)
      BY <2>1, <2>4 DEF Continued, Read, u
    <3>. QED
      BY <3>2, <3>3, <3>4
  <2>5. CASE toks[q].kind = Comma
    <3>1. q + 1 \in 1 .. N
      BY <1>0, <2>2, <2>5
    <3>2. PICK r \in L[q + 1] : z = Read(<<e.val>> \o r.val, r.next)
      <4>1. e.next = q
        BY <2>1 DEF Read
      <4>. QED
        BY <2>5, <4>1 DEF Continued
    <3>3. PICK k \in ListEnds(toks, G, q + 1) : r = Read(Values(f, P(q + 1, k)), k)
      <4>1. r \in ListsAt(toks, G, f, q + 1)
        BY <3>1 DEF N
      <4>. QED
        BY <4>1 DEF ListsAt
    <3>. DEFINE Q == P(q + 1, k)
    <3>4. /\ k \in q + 1 .. N /\ AllGood(G, Q, toks[k].kind) /\ toks[k].kind # Comma
      BY DEF ListEnds, N
    <3>5. k \in p .. N /\ k - 1 \in Nat /\ q \in p .. k - 1 /\ q + 1 \in Nat \ {0}
      BY <1>0, <2>2, <3>4
    <3>6. q \in Commas(toks, p, k - 1) /\ \A i \in p .. q - 1 : toks[i].kind # Comma
      BY <2>3, <2>5, <3>5 DEF Commas
    <3>7. P(p, k) = <<u>> \o Q
      BY <1>0, <3>5, <3>6, FirstComma
    <3>8. PICK n \in Nat \ {0} : Lists(Q, n)
      BY <3>5, PiecesList
    <3>9. AllGood(G, P(p, k), toks[k].kind) /\ Values(f, P(p, k)) = <<f[u]>> \o Values(f, Q)
      <4>1. P(p, k) = Before(u, Q) /\ <<u, Comma>> \in G
        BY <2>1, <2>5, <3>7 DEF Before
      <4>. HIDE DEF P, u, Q
      <4>2. AllGood(G, P(p, k), toks[k].kind)
        BY <3>4, <3>8, <4>1, FirstGood
      <4>3. Values(f, P(p, k)) = Before(f[u], Values(f, Q))
        <5>1. PICK h : h = P(p, k)
          OBVIOUS
        <5>2. PICK W : W = Q
          OBVIOUS
        <5>3. Lists(W, n) /\ h = Before(u, W)
          BY <3>8, <4>1, <5>1, <5>2
        <5>4. Values(f, h) = Before(f[u], Values(f, W))
          BY <5>3, FirstValue
        <5>. QED
          BY <5>1, <5>2, <5>4
      <4>. QED
        BY <4>2, <4>3 DEF Before
    <3>10. k \in ListEnds(toks, G, p)
      BY <3>4, <3>5, <3>9 DEF ListEnds, N
    <3>. HIDE DEF P, u
    <3>11. e.val = f[u] /\ r.val = Values(f, Q) /\ r.next = k
      BY <2>1, <3>3 DEF Read, u
    <3>. QED
      BY <3>2, <3>9, <3>10, <3>11
  <2>. QED
    BY <2>4, <2>5
<1>3. ASSUME NEW z
      PROVE  z \in ListsAt(toks, G, f, p)
             <=> z \in UNION {Continued(toks, L, e) : e \in ElementsAt(toks, G, f, p)}
  BY <1>1, <1>2 DEF ListsAt
<1>. QED
  BY <1>3

\* What the loop reads: an element, and behind a comma a list.
Loop(toks, G, f, L) ==
    L = [q \in 1 .. Len(toks) |-> UNION {Continued(toks, L, e) : e \in ElementsAt(toks, G, f, q)}]

\* Behind an element there is at least one token less.
LEMMA Behind ==
    ASSUME NEW toks, ATokenList(toks), NEW G, GoodPieces(G), NEW f, NEW q \in 1 .. Len(toks),
           NEW e \in ElementsAt(toks, G, f, q)
    PROVE  /\ e.next \in q + 1 .. Len(toks)
           /\ toks[e.next].kind = Comma => e.next + 1 \in q + 1 .. Len(toks)
<1>1. Len(toks) \in Nat \ {0} /\ toks[Len(toks)].kind # Comma
  BY DEF ATokenList
<1>2. PICK k \in q .. Len(toks) : /\ <<SubSeq(toks, q, k - 1), toks[k].kind>> \in G
                                  /\ e = Read(f[SubSeq(toks, q, k - 1)], k)
  BY DEF ElementsAt
<1>. e.next = k
  BY <1>2 DEF Read
<1>3. k \in Nat /\ q \in Nat \ {0} /\ q <= k
  BY <1>1
<1>4. q < k
  BY <1>2, <1>3, ElementIs
<1>. QED
  BY <1>1, <1>2, <1>3, <1>4

\* It stops, as what is left gets shorter: two loops are one, ...
LEMMA OneLoop ==
    ASSUME NEW toks, ATokenList(toks), NEW G, GoodPieces(G), NEW f,
           NEW L, Loop(toks, G, f, L), NEW K, Loop(toks, G, f, K)
    PROVE  L = K
<1>. DEFINE N == Len(toks)
<1>1. N \in Nat
  BY DEF ATokenList
<1>2. ASSUME NEW q \in 1 .. N, \A r \in q + 1 .. N : L[r] = K[r]
      PROVE  L[q] = K[q]
  <2>1. ASSUME NEW e \in ElementsAt(toks, G, f, q)
        PROVE  Continued(toks, L, e) = Continued(toks, K, e)
    <3>1. toks[e.next].kind = Comma => e.next + 1 \in q + 1 .. N
      BY Behind
    <3>. QED
      BY <1>2, <3>1 DEF Continued
  <2>2. {Continued(toks, L, e) : e \in ElementsAt(toks, G, f, q)}
            = {Continued(toks, K, e) : e \in ElementsAt(toks, G, f, q)}
    BY <2>1
  <2>. QED
    BY <2>2 DEF Loop
<1>. DEFINE Good == {q \in 1 .. N : L[q] = K[q]}
<1>3. \A q \in 1 .. N : (\A r \in q + 1 .. N : r \in Good) => q \in Good
  BY <1>2
<1>. HIDE DEF Good
<1>4. \A q \in 1 .. N : q \in Good
  BY <1>1, <1>3, Backwards
<1>5. \A q \in 1 .. N : L[q] = K[q]
  BY <1>4 DEF Good
<1>. QED
  BY <1>5 DEF Loop

\* ... the lists of the grammar, ...
LEMMA LoopIs ==
    ASSUME NEW toks, ATokenList(toks), NEW G, GoodPieces(G), NEW f
    PROVE  Loop(toks, G, f, [q \in 1 .. Len(toks) |-> ListsAt(toks, G, f, q)])
<1>. DEFINE K == [q \in 1 .. Len(toks) |-> ListsAt(toks, G, f, q)]
<1>1. \A q \in 1 .. Len(toks) : K[q] = ListsAt(toks, G, f, q)
  OBVIOUS
<1>2. ASSUME NEW q \in 1 .. Len(toks)
      PROVE  ListsAt(toks, G, f, q)
                 = UNION {Continued(toks, K, e) : e \in ElementsAt(toks, G, f, q)}
  <2>. HIDE DEF K
  <2>. QED
    BY <1>1, ListStep
<1>. QED
  BY <1>2 DEF Loop

\* ... and one at most, if there is at most one element.
AtMostOne(S) == \A x, y \in S : x = y

LEMMA OneList ==
    ASSUME NEW toks, ATokenList(toks), NEW G, GoodPieces(G), NEW f,
           \A q \in 1 .. Len(toks) : AtMostOne(ElementsAt(toks, G, f, q)),
           NEW p \in 1 .. Len(toks)
    PROVE  AtMostOne(ListsAt(toks, G, f, p))
<1>. DEFINE N == Len(toks)
            K == [q \in 1 .. N |-> ListsAt(toks, G, f, q)]
<1>1. N \in Nat
  BY DEF ATokenList
<1>2. ASSUME NEW q \in 1 .. N, \A r \in q + 1 .. N : AtMostOne(K[r])
      PROVE  AtMostOne(K[q])
  <2>1. K[q] = UNION {Continued(toks, K, e) : e \in ElementsAt(toks, G, f, q)}
    BY LoopIs DEF Loop
  <2>. HIDE DEF K
  <2>2. ASSUME NEW e \in ElementsAt(toks, G, f, q)
        PROVE  AtMostOne(Continued(toks, K, e))
    <3>1. toks[e.next].kind = Comma => AtMostOne(K[e.next + 1])
      BY <1>2, Behind
    <3>. QED
      BY <3>1 DEF Continued, AtMostOne
  <2>. QED
    BY <2>1, <2>2 DEF AtMostOne
<1>. DEFINE Good == {q \in 1 .. N : AtMostOne(K[q])}
<1>3. \A q \in 1 .. N : (\A r \in q + 1 .. N : r \in Good) => q \in Good
  BY <1>2
<1>. HIDE DEF Good
<1>4. p \in Good
  BY <1>1, <1>3, Backwards
<1>. QED
  BY <1>4 DEF Good

-----------------------------------------------------------------------------
(* Select lists and lists of columns. *)

\* What Lex returns: tokens, and behind them EOF.
EndsInEOF(toks) ==
    \E n \in Nat \ {0} :
        /\ Lists(toks, n) /\ Len(toks) = n
        /\ \A i \in 1 .. n : toks[i].kind = "EOF" <=> i = n

Parts(toks) == {SubSeq(toks, a, b) : a \in 1 .. Len(toks), b \in 0 .. Len(toks)}
PartsBefore(toks) == Parts(toks) \X {toks[i].kind : i \in 1 .. Len(toks)}

ItemPieces(toks) ==
    {g \in PartsBefore(toks) : (IsColumn(g[1]) /\ g[2] # "(") \/ IsCount(g[1]) \/ IsFunc(g[1])}
ItemOf(u) ==
    IF IsColumn(u) THEN Item("bare", u[1].text, <<>>)
    ELSE IF IsCount(u) THEN Item("count", <<>>, <<>>) ELSE Item("func", u[3].text, u[1].text)
ItemsOf(toks) == [u \in Parts(toks) |-> ItemOf(u)]

ColumnPieces(toks) == {g \in PartsBefore(toks) : IsColumn(g[1])}
ColumnsOf(toks) == [u \in Parts(toks) |-> u[1].text]

LEMMA CommaIs == Comma # "EOF" /\ Comma # "ident" /\ Comma # "(" /\ Comma # ")" /\ Comma # "*"
  BY Zenon DEF Comma

LEMMA EOFEnds ==
    ASSUME NEW toks, EndsInEOF(toks)
    PROVE  /\ ATokenList(toks) /\ Len(toks) \in Nat \ {0}
           /\ \A i \in 1 .. Len(toks) : toks[i].kind = "EOF" <=> i = Len(toks)
<1>1. PICK n \in Nat \ {0} :
          /\ Lists(toks, n) /\ Len(toks) = n
          /\ \A i \in 1 .. n : toks[i].kind = "EOF" <=> i = n
  BY DEF EndsInEOF
<1>2. toks[n].kind = "EOF"
  BY <1>1
<1>3. toks[n].kind # Comma
  BY <1>2, CommaIs
<1>. QED
  BY <1>1, <1>3 DEF ATokenList

\* v is what stands from p to r.
APiece(toks, p, r, v) ==
    p \in Nat \ {0} /\ r \in Nat /\ p <= r + 1 /\ v = SubSeq(toks, p, r)

LEMMA TokensOf ==
    ASSUME NEW toks, NEW p, NEW r, NEW v, APiece(toks, p, r, v)
    PROVE  \E n \in Nat :
               /\ n = r - p + 1 /\ Lists(Kinds(v), n)
               /\ \A i \in 1 .. n : v[i] = toks[p + i - 1] /\ Kinds(v)[i] = v[i].kind
<1>. DEFINE n == r - p + 1
<1>1. n \in Nat /\ DOMAIN v = 1 .. n /\ \A i \in 1 .. n : v[i] = toks[p + i - 1]
  BY DEF APiece
<1>. HIDE DEF n
<1>2. Lists(Kinds(v), n) /\ \A i \in 1 .. n : Kinds(v)[i] = v[i].kind
  BY <1>1 DEF Kinds, Lists
<1>. QED
  BY <1>1, <1>2 DEF n

\* The shapes of a piece.
LEMMA ColumnShape ==
    ASSUME NEW toks, NEW p, NEW r, NEW v, APiece(toks, p, r, v)
    PROVE  IsColumn(v) <=> r = p /\ toks[p].kind = "ident"
<1>1. PICK n \in Nat :
          /\ n = r - p + 1 /\ Lists(Kinds(v), n)
          /\ \A i \in 1 .. n : v[i] = toks[p + i - 1] /\ Kinds(v)[i] = v[i].kind
  BY TokensOf
<1>2. n = 1 <=> r = p
  BY <1>1 DEF APiece
<1>3. r = p => Kinds(v) = <<toks[p].kind>>
  <2>1. r = p => n = 1 /\ 1 \in 1 .. n /\ p + 1 - 1 = p
    BY <1>2 DEF APiece
  <2>. QED
    BY <1>1, <2>1, ListOfOne
<1>4. Kinds(v) = <<"ident">> => r = p
  BY <1>1, <1>2, HowLong
<1>. QED
  BY <1>3, <1>4 DEF IsColumn

FirstOf(toks, p, r, v) ==
    (r >= p => v[1] = toks[p]) /\ (r = p + 3 => v[3] = toks[p + 2])

LEMMA FirstTokens ==
    ASSUME NEW toks, NEW p, NEW r, NEW v, APiece(toks, p, r, v)
    PROVE  FirstOf(toks, p, r, v)
<1>1. PICK n \in Nat :
          n = r - p + 1 /\ \A i \in 1 .. n : v[i] = toks[p + i - 1]
  BY TokensOf
<1>2. r >= p => 1 \in 1 .. n /\ p + 1 - 1 = p
  BY <1>1 DEF APiece
<1>3. r = p + 3 => 3 \in 1 .. n /\ p + 3 - 1 = p + 2
  BY <1>1 DEF APiece
<1>. QED
  BY <1>1, <1>2, <1>3 DEF FirstOf

CallAt(toks, p, c) ==
    /\ toks[p].kind = "ident" /\ toks[p + 1].kind = "("
    /\ toks[p + 2].kind = c /\ toks[p + 3].kind = ")"

LEMMA CallShape ==
    ASSUME NEW toks, NEW p, NEW r, NEW v, APiece(toks, p, r, v), NEW c
    PROVE  Kinds(v) = <<"ident", "(", c, ")">> <=> r = p + 3 /\ CallAt(toks, p, c)
<1>1. PICK n \in Nat :
          /\ n = r - p + 1 /\ Lists(Kinds(v), n)
          /\ \A i \in 1 .. n : v[i] = toks[p + i - 1] /\ Kinds(v)[i] = v[i].kind
  BY TokensOf
<1>2. n = 4 <=> r = p + 3
  BY <1>1 DEF APiece
<1>3. r = p + 3 => Kinds(v) = <<toks[p].kind, toks[p + 1].kind, toks[p + 2].kind, toks[p + 3].kind>>
  <2>1. r = p + 3 =>
            /\ n = 4 /\ 1 \in 1 .. n /\ 2 \in 1 .. n /\ 3 \in 1 .. n /\ 4 \in 1 .. n
            /\ p + 1 - 1 = p /\ p + 2 - 1 = p + 1 /\ p + 3 - 1 = p + 2 /\ p + 4 - 1 = p + 3
    BY <1>2 DEF APiece
  <2>2. r = p + 3 => /\ Kinds(v)[1] = toks[p].kind /\ Kinds(v)[2] = toks[p + 1].kind
                     /\ Kinds(v)[3] = toks[p + 2].kind /\ Kinds(v)[4] = toks[p + 3].kind
    BY <1>1, <2>1
  <2>. QED
    BY <1>1, <2>1, <2>2, ListOfFour
<1>4. Kinds(v) = <<"ident", "(", c, ")">> => r = p + 3
  BY <1>1, <1>2, HowLong
<1>. QED
  BY <1>3, <1>4 DEF CallAt

\* What can be read at p, by its shape.
BareAt(toks, p) == toks[p].kind = "ident" /\ toks[p + 1].kind # "("
CountAt(toks, p) == CallAt(toks, p, "*") /\ Fold(toks[p].text) = <<"count">>
FuncAt(toks, p) == CallAt(toks, p, "ident")

ItemAt(toks, p) ==
    If(BareAt(toks, p), Read(Item("bare", toks[p].text, <<>>), p + 1))
    \cup If(CountAt(toks, p), Read(Item("count", <<>>, <<>>), p + 4))
    \cup If(FuncAt(toks, p), Read(Item("func", toks[p + 2].text, toks[p].text), p + 4))

\* parseSelectItem
LEMMA SelectItemIs ==
    ASSUME NEW toks, NEW p \in Nat
    PROVE  ParseSelectItem(toks, p) = ItemAt(toks, p)
<1>. DEFINE q == p + 1
            RestOf(name, next) ==
                CASE toks[next].kind # "(" -> {Read(Item("bare", name, <<>>), next)}
                  [] toks[next].kind = "(" /\ toks[next + 1].kind = "*" ->
                       Then(IF Fold(name) = <<"count">> THEN Expect(toks, next + 2, ")") ELSE {},
                            LAMBDA r : {Read(Item("count", <<>>, <<>>), r)})
                  [] OTHER ->
                       Then(ExpectIdent(toks, next + 1), LAMBDA column :
                           Then(Expect(toks, column.next, ")"), LAMBDA r :
                               {Read(Item("func", column.val, name), r)}))
            Rest == RestOf(toks[p].text, q)
<1>1. ParseSelectItem(toks, p) = IF toks[p].kind = "ident" THEN Rest ELSE {}
  <2>1. CASE toks[p].kind = "ident"
    <3>1. ExpectIdent(toks, p) = {Read(toks[p].text, q)}
      BY <2>1 DEF ExpectIdent, If
    <3>2. Read(toks[p].text, q).val = toks[p].text /\ Read(toks[p].text, q).next = q
      BY DEF Read
    <3>. DEFINE R == Read(toks[p].text, q)
    <3>3. ParseSelectItem(toks, p)
              = UNION {RestOf(name.val, name.next) : name \in ExpectIdent(toks, p)}
      BY DEF ParseSelectItem, Then
    <3>. HIDE DEF RestOf, R
    <3>4. UNION {RestOf(name.val, name.next) : name \in {R}} = RestOf(R.val, R.next)
      OBVIOUS
    <3>. QED
      BY <2>1, <3>1, <3>2, <3>3, <3>4 DEF R
  <2>2. CASE toks[p].kind # "ident"
    <3>1. ExpectIdent(toks, p) = {}
      BY <2>2 DEF ExpectIdent, If
    <3>. QED
      BY <2>2, <3>1 DEF ParseSelectItem, Then
  <2>. QED
    BY <2>1, <2>2
<1>2. q + 1 = p + 2 /\ (q + 2) + 1 = p + 4 /\ q + 2 = p + 3 /\ (p + 2) + 1 = p + 3 /\ (p + 3) + 1 = p + 4
  OBVIOUS
<1>3. CASE toks[p].kind # "ident"
  BY <1>1, <1>3 DEF ItemAt, If, BareAt, CountAt, FuncAt, CallAt
<1>4. CASE toks[p].kind = "ident" /\ toks[q].kind # "("
  <2>1. Rest = {Read(Item("bare", toks[p].text, <<>>), q)}
    BY <1>4
  <2>. QED
    BY <1>1, <1>4, <2>1 DEF ItemAt, If, BareAt, CountAt, FuncAt, CallAt
<1>5. CASE toks[p].kind = "ident" /\ toks[q].kind = "(" /\ toks[q + 1].kind = "*"
  <2>1. Rest = Then(IF Fold(toks[p].text) = <<"count">> THEN Expect(toks, q + 2, ")") ELSE {},
                    LAMBDA r : {Read(Item("count", <<>>, <<>>), r)})
    BY <1>5
  <2>2. Rest = If(CountAt(toks, p), Read(Item("count", <<>>, <<>>), p + 4))
    BY <1>2, <1>5, <2>1 DEF Then, If, Expect, CountAt, CallAt
  <2>. QED
    BY <1>1, <1>2, <1>5, <2>2 DEF ItemAt, If, BareAt, FuncAt, CallAt
<1>6. CASE toks[p].kind = "ident" /\ toks[q].kind = "(" /\ toks[q + 1].kind # "*"
  <2>1. Rest = Then(ExpectIdent(toks, q + 1), LAMBDA column :
                   Then(Expect(toks, column.next, ")"), LAMBDA r :
                       {Read(Item("func", column.val, toks[p].text), r)}))
    BY <1>6
  <2>2. Rest = If(FuncAt(toks, p), Read(Item("func", toks[p + 2].text, toks[p].text), p + 4))
    <3>1. CASE toks[p + 2].kind = "ident"
      <4>. DEFINE R == Read(toks[p + 2].text, p + 3)
                  Z(val) == Read(Item("func", val, toks[p].text), p + 4)
                  Of(column) == UNION {{Read(Item("func", column.val, toks[p].text), r)} :
                                         r \in Expect(toks, column.next, ")")}
      <4>1. ExpectIdent(toks, q + 1) = {R}
        BY <1>2, <3>1 DEF ExpectIdent, If
      <4>2. Rest = UNION {Of(column) : column \in ExpectIdent(toks, q + 1)}
        BY <2>1 DEF Then
      <4>3. Expect(toks, p + 3, ")") = If(FuncAt(toks, p), p + 4)
        BY <1>2, <1>6, <3>1 DEF Expect, If, FuncAt, CallAt
      <4>4. Of(R) = If(FuncAt(toks, p), Z(toks[p + 2].text))
        <5>1. R.val = toks[p + 2].text /\ R.next = p + 3
          BY DEF Read
        <5>. HIDE DEF R
        <5>2. Of(R) = UNION {{Read(Item("func", toks[p + 2].text, toks[p].text), r)} :
                               r \in If(FuncAt(toks, p), p + 4)}
          BY <4>3, <5>1
        <5>. QED
          BY <5>2 DEF If
      <4>. HIDE DEF Of, R, Rest
      <4>5. UNION {Of(column) : column \in {R}} = Of(R)
        OBVIOUS
      <4>. QED
        BY <4>1, <4>2, <4>4, <4>5
    <3>2. CASE toks[p + 2].kind # "ident"
      <4>1. ExpectIdent(toks, q + 1) = {}
        BY <1>2, <3>2 DEF ExpectIdent, If
      <4>. QED
        BY <2>1, <3>2, <4>1 DEF Then, If, FuncAt, CallAt
    <3>. QED
      BY <3>1, <3>2
  <2>. QED
    BY <1>1, <1>2, <1>6, <2>2 DEF ItemAt, If, BareAt, CountAt, CallAt
<1>. QED
  BY <1>3, <1>4, <1>5, <1>6

LEMMA ShapeIsOne ==
    ASSUME NEW toks, NEW p
    PROVE  /\ ~(BareAt(toks, p) /\ CountAt(toks, p)) /\ ~(BareAt(toks, p) /\ FuncAt(toks, p))
           /\ ~(CountAt(toks, p) /\ FuncAt(toks, p))
<1>1. "*" # "ident"
  OBVIOUS
<1>. QED
  BY <1>1 DEF BareAt, CountAt, FuncAt, CallAt

\* Four tokens that are not EOF have a token behind them.
LEMMA FourFit ==
    ASSUME NEW toks, EndsInEOF(toks), NEW p \in 1 .. Len(toks),
           CountAt(toks, p) \/ FuncAt(toks, p)
    PROVE  p + 4 \in 1 .. Len(toks)
<1>1. /\ Len(toks) \in Nat \ {0}
      /\ \A i \in 1 .. Len(toks) : toks[i].kind # "EOF" => i # Len(toks)
  BY EOFEnds
<1>2. /\ toks[p].kind # "EOF" /\ toks[p + 1].kind # "EOF" /\ toks[p + 2].kind # "EOF"
      /\ toks[p + 3].kind # "EOF"
  BY DEF CountAt, FuncAt, CallAt
<1>3. p + 1 \in 1 .. Len(toks)
  BY <1>1, <1>2
<1>4. p + 2 \in 1 .. Len(toks)
  BY <1>1, <1>2, <1>3
<1>5. p + 3 \in 1 .. Len(toks)
  BY <1>1, <1>2, <1>4
<1>. QED
  BY <1>1, <1>2, <1>5

\* The piece between two positions, and the token behind it.
LEMMA APart ==
    ASSUME NEW toks, Len(toks) \in Nat, NEW p \in 1 .. Len(toks), NEW q \in p .. Len(toks)
    PROVE  /\ SubSeq(toks, p, q - 1) \in Parts(toks)
           /\ <<SubSeq(toks, p, q - 1), toks[q].kind>> \in PartsBefore(toks)
<1>1. q - 1 \in 0 .. Len(toks) /\ q \in 1 .. Len(toks)
  OBVIOUS
<1>2. PICK u : u = SubSeq(toks, p, q - 1)
  OBVIOUS
<1>3. u \in Parts(toks)
  <2>1. PICK b \in 0 .. Len(toks) : b = q - 1
    BY <1>1
  <2>2. u = SubSeq(toks, p, b)
    BY <1>2, <2>1
  <2>. QED
    BY <2>2 DEF Parts
<1>4. <<u, toks[q].kind>> \in PartsBefore(toks)
  BY <1>1, <1>3 DEF PartsBefore
<1>. QED
  BY <1>2, <1>3, <1>4

LEMMA ItemElements ==
    ASSUME NEW toks, EndsInEOF(toks), NEW p \in 1 .. Len(toks)
    PROVE  ElementsAt(toks, ItemPieces(toks), ItemsOf(toks), p) = ItemAt(toks, p)
<1>. DEFINE N == Len(toks)
            G == ItemPieces(toks)
            u(q) == SubSeq(toks, p, q - 1)
<1>1. /\ N \in Nat \ {0} /\ p \in Nat \ {0}
      /\ toks[p].kind = "ident" => p + 1 \in 1 .. N
  <2>1. N \in Nat \ {0} /\ \A i \in 1 .. N : toks[i].kind = "EOF" <=> i = N
    BY EOFEnds
  <2>2. toks[p].kind = "ident" => p # N
    BY <2>1
  <2>. QED
    BY <2>1, <2>2
<1>2. ASSUME NEW q \in p .. N
      PROVE  /\ IsColumn(u(q)) <=> q = p + 1 /\ toks[p].kind = "ident"
             /\ IsCount(u(q)) <=> q = p + 4 /\ CountAt(toks, p)
             /\ IsFunc(u(q)) <=> q = p + 4 /\ FuncAt(toks, p)
             /\ q >= p + 1 => u(q)[1] = toks[p]
             /\ q = p + 4 => u(q)[3] = toks[p + 2]
  <2>1. PICK r \in Nat : /\ r = q - 1 /\ p <= r + 1 /\ (r = p <=> q = p + 1)
                         /\ (r = p + 3 <=> q = p + 4) /\ (r >= p <=> q >= p + 1)
    BY <1>1
  <2>2. PICK v : v = SubSeq(toks, p, r)
    OBVIOUS
  <2>3. APiece(toks, p, r, v)
    BY <1>1, <2>1, <2>2 DEF APiece
  <2>4. IsColumn(v) <=> r = p /\ toks[p].kind = "ident"
    BY <2>3, ColumnShape
  <2>5. FirstOf(toks, p, r, v)
    BY <2>3, FirstTokens
  <2>6. IsCount(v) <=> r = p + 3 /\ CountAt(toks, p)
    <3>1. Kinds(v) = <<"ident", "(", "*", ")">> <=> r = p + 3 /\ CallAt(toks, p, "*")
      BY <2>3, CallShape
    <3>2. r = p + 3 => v[1] = toks[p]
      BY <1>1, <2>1, <2>5 DEF FirstOf
    <3>. QED
      BY <3>1, <3>2 DEF IsCount, CountAt, CallAt, Word
  <2>7. IsFunc(v) <=> r = p + 3 /\ FuncAt(toks, p)
    BY <2>3, CallShape DEF IsFunc, FuncAt
  <2>. QED
    BY <2>1, <2>2, <2>4, <2>5, <2>6, <2>7 DEF FirstOf
<1>3. ASSUME NEW q \in p .. N
      PROVE  /\ <<u(q), toks[q].kind>> \in G
                <=> \/ q = p + 1 /\ BareAt(toks, p)
                    \/ q = p + 4 /\ (CountAt(toks, p) \/ FuncAt(toks, p))
             /\ q = p + 1 /\ BareAt(toks, p)
                => ItemsOf(toks)[u(q)] = Item("bare", toks[p].text, <<>>)
             /\ q = p + 4 /\ CountAt(toks, p) => ItemsOf(toks)[u(q)] = Item("count", <<>>, <<>>)
             /\ q = p + 4 /\ FuncAt(toks, p)
                => ItemsOf(toks)[u(q)] = Item("func", toks[p + 2].text, toks[p].text)
  <2>1. <<u(q), toks[q].kind>> \in PartsBefore(toks) /\ ItemsOf(toks)[u(q)] = ItemOf(u(q))
    BY <1>1, APart DEF ItemsOf
  <2>2. <<u(q), toks[q].kind>> \in G
        <=> (IsColumn(u(q)) /\ toks[q].kind # "(") \/ IsCount(u(q)) \/ IsFunc(u(q))
    BY <2>1 DEF ItemPieces
  <2>. HIDE DEF u, G
  <2>3. <<u(q), toks[q].kind>> \in G
        <=> \/ q = p + 1 /\ BareAt(toks, p)
            \/ q = p + 4 /\ (CountAt(toks, p) \/ FuncAt(toks, p))
    BY <1>2, <2>2 DEF BareAt
  <2>4. q = p + 1 => q # p + 4 /\ q >= p + 1
    BY <1>1
  <2>5. q = p + 4 => q # p + 1 /\ q >= p + 1
    BY <1>1
  <2>. QED
    BY <1>2, <2>1, <2>3, <2>4, <2>5, ShapeIsOne DEF ItemOf, BareAt
<1>4. BareAt(toks, p) => p + 1 \in p .. N
  BY <1>1 DEF BareAt
<1>5. CountAt(toks, p) \/ FuncAt(toks, p) => p + 4 \in p .. N
  BY <1>1, FourFit
<1>6. ElementsAt(toks, G, ItemsOf(toks), p)
          = {Read(ItemsOf(toks)[u(q)], q) : q \in {q \in p .. N : <<u(q), toks[q].kind>> \in G}}
  BY DEF ElementsAt
<1>. HIDE DEF u, G, N
<1>7. ASSUME NEW z
      PROVE  z \in ElementsAt(toks, G, ItemsOf(toks), p) <=> z \in ItemAt(toks, p)
  <2>1. ASSUME z \in ElementsAt(toks, G, ItemsOf(toks), p)
        PROVE  z \in ItemAt(toks, p)
    <3>1. PICK q \in p .. N : <<u(q), toks[q].kind>> \in G /\ z = Read(ItemsOf(toks)[u(q)], q)
      BY <1>6, <2>1
    <3>. QED
      BY <1>3, <3>1 DEF ItemAt, If
  <2>2. ASSUME z \in ItemAt(toks, p)
        PROVE  z \in ElementsAt(toks, G, ItemsOf(toks), p)
    <3>1. \/ BareAt(toks, p) /\ z = Read(ItemsOf(toks)[u(p + 1)], p + 1)
          \/ (CountAt(toks, p) \/ FuncAt(toks, p)) /\ z = Read(ItemsOf(toks)[u(p + 4)], p + 4)
      BY <1>3, <1>4, <1>5, <2>2 DEF ItemAt, If
    <3>. QED
      BY <1>3, <1>4, <1>5, <1>6, <3>1
  <2>. QED
    BY <2>1, <2>2
<1>. QED
  BY <1>7 DEF G

LEMMA PartIs ==
    ASSUME NEW toks, Len(toks) \in Nat, NEW u \in Parts(toks)
    PROVE  \E n \in Nat : /\ Len(u) = n /\ Lists(Kinds(u), n)
                          /\ \A i \in 1 .. n : Kinds(u)[i] = u[i].kind
<1>1. PICK a \in 1 .. Len(toks), b \in 0 .. Len(toks) : u = SubSeq(toks, a, b)
  BY DEF Parts
<1>2. PICK n \in Nat : (a <= b => n = b - a + 1) /\ (~(a <= b) => n = 0)
  <2>1. a <= b => b - a + 1 \in Nat
    OBVIOUS
  <2>2. CASE a <= b
    BY <2>1, <2>2
  <2>3. CASE ~(a <= b)
    BY <2>3
  <2>. QED
    BY <2>2, <2>3
<1>3. DOMAIN u = 1 .. n /\ Len(u) = n
  BY <1>1, <1>2
<1>4. Kinds(u) = [i \in 1 .. n |-> u[i].kind]
  BY <1>3 DEF Kinds
<1>. QED
  BY <1>3, <1>4 DEF Lists

LEMMA GoodKinds ==
    ASSUME NEW toks, Len(toks) \in Nat, NEW u \in Parts(toks),
           IsColumn(u) \/ IsCount(u) \/ IsFunc(u)
    PROVE  Len(u) > 0 /\ \A i \in 1 .. Len(u) : u[i].kind # Comma
<1>1. PICK n \in Nat : /\ Len(u) = n /\ Lists(Kinds(u), n)
                       /\ \A i \in 1 .. n : Kinds(u)[i] = u[i].kind
  BY PartIs
<1>2. CASE IsColumn(u)
  <2>1. Kinds(u) = <<"ident">> /\ n = 1
    BY <1>1, <1>2, HowLong DEF IsColumn
  <2>2. \A i \in 1 .. 1 : Kinds(u)[i] = "ident"
    BY <2>1
  <2>. QED
    BY <1>1, <2>1, <2>2, CommaIs
<1>3. ASSUME NEW c, c # Comma, Kinds(u) = <<"ident", "(", c, ")">>
      PROVE  Len(u) > 0 /\ \A i \in 1 .. Len(u) : u[i].kind # Comma
  <2>1. n = 4
    BY <1>1, <1>3, HowLong
  <2>2. /\ \A i \in 1 .. 4 : i = 1 \/ i = 2 \/ i = 3 \/ i = 4
        /\ Kinds(u)[1] = "ident" /\ Kinds(u)[2] = "(" /\ Kinds(u)[3] = c /\ Kinds(u)[4] = ")"
    BY <1>3
  <2>3. \A i \in 1 .. 4 : Kinds(u)[i] # Comma
    BY <1>3, <2>2, CommaIs
  <2>. QED
    BY <1>1, <2>1, <2>3
<1>4. CASE IsCount(u)
  BY <1>3, <1>4, CommaIs DEF IsCount
<1>5. CASE IsFunc(u)
  BY <1>3, <1>5, CommaIs DEF IsFunc
<1>. QED
  BY <1>2, <1>4, <1>5

LEMMA PiecesAreGood ==
    ASSUME NEW toks, Len(toks) \in Nat
    PROVE  GoodPieces(ItemPieces(toks)) /\ GoodPieces(ColumnPieces(toks))
<1>1. ASSUME NEW u, NEW kind, <<u, kind>> \in ItemPieces(toks) \cup ColumnPieces(toks)
      PROVE  Len(u) > 0 /\ \A i \in 1 .. Len(u) : u[i].kind # Comma
  <2>1. u \in Parts(toks) /\ (IsColumn(u) \/ IsCount(u) \/ IsFunc(u))
    BY <1>1 DEF ItemPieces, ColumnPieces, PartsBefore
  <2>. QED
    BY <2>1, GoodKinds
<1>. QED
  BY <1>1 DEF GoodPieces

\* expectIdent
LEMMA ColumnElements ==
    ASSUME NEW toks, EndsInEOF(toks), NEW p \in 1 .. Len(toks)
    PROVE  /\ ElementsAt(toks, ColumnPieces(toks), ColumnsOf(toks), p) = ExpectIdent(toks, p)
           /\ AtMostOne(ExpectIdent(toks, p))
<1>. DEFINE N == Len(toks)
            G == ColumnPieces(toks)
            u(q) == SubSeq(toks, p, q - 1)
<1>1. /\ N \in Nat \ {0} /\ p \in Nat \ {0}
      /\ toks[p].kind = "ident" => p + 1 \in p .. N
  <2>1. N \in Nat \ {0} /\ \A i \in 1 .. N : toks[i].kind = "EOF" <=> i = N
    BY EOFEnds
  <2>2. toks[p].kind = "ident" => p # N
    BY <2>1
  <2>. QED
    BY <2>1, <2>2
<1>2. ASSUME NEW q \in p .. N
      PROVE  /\ <<u(q), toks[q].kind>> \in G <=> q = p + 1 /\ toks[p].kind = "ident"
             /\ q = p + 1 => ColumnsOf(toks)[u(q)] = toks[p].text
  <2>1. PICK r \in Nat : r = q - 1 /\ p <= r + 1 /\ (r = p <=> q = p + 1) /\ (q = p + 1 => r >= p)
    BY <1>1
  <2>2. PICK v : v = SubSeq(toks, p, r)
    OBVIOUS
  <2>3. APiece(toks, p, r, v) /\ v = u(q)
    BY <1>1, <2>1, <2>2 DEF APiece
  <2>4. (IsColumn(v) <=> r = p /\ toks[p].kind = "ident") /\ FirstOf(toks, p, r, v)
    BY <2>3, ColumnShape, FirstTokens
  <2>5. <<u(q), toks[q].kind>> \in PartsBefore(toks) /\ ColumnsOf(toks)[u(q)] = u(q)[1].text
    BY <1>1, APart DEF ColumnsOf
  <2>6. <<u(q), toks[q].kind>> \in G <=> IsColumn(u(q))
    BY <2>5 DEF ColumnPieces
  <2>. HIDE DEF u, G
  <2>. QED
    BY <2>1, <2>3, <2>4, <2>5, <2>6 DEF FirstOf
<1>3. ElementsAt(toks, G, ColumnsOf(toks), p)
          = {Read(ColumnsOf(toks)[u(q)], q) : q \in {q \in p .. N : <<u(q), toks[q].kind>> \in G}}
  BY DEF ElementsAt
<1>4. ExpectIdent(toks, p) = If(toks[p].kind = "ident", Read(toks[p].text, p + 1))
  BY DEF ExpectIdent
<1>. HIDE DEF u, G, N
<1>5. ASSUME NEW z
      PROVE  z \in ElementsAt(toks, G, ColumnsOf(toks), p) <=> z \in ExpectIdent(toks, p)
  BY <1>1, <1>2, <1>3, <1>4 DEF If
<1>. QED
  BY <1>4, <1>5 DEF AtMostOne, If, G

LEMMA OneItem ==
    ASSUME NEW toks, NEW p
    PROVE  AtMostOne(ItemAt(toks, p))
BY ShapeIsOne DEF AtMostOne, ItemAt, If

\* parseSelectList and parseColList read the lists of the grammar, of which there is one
\* at most.
LEMMA SelectListIs ==
    ASSUME NEW toks, EndsInEOF(toks), NEW p \in 1 .. Len(toks)
    PROVE  /\ ParseSelectList(toks, p) = ListsAt(toks, ItemPieces(toks), ItemsOf(toks), p)
           /\ AtMostOne(ParseSelectList(toks, p))
<1>. DEFINE N == Len(toks)
            G == ItemPieces(toks)
            f == ItemsOf(toks)
            Step(L) == [q \in DOMAIN toks |-> UNION {Continued(toks, L, e) : e \in ParseSelectItem(toks, q)}]
            List == CHOOSE L : L = Step(L)
            K == [q \in 1 .. N |-> ListsAt(toks, G, f, q)]
<1>1. ATokenList(toks) /\ GoodPieces(G) /\ N \in Nat /\ DOMAIN toks = 1 .. N
  <2>1. ATokenList(toks) /\ N \in Nat
    BY EOFEnds
  <2>. QED
    BY <2>1, PiecesAreGood, ListIs DEF ATokenList
<1>2. \A q \in 1 .. N : ParseSelectItem(toks, q) = ElementsAt(toks, G, f, q)
                        /\ AtMostOne(ElementsAt(toks, G, f, q))
  <2>1. \A q \in 1 .. N : q \in Nat /\ ParseSelectItem(toks, q) = ItemAt(toks, q)
    BY <1>1, SelectItemIs
  <2>. QED
    BY <2>1, ItemElements, OneItem
<1>3. ParseSelectList(toks, p) = List[p]
  BY DEF ParseSelectList, ParseList, Then, Continued
<1>. HIDE DEF G, f
<1>4. ASSUME NEW L
      PROVE  L = Step(L) <=> Loop(toks, G, f, L)
  BY <1>1, <1>2 DEF Loop
<1>5. Loop(toks, G, f, K)
  BY <1>1, LoopIs
<1>. HIDE DEF Step, K
<1>6. List = Step(List)
  BY <1>4, <1>5
<1>7. List = K
  BY <1>1, <1>4, <1>5, <1>6, OneLoop
<1>8. AtMostOne(ListsAt(toks, G, f, p))
  BY <1>1, <1>2, OneList
<1>. QED
  BY <1>3, <1>7, <1>8 DEF K, G, f

LEMMA ColListIs ==
    ASSUME NEW toks, EndsInEOF(toks), NEW p \in 1 .. Len(toks)
    PROVE  /\ ParseColList(toks, p) = ListsAt(toks, ColumnPieces(toks), ColumnsOf(toks), p)
           /\ AtMostOne(ParseColList(toks, p))
<1>. DEFINE N == Len(toks)
            G == ColumnPieces(toks)
            f == ColumnsOf(toks)
            Step(L) == [q \in DOMAIN toks |-> UNION {Continued(toks, L, e) : e \in ExpectIdent(toks, q)}]
            List == CHOOSE L : L = Step(L)
            K == [q \in 1 .. N |-> ListsAt(toks, G, f, q)]
<1>1. ATokenList(toks) /\ GoodPieces(G) /\ N \in Nat /\ DOMAIN toks = 1 .. N
  <2>1. ATokenList(toks) /\ N \in Nat
    BY EOFEnds
  <2>. QED
    BY <2>1, PiecesAreGood, ListIs DEF ATokenList
<1>2. \A q \in 1 .. N : ExpectIdent(toks, q) = ElementsAt(toks, G, f, q)
                        /\ AtMostOne(ElementsAt(toks, G, f, q))
  BY ColumnElements
<1>3. ParseColList(toks, p) = List[p]
  BY DEF ParseColList, ParseList, Then, Continued
<1>. HIDE DEF G, f
<1>4. ASSUME NEW L
      PROVE  L = Step(L) <=> Loop(toks, G, f, L)
  BY <1>1, <1>2 DEF Loop
<1>5. Loop(toks, G, f, K)
  BY <1>1, LoopIs
<1>. HIDE DEF Step, K
<1>6. List = Step(List)
  BY <1>4, <1>5
<1>7. List = K
  BY <1>1, <1>4, <1>5, <1>6, OneLoop
<1>8. AtMostOne(ListsAt(toks, G, f, p))
  BY <1>1, <1>2, OneList
<1>. QED
  BY <1>3, <1>7, <1>8 DEF K, G, f

-----------------------------------------------------------------------------
(* The lexer. *)

\* A character is of one class at most.
LEMMA Classes ==
    ASSUME NEW c
    PROVE  /\ c \in Punctuation => ~IsIdentPart(c) /\ ~IsIdentStart(c) /\ c \notin Blanks
           /\ c \in Blanks => ~IsIdentPart(c) /\ ~IsIdentStart(c)
           /\ IsIdentStart(c) => IsIdentPart(c)
<1>1. (Blanks \cup Punctuation) \cap (Digits \cup {"."}) = {}
  BY Zenon DEF Blanks, Punctuation, Comma, Digits
<1>2. Blanks \cap Punctuation = {}
  BY Zenon DEF Blanks, Punctuation, Comma
<1>. QED
  BY <1>1, <1>2, QueryAssumption DEF IsIdentPart, IsIdentStart

\* The lexer's characters are those of the grammar.
LEMMA SameCharacters ==
    \A c : (InIdent(c) <=> IsIdentPart(c)) /\ (Letter(c) <=> IsIdentStart(c))
  BY DEF InIdent, Letter, IsIdentPart, IsIdentStart

BeginsAt(s, i) ==
    s[i] \in Punctuation \/ (IsIdentPart(s[i]) /\ (i > 1 => ~IsIdentPart(s[i - 1])))
FineAt(s, i) ==
    /\ s[i] \in Blanks \cup Punctuation \/ IsIdentPart(s[i])
    /\ BeginsAt(s, i) => s[i] \in Punctuation \/ IsIdentStart(s[i])
BegunBy(s, n) == {i \in 1 .. n : BeginsAt(s, i)}

\* The token that begins at i, as far as it is read after n characters.
Reach(s, i, n) == {j \in i .. n : \A k \in i .. j : IsIdentPart(s[k])}
TokenAt(s, i, n) ==
    IF s[i] \in Punctuation THEN Token(s[i], <<>>)
    ELSE Token("ident", SubSeq(s, i, Max(Reach(s, i, n))))
TokensAt(s, o, n) == [k \in DOMAIN o |-> TokenAt(s, o[k], n)]

\* What the lexer has after n characters, if they are fine.
StateAt(s, n) ==
    IF n > 0 /\ IsIdentPart(s[n]) THEN Lexed(TokensAt(s, InOrder(BegunBy(s, n)), n), TRUE)
    ELSE Lexed(TokensAt(s, InOrder(BegunBy(s, n)), n), FALSE)

LEMMA TokensMean ==
    ASSUME NEW V, NEW s \in Seq(V)
    PROVE  Tokens(s) = If(\A i \in 1 .. Len(s) : FineAt(s, i),
                          TokensAt(s, InOrder(BegunBy(s, Len(s))), Len(s)))
<1>1. DOMAIN s = 1 .. Len(s)
  OBVIOUS
<1>2. {i \in DOMAIN s : BeginsAt(s, i)} = BegunBy(s, Len(s))
  BY <1>1 DEF BegunBy
<1>. DEFINE GBegins(i) == s[i] \in Punctuation \/ (InIdent(s[i]) /\ (i > 1 => ~InIdent(s[i - 1])))
            GAt(i) == IF s[i] \in Punctuation THEN Token(s[i], <<>>)
                      ELSE Token("ident", SubSeq(s, i, Max({j \in i .. Len(s) : \A k \in i .. j : InIdent(s[k])})))
            gbegins == {i \in DOMAIN s : GBegins(i)}
<1>a. Tokens(s) = If(/\ \A i \in DOMAIN s : s[i] \in Blanks \cup Punctuation \/ InIdent(s[i])
                     /\ \A i \in gbegins : s[i] \in Punctuation \/ Letter(s[i]),
                     [n \in DOMAIN InOrder(gbegins) |-> GAt(InOrder(gbegins)[n])])
  BY DEF Tokens
<1>b. \A i : GBegins(i) <=> BeginsAt(s, i)
  BY SameCharacters DEF BeginsAt
<1>c. \A i : GAt(i) = TokenAt(s, i, Len(s))
  <2>1. \A i : {j \in i .. Len(s) : \A k \in i .. j : InIdent(s[k])} = Reach(s, i, Len(s))
    BY SameCharacters DEF Reach
  <2>. QED
    BY <2>1 DEF TokenAt
<1>d. gbegins = {i \in DOMAIN s : BeginsAt(s, i)}
  BY <1>b
<1>e. [n \in DOMAIN InOrder(gbegins) |-> GAt(InOrder(gbegins)[n])]
        = TokensAt(s, InOrder(gbegins), Len(s))
  <2>. DEFINE o == InOrder(gbegins)
  <2>. HIDE DEF GAt, gbegins, o
  <2>1. [n \in DOMAIN o |-> GAt(o[n])] = [n \in DOMAIN o |-> TokenAt(s, o[n], Len(s))]
    BY <1>c
  <2>. QED
    BY <2>1 DEF TokensAt, o
<1>. HIDE DEF GBegins, GAt, gbegins
<1>3. Tokens(s) = If(/\ \A i \in DOMAIN s : s[i] \in Blanks \cup Punctuation \/ IsIdentPart(s[i])
                     /\ \A i \in {i \in DOMAIN s : BeginsAt(s, i)} :
                            s[i] \in Punctuation \/ IsIdentStart(s[i]),
                     TokensAt(s, InOrder({i \in DOMAIN s : BeginsAt(s, i)}), Len(s)))
  BY <1>a, <1>d, <1>e, SameCharacters DEF If
<1>4. /\ \A i \in DOMAIN s : s[i] \in Blanks \cup Punctuation \/ IsIdentPart(s[i])
      /\ \A i \in {i \in DOMAIN s : BeginsAt(s, i)} : s[i] \in Punctuation \/ IsIdentStart(s[i])
      <=> \A i \in 1 .. Len(s) : FineAt(s, i)
  BY <1>1 DEF FineAt
<1>. QED
  BY <1>2, <1>3, <1>4 DEF If

\* A word that has ended gets no longer, ...
LEMMA WordEnded ==
    ASSUME NEW s, NEW n \in Nat, NEW i \in 1 .. n, NEW k \in i .. n + 1, ~IsIdentPart(s[k])
    PROVE  TokenAt(s, i, n + 1) = TokenAt(s, i, n)
<1>1. \A j \in i .. n + 1 : j \in i .. n \/ j = n + 1
  OBVIOUS
<1>2. \A j \in i .. n : j \in i .. n + 1
  OBVIOUS
<1>3. k \in i .. n + 1
  OBVIOUS
<1>4. n + 1 \notin Reach(s, i, n + 1)
  BY <1>3 DEF Reach
<1>5. Reach(s, i, n + 1) = Reach(s, i, n)
  BY <1>1, <1>2, <1>4 DEF Reach
<1>. QED
  BY <1>5 DEF TokenAt

\* ... and one that is still read has all that was read.
LEMMA StillRead ==
    ASSUME NEW s, NEW n \in Nat, NEW i \in 1 .. n, \A k \in i .. n : IsIdentPart(s[k])
    PROVE  TokenAt(s, i, n) = Token("ident", SubSeq(s, i, n))
<1>1. n \in Reach(s, i, n) /\ \A j \in Reach(s, i, n) : j \in Int /\ j <= n
  BY DEF Reach
<1>2. Max(Reach(s, i, n)) = n
  <2>1. \A x \in Reach(s, i, n) : (\A y \in Reach(s, i, n) : x >= y) => x = n
    BY <1>1
  <2>2. \A y \in Reach(s, i, n) : n >= y
    BY <1>1
  <2>. QED
    BY <1>1, <2>1, <2>2 DEF Max
<1>3. s[i] \notin Punctuation
  <2>1. IsIdentPart(s[i])
    OBVIOUS
  <2>. QED
    BY <2>1, Classes
<1>. QED
  BY <1>2, <1>3 DEF TokenAt

\* Where the word that is being read began.
LEMMA WordBegan ==
    ASSUME NEW s, NEW n \in Nat \ {0}, IsIdentPart(s[n])
    PROVE  \E b \in 1 .. n :
               /\ \A k \in b .. n : IsIdentPart(s[k])
               /\ b > 1 => ~IsIdentPart(s[b - 1])
               /\ BegunBy(s, n) = BegunBy(s, b - 1) \cup {b}
<1>. DEFINE T == {b \in 1 .. n : \A k \in b .. n : IsIdentPart(s[k])}
<1>1. T \subseteq Nat /\ n \in T
  <2>1. \A k \in n .. n : k = n
    OBVIOUS
  <2>. QED
    BY <2>1
<1>2. PICK b \in T : \A y \in T : b <= y
  <2>. HIDE DEF T
  <2>. QED
    BY <1>1, LeastNatural
<1>3. b \in 1 .. n /\ \A k \in b .. n : IsIdentPart(s[k])
  OBVIOUS
<1>4. b > 1 => ~IsIdentPart(s[b - 1])
  <2>. SUFFICES ASSUME b > 1, IsIdentPart(s[b - 1]) PROVE FALSE
    OBVIOUS
  <2>1. \A k \in b - 1 .. n : k = b - 1 \/ k \in b .. n
    BY <1>3
  <2>2. b - 1 \in T
    BY <1>3, <2>1
  <2>3. ~(b <= b - 1)
    BY <1>3
  <2>. QED
    BY <1>2, <2>2, <2>3
<1>5. BeginsAt(s, b)
  <2>1. b \in b .. n
    BY <1>3
  <2>. QED
    BY <1>3, <1>4, <2>1 DEF BeginsAt
<1>6. ASSUME NEW i \in b + 1 .. n
      PROVE  ~BeginsAt(s, i)
  <2>1. i \in b .. n /\ i - 1 \in b .. n /\ i > 1
    BY <1>3
  <2>2. IsIdentPart(s[i]) /\ IsIdentPart(s[i - 1])
    BY <1>3, <2>1
  <2>3. s[i] \notin Punctuation
    BY <2>2, Classes
  <2>. QED
    BY <2>1, <2>2, <2>3 DEF BeginsAt
<1>7. BegunBy(s, n) = BegunBy(s, b - 1) \cup {b}
  <2>1. \A i : i \in 1 .. n <=> i \in 1 .. b - 1 \/ i = b \/ i \in b + 1 .. n
    BY <1>3
  <2>. HIDE DEF T
  <2>. QED
    BY <1>5, <1>6, <2>1 DEF BegunBy
<1>. QED
  BY <1>3, <1>4, <1>7

LEMMA TokensAppend ==
    ASSUME NEW s, NEW n, NEW S, NEW o \in Seq(S), NEW x
    PROVE  TokensAt(s, Append(o, x), n) = Append(TokensAt(s, o, n), TokenAt(s, x, n))
<1>. DEFINE m == Len(o)
            V == {TokenAt(s, o[k], n) : k \in 1 .. m} \cup {TokenAt(s, x, n)}
            a == TokensAt(s, o, n)
            b == TokensAt(s, Append(o, x), n)
            t == TokenAt(s, x, n)
<1>1. m \in Nat /\ DOMAIN o = 1 .. m /\ DOMAIN Append(o, x) = 1 .. m + 1
  OBVIOUS
<1>2. \A k \in 1 .. m + 1 : Append(o, x)[k] = IF k = m + 1 THEN x ELSE o[k]
  OBVIOUS
<1>3. a = [k \in 1 .. m |-> TokenAt(s, o[k], n)]
  BY <1>1 DEF TokensAt
<1>4. b = [k \in 1 .. m + 1 |-> TokenAt(s, Append(o, x)[k], n)]
  BY <1>1 DEF TokensAt
<1>5. \A k \in 1 .. m + 1 : b[k] = IF k = m + 1 THEN t ELSE TokenAt(s, o[k], n)
  BY <1>2, <1>4
<1>6. a \in [1 .. m -> V] /\ b \in [1 .. m + 1 -> V] /\ t \in V
  <2>1. \A k \in 1 .. m + 1 : k \in 1 .. m \/ k = m + 1
    BY <1>1
  <2>2. \A k \in 1 .. m + 1 : b[k] \in V
    BY <1>5, <2>1
  <2>. QED
    BY <1>3, <1>4, <2>2
<1>. HIDE DEF V, a, b, t, m
<1>7. a \in Seq(V) /\ Len(a) = m /\ b \in Seq(V) /\ Len(b) = m + 1
  BY <1>1, <1>6
<1>8. Append(a, t) \in Seq(V) /\ Len(Append(a, t)) = m + 1
      /\ \A k \in 1 .. m + 1 : Append(a, t)[k] = IF k = m + 1 THEN t ELSE a[k]
  BY <1>6, <1>7
<1>9. \A k \in 1 .. m + 1 : k # m + 1 => a[k] = TokenAt(s, o[k], n)
  BY <1>1, <1>3
<1>10. \A k \in 1 .. m + 1 : b[k] = Append(a, t)[k]
  BY <1>5, <1>8, <1>9
<1>11. b = Append(a, t)
  BY <1>1, <1>7, <1>8, <1>10
<1>. QED
  BY <1>11 DEF a, b, t

\* Tokens are a list.
LEMMA TokensList ==
    ASSUME NEW s, NEW n \in Nat, NEW m \in Nat, NEW S, S \subseteq 1 .. m
    PROVE  \E V : TokensAt(s, InOrder(S), n) \in Seq(V)
<1>. DEFINE o == InOrder(S)
            V == {TokenAt(s, o[k], n) : k \in 1 .. Len(o)}
<1>0. InOrder(S) \in Seq(S)
  BY InOrderIs
<1>1. o \in Seq(S) /\ Len(o) \in Nat
  BY <1>0
<1>2. DOMAIN o = 1 .. Len(o)
  BY <1>1
<1>3. TokensAt(s, o, n) = [k \in 1 .. Len(o) |-> TokenAt(s, o[k], n)]
  BY <1>2 DEF TokensAt
<1>4. TokensAt(s, o, n) \in [1 .. Len(o) -> V]
  BY <1>3
<1>. HIDE DEF V, o
<1>5. TokensAt(s, o, n) \in Seq(V)
  BY <1>1, <1>4
<1>. QED
  BY <1>5 DEF o

\* What has ended stays.
LEMMA TokensStay ==
    ASSUME NEW s, NEW n \in Nat, NEW S, S \subseteq 1 .. n,
           \A i \in S : \E k \in i .. n + 1 : ~IsIdentPart(s[k])
    PROVE  TokensAt(s, InOrder(S), n + 1) = TokensAt(s, InOrder(S), n)
<1>1. InOrder(S) \in Seq(S)
  BY InOrderIs
<1>2. \A i \in S : TokenAt(s, i, n + 1) = TokenAt(s, i, n)
  BY WordEnded
<1>3. \A k \in DOMAIN InOrder(S) : InOrder(S)[k] \in S
  BY <1>1
<1>. QED
  BY <1>2, <1>3 DEF TokensAt

\* One more character of the last token.
LEMMA LastGrows ==
    ASSUME NEW V, NEW ts \in Seq(V), NEW t
    PROVE  Front(Append(ts, t)) = ts /\ Last(Append(ts, t)) = t
<1>. DEFINE W == V \cup {t}
            a == Append(ts, t)
            m == Len(ts)
<1>1. ts \in Seq(W) /\ t \in W
  OBVIOUS
<1>. HIDE DEF W
<1>2. m \in Nat /\ a \in Seq(W) /\ Len(a) = m + 1 /\ a[m + 1] = t /\ \A k \in 1 .. m : a[k] = ts[k]
  BY <1>1
<1>3. m + 1 - 1 = m
  BY <1>2
<1>. HIDE DEF a
<1>4. SubSeq(a, 1, m) = ts
  BY <1>1, <1>2
<1>. QED
  BY <1>2, <1>3, <1>4 DEF Front, Last, a

\* lex, one character: StateAt goes on to StateAt, or the text is refused.
LEMMA LexStep ==
    ASSUME NEW V, NEW s \in Seq(V), NEW n \in 0 .. Len(s) - 1
    PROVE  /\ FineAt(s, n + 1) => Scan(StateAt(s, n), s[n + 1]) = StateAt(s, n + 1)
           /\ ~FineAt(s, n + 1) => ~Scan(StateAt(s, n), s[n + 1]).ok
<1>. PICK m \in 1 .. Len(s) : m = n + 1
  OBVIOUS
<1>. DEFINE c == s[m]
            B == BegunBy(s, n)
            ts == TokensAt(s, InOrder(B), n)
            inside == n > 0 /\ IsIdentPart(s[n])
            st == StateAt(s, n)
            next == TokensAt(s, InOrder(BegunBy(s, m)), m)
<1>0. /\ n \in Nat /\ m \in Nat /\ m = n + 1 /\ m > 0 /\ m - 1 = n /\ (m > 1 <=> n > 0)
      /\ m \in 1 .. Len(s) /\ B \subseteq 1 .. n
  BY DEF BegunBy
<1>. SUFFICES /\ FineAt(s, m) => Scan(st, c) = StateAt(s, m)
              /\ ~FineAt(s, m) => ~Scan(st, c).ok
  BY <1>0
<1>1. st.toks = ts /\ (st.inside <=> inside) /\ st.ok
      /\ [st EXCEPT !.ok = FALSE].ok = FALSE
  <2>1. CASE inside
    <3>1. st = Lexed(ts, TRUE)
      BY <2>1 DEF StateAt
    <3>. QED
      BY <2>1, <3>1 DEF Lexed
  <2>2. CASE ~inside
    <3>1. st = Lexed(ts, FALSE)
      BY <2>2 DEF StateAt
    <3>. QED
      BY <2>2, <3>1 DEF Lexed
  <2>. QED
    BY <2>1, <2>2
<1>2. \E W : ts \in Seq(W)
  BY <1>0, TokensList
<1>3. /\ IsIdentPart(c) => StateAt(s, m) = Lexed(next, TRUE)
      /\ ~IsIdentPart(c) => StateAt(s, m) = Lexed(next, FALSE)
  BY <1>0 DEF StateAt
<1>4. BeginsAt(s, m) <=> c \in Punctuation \/ (IsIdentPart(c) /\ ~inside)
  BY <1>0 DEF BeginsAt
<1>5. BegunBy(s, m) = IF BeginsAt(s, m) THEN B \cup {m} ELSE B
  <2>1. \A i : i \in 1 .. m <=> i \in 1 .. n \/ i = m
    BY <1>0
  <2>. QED
    BY <2>1 DEF BegunBy
<1>6. InOrder(B \cup {m}) = Append(InOrder(B), m) /\ InOrder(B) \in Seq(B)
  <2>1. B \subseteq 1 .. m - 1 /\ m \in Nat \ {0}
    BY <1>0
  <2>2. InOrder(B \cup {m}) = Append(InOrder(B), m)
    BY <2>1, InOrderAppend
  <2>. QED
    BY <1>0, <2>2, InOrderIs
<1>. HIDE DEF c, B, ts, inside, st, next
<1>7. ASSUME ~inside \/ ~IsIdentPart(c)
      PROVE  TokensAt(s, InOrder(B), m) = ts
  <2>1. ASSUME NEW i \in B
        PROVE  \E k \in i .. m : ~IsIdentPart(s[k])
    <3>1. n > 0 /\ n \in i .. m /\ m \in i .. m
      BY <1>0
    <3>. QED
      BY <1>7, <3>1 DEF inside, c
  <2>. QED
    BY <1>0, <2>1, TokensStay DEF ts
<1>8. CASE inside /\ IsIdentPart(c)
  <2>1. PICK b \in 1 .. n : /\ \A k \in b .. n : IsIdentPart(s[k])
                            /\ b > 1 => ~IsIdentPart(s[b - 1])
                            /\ B = BegunBy(s, b - 1) \cup {b}
    BY <1>0, <1>8, WordBegan DEF inside, B
  <2>. DEFINE D == BegunBy(s, b - 1)
              us == TokensAt(s, InOrder(D), n)
  <2>2. b \in Nat \ {0} /\ b - 1 \in Nat /\ D \subseteq 1 .. b - 1 /\ D \subseteq 1 .. n
    BY <1>0 DEF BegunBy
  <2>3. InOrder(B) = Append(InOrder(D), b) /\ InOrder(D) \in Seq(D)
    BY <2>1, <2>2, InOrderAppend, InOrderIs
  <2>. HIDE DEF D
  <2>4. \A k \in b .. m : IsIdentPart(s[k])
    <3>1. \A k \in b .. m : k \in b .. n \/ k = m
      BY <1>0
    <3>. QED
      BY <1>8, <2>1, <3>1 DEF c
  <2>5. TokenAt(s, b, n) = Token("ident", SubSeq(s, b, n))
    BY <1>0, <2>1, StillRead
  <2>6. TokenAt(s, b, m) = Token("ident", SubSeq(s, b, m))
    <3>1. b \in 1 .. m /\ m \in Nat
      BY <1>0
    <3>. QED
      BY <2>4, <3>1, StillRead
  <2>7. SubSeq(s, b, m) = Append(SubSeq(s, b, n), c)
    BY <1>0 DEF c
  <2>8. TokensAt(s, InOrder(D), m) = us
    <3>1. ASSUME NEW i \in D
          PROVE  \E k \in i .. m : ~IsIdentPart(s[k])
      <4>1. i \in 1 .. b - 1 /\ b > 1 /\ b - 1 \in i .. m
        BY <1>0, <2>2
      <4>. QED
        BY <2>1, <4>1
    <3>. QED
      BY <1>0, <2>2, <3>1, TokensStay, ZenonT(30)
  <2>9. ts = Append(us, Token("ident", SubSeq(s, b, n)))
    BY <2>3, <2>5, TokensAppend DEF ts
  <2>10. TokensAt(s, InOrder(B), m) = Append(us, Token("ident", Append(SubSeq(s, b, n), c)))
    <3>1. TokensAt(s, Append(InOrder(D), b), m)
              = Append(TokensAt(s, InOrder(D), m), TokenAt(s, b, m))
      BY <2>3, TokensAppend
    <3>. QED
      BY <2>3, <2>6, <2>7, <2>8, <3>1
  <2>11. PICK W : us \in Seq(W)
    BY <1>0, <2>2, TokensList
  <2>12. Front(ts) = us /\ Last(ts).text = SubSeq(s, b, n)
    <3>1. Front(ts) = us /\ Last(ts) = Token("ident", SubSeq(s, b, n))
      BY <2>9, <2>11, LastGrows
    <3>. QED
      BY <3>1 DEF Token
  <2>13. Scan(st, c) = Lexed(TokensAt(s, InOrder(B), m), TRUE)
    <3>1. c \notin Punctuation /\ c \notin Blanks
      BY <1>8, Classes
    <3>. QED
      BY <1>1, <1>8, <2>10, <2>12, <3>1 DEF Scan
  <2>14. c \notin Punctuation
    BY <1>8, Classes
  <2>15. FineAt(s, m) /\ ~BeginsAt(s, m)
    BY <1>4, <1>8, <2>14 DEF FineAt, c
  <2>. QED
    BY <1>1, <1>3, <1>5, <1>8, <2>13, <2>15 DEF next
<1>9. CASE ~inside /\ IsIdentPart(c) /\ IsIdentStart(c)
  <2>1. c \notin Punctuation
    BY <1>9, Classes
  <2>2. FineAt(s, m) /\ BeginsAt(s, m)
    BY <1>4, <1>9, <2>1 DEF FineAt, c
  <2>3. TokenAt(s, m, m) = Token("ident", <<c>>)
    <3>1. \A k \in m .. m : k = m
      BY <1>0
    <3>2. m \in 1 .. m /\ m \in Nat
      BY <1>0
    <3>3. \A k \in m .. m : IsIdentPart(s[k])
      BY <1>9, <3>1 DEF c
    <3>4. TokenAt(s, m, m) = Token("ident", SubSeq(s, m, m))
      BY <3>2, <3>3, StillRead
    <3>5. SubSeq(s, m, m) = <<c>>
      <4>1. m \in Nat /\ m - m + 1 = 1 /\ m + 1 - 1 = m
        BY <1>0
      <4>2. SubSeq(s, m, m) = [i \in 1 .. 1 |-> s[m + i - 1]]
        BY <4>1
      <4>3. SubSeq(s, m, m)[1] = c
        BY <4>1, <4>2 DEF c
      <4>4. Lists(SubSeq(s, m, m), 1)
        BY <4>2 DEF Lists
      <4>. QED
        BY <4>3, <4>4, ListOfOne
    <3>. QED
      BY <3>4, <3>5
  <2>4. next = Append(ts, Token("ident", <<c>>))
    <3>1. InOrder(BegunBy(s, m)) = Append(InOrder(B), m)
      BY <1>5, <1>6, <2>2
    <3>2. TokensAt(s, Append(InOrder(B), m), m)
              = Append(TokensAt(s, InOrder(B), m), TokenAt(s, m, m))
      BY <1>6, TokensAppend
    <3>. QED
      BY <1>7, <1>9, <2>3, <3>1, <3>2 DEF next
  <2>5. Scan(st, c) = Lexed(Append(ts, Token("ident", <<c>>)), TRUE)
    <3>1. c \notin Punctuation /\ c \notin Blanks
      BY <1>9, Classes
    <3>. QED
      BY <1>1, <1>9, <3>1 DEF Scan
  <2>. QED
    BY <1>1, <1>3, <1>9, <2>2, <2>4, <2>5
<1>10. CASE ~inside /\ IsIdentPart(c) /\ ~IsIdentStart(c)
  <2>1. c \notin Punctuation /\ c \notin Blanks
    BY <1>10, Classes
  <2>2. ~FineAt(s, m)
    BY <1>4, <1>10, <2>1 DEF FineAt, c
  <2>3. Scan(st, c) = [st EXCEPT !.ok = FALSE]
    BY <1>1, <1>10, <2>1 DEF Scan
  <2>. QED
    BY <1>1, <2>2, <2>3
<1>11. CASE ~IsIdentPart(c) /\ c \in Blanks
  <2>1. c \notin Punctuation /\ ~IsIdentStart(c)
    BY <1>11, Classes
  <2>2. FineAt(s, m) /\ ~BeginsAt(s, m)
    BY <1>4, <1>11, <2>1 DEF FineAt, c
  <2>3. Scan(st, c) = Lexed(ts, FALSE)
    BY <1>1, <1>11, <2>1 DEF Scan
  <2>. QED
    BY <1>1, <1>3, <1>5, <1>7, <1>11, <2>2, <2>3 DEF next
<1>12. CASE ~IsIdentPart(c) /\ c \in Punctuation
  <2>1. c \notin Blanks /\ ~IsIdentStart(c)
    BY <1>12, Classes
  <2>2. FineAt(s, m) /\ BeginsAt(s, m)
    BY <1>4, <1>12, <2>1 DEF FineAt, c
  <2>3. TokenAt(s, m, m) = Token(c, <<>>)
    BY <1>12 DEF TokenAt, c
  <2>4. next = Append(ts, Token(c, <<>>))
    <3>1. InOrder(BegunBy(s, m)) = Append(InOrder(B), m)
      BY <1>5, <1>6, <2>2
    <3>2. TokensAt(s, Append(InOrder(B), m), m)
              = Append(TokensAt(s, InOrder(B), m), TokenAt(s, m, m))
      BY <1>6, TokensAppend
    <3>. QED
      BY <1>7, <1>12, <2>3, <3>1, <3>2 DEF next
  <2>5. Scan(st, c) = Lexed(Append(ts, Token(c, <<>>)), FALSE)
    BY <1>1, <1>12, <2>1 DEF Scan
  <2>. QED
    BY <1>1, <1>3, <1>12, <2>2, <2>4, <2>5
<1>13. CASE ~IsIdentPart(c) /\ c \notin Blanks /\ c \notin Punctuation
  <2>1. ~IsIdentStart(c)
    BY <1>13, Classes
  <2>2. ~FineAt(s, m)
    BY <1>13 DEF FineAt, c
  <2>3. Scan(st, c) = [st EXCEPT !.ok = FALSE]
    BY <1>1, <1>13, <2>1 DEF Scan
  <2>. QED
    BY <1>1, <2>2, <2>3
<1>. QED
  BY <1>8, <1>9, <1>10, <1>11, <1>12, <1>13

LEMMA LexRuns ==
    ASSUME NEW V, NEW s \in Seq(V)
    PROVE  \E A : /\ A[0] = Lexed(<<>>, FALSE)
                  /\ \A k \in 1 .. Len(s) : A[k] = Scan(A[k - 1], s[k])
                  /\ Lex(s) = If(A[Len(s)].ok, Append(A[Len(s)].toks, Token("EOF", <<>>)))
<1>. DEFINE N == Len(s)
            Upto(n, f) == f = [k \in 0 .. n |-> IF k = 0 THEN Lexed(<<>>, FALSE)
                                                ELSE Scan(f[k - 1], s[k])]
            Q == {n \in 0 .. N : \E f : Upto(n, f)}
<1>1. N \in Nat
  OBVIOUS
<1>2. 0 \in Q
  <2>. DEFINE f == [k \in 0 .. 0 |-> Lexed(<<>>, FALSE)]
  <2>1. Upto(0, f)
    <3>1. \A k \in 0 .. 0 : k = 0
      OBVIOUS
    <3>. QED
      BY <3>1
  <2>. HIDE DEF Upto
  <2>. QED
    BY <1>1, <2>1
<1>3. ASSUME NEW n \in 0 .. N - 1, n \in Q
      PROVE  n + 1 \in Q
  <2>1. PICK f : Upto(n, f)
    BY <1>3
  <2>. DEFINE g == [k \in 0 .. n + 1 |-> IF k = n + 1 THEN Scan(f[n], s[n + 1]) ELSE f[k]]
  <2>2. /\ g[n + 1] = Scan(f[n], s[n + 1]) /\ g[n] = f[n]
        /\ \A k \in 0 .. n : g[k] = f[k]
    OBVIOUS
  <2>3. ASSUME NEW k \in 0 .. n + 1
        PROVE  g[k] = IF k = 0 THEN Lexed(<<>>, FALSE) ELSE Scan(g[k - 1], s[k])
    <3>1. CASE k = n + 1
      <4>1. k # 0 /\ k - 1 = n
        BY <3>1
      <4>. QED
        BY <2>2, <3>1, <4>1
    <3>2. CASE k = 0
      <4>1. f[0] = Lexed(<<>>, FALSE)
        BY <2>1
      <4>2. g[0] = f[0]
        BY <2>2
      <4>. QED
        BY <3>2, <4>1, <4>2
    <3>3. CASE k \in 1 .. n
      <4>1. k # 0 /\ k - 1 \in 0 .. n /\ k \in 0 .. n
        BY <3>3
      <4>2. f[k] = Scan(f[k - 1], s[k])
        BY <2>1, <4>1
      <4>. QED
        BY <2>2, <4>1, <4>2
    <3>. QED
      BY <3>1, <3>2, <3>3
  <2>4. g = [k \in 0 .. n + 1 |-> g[k]]
    OBVIOUS
  <2>. HIDE DEF g
  <2>5. Upto(n + 1, g)
    BY <2>3, <2>4
  <2>. HIDE DEF Upto
  <2>. QED
    BY <1>1, <2>5
<1>4. N \in Q
  <2>. HIDE DEF Q, N
  <2>1. \A k \in 0 .. N - 1 : (\A j \in 0 .. k : j \in Q) => k + 1 \in Q
    <3>1. \A k \in 0 .. N - 1 : k \in 0 .. k
      BY <1>1
    <3>. QED
      BY <1>3, <3>1
  <2>2. \A k \in 0 .. N : k \in Q
    BY <1>1, <1>2, <2>1, PositionsByInduction
  <2>. QED
    BY <1>1, <2>2
<1>. DEFINE After == CHOOSE f : Upto(N, f)
<1>5. Upto(N, After)
  <2>. HIDE DEF Upto
  <2>. QED
    BY <1>4
<1>6. Lex(s) = If(After[N].ok, Append(After[N].toks, Token("EOF", <<>>)))
  BY DEF Lex
<1>. HIDE DEF After
<1>7. After[0] = Lexed(<<>>, FALSE)
  BY <1>1, <1>5
<1>8. ASSUME NEW k \in 1 .. N
      PROVE  After[k] = Scan(After[k - 1], s[k])
  <2>1. k \in 0 .. N /\ k # 0
    BY <1>1
  <2>. QED
    BY <1>5, <2>1
<1>. QED
  BY <1>6, <1>7, <1>8

\* lex yields the tokens of the text and EOF, or refuses a text that has none.
LEMMA LexIs ==
    ASSUME NEW V, NEW s \in Seq(V)
    PROVE  Lex(s) = {Append(t, Token("EOF", <<>>)) : t \in Tokens(s)}
<1>. DEFINE N == Len(s)
            Fine(n) == \A i \in 1 .. n : FineAt(s, i)
<1>1. PICK A : /\ A[0] = Lexed(<<>>, FALSE)
               /\ \A k \in 1 .. N : A[k] = Scan(A[k - 1], s[k])
               /\ Lex(s) = If(A[N].ok, Append(A[N].toks, Token("EOF", <<>>)))
  BY LexRuns
<1>. DEFINE Q == {n \in 0 .. N : (Fine(n) => A[n] = StateAt(s, n)) /\ (~Fine(n) => ~A[n].ok)}
<1>2. N \in Nat
  OBVIOUS
<1>3. 0 \in Q
  <2>1. BegunBy(s, 0) = {}
    BY DEF BegunBy
  <2>2. TokensAt(s, <<>>, 0) = <<>>
    BY DEF TokensAt
  <2>3. InOrder({}) = <<>>
    BY InOrderNone
  <2>4. StateAt(s, 0) = Lexed(<<>>, FALSE)
    <3>1. TokensAt(s, InOrder(BegunBy(s, 0)), 0) = <<>> /\ ~(0 > 0)
      BY <2>1, <2>2, <2>3, SMTT(30)
    <3>. QED
      BY <3>1 DEF StateAt
  <2>5. Fine(0) /\ 0 \in 0 .. N
    BY <1>2
  <2>. HIDE DEF Fine
  <2>. QED
    BY <1>1, <2>4, <2>5
<1>4. ASSUME NEW n \in 0 .. N - 1, n \in Q
      PROVE  n + 1 \in Q
  <2>1. n + 1 \in 1 .. N /\ n + 1 \in 0 .. N /\ n + 1 - 1 = n
    BY <1>2
  <2>2. A[n + 1] = Scan(A[n], s[n + 1])
    BY <1>1, <2>1
  <2>3. Fine(n + 1) <=> Fine(n) /\ FineAt(s, n + 1)
    <3>1. \A i : i \in 1 .. n + 1 <=> i \in 1 .. n \/ i = n + 1
      BY <1>2
    <3>. QED
      BY <3>1
  <2>. HIDE DEF Fine
  <2>4. CASE Fine(n)
    BY <1>4, <2>1, <2>2, <2>3, <2>4, LexStep
  <2>5. CASE ~Fine(n)
    <3>1. ~A[n].ok
      BY <1>4, <2>5
    <3>2. A[n + 1] = A[n]
      BY <2>2, <3>1 DEF Scan
    <3>. QED
      BY <2>1, <2>3, <2>5, <3>1, <3>2
  <2>. QED
    BY <2>4, <2>5
<1>5. N \in Q
  <2>. HIDE DEF Q, N
  <2>1. \A k \in 0 .. N - 1 : (\A j \in 0 .. k : j \in Q) => k + 1 \in Q
    <3>1. \A k \in 0 .. N - 1 : k \in 0 .. k
      BY <1>2
    <3>. QED
      BY <1>4, <3>1
  <2>2. \A k \in 0 .. N : k \in Q
    BY <1>2, <1>3, <2>1, PositionsByInduction
  <2>. QED
    BY <1>2, <2>2
<1>. DEFINE t == TokensAt(s, InOrder(BegunBy(s, N)), N)
<1>6. Tokens(s) = If(Fine(N), t)
  BY TokensMean
<1>. HIDE DEF Fine, t
<1>7. CASE Fine(N)
  <2>1. A[N] = StateAt(s, N)
    BY <1>5, <1>7
  <2>2. A[N].ok /\ A[N].toks = t
    BY <2>1 DEF StateAt, Lexed, t
  <2>. QED
    BY <1>1, <1>6, <1>7, <2>2 DEF If
<1>8. CASE ~Fine(N)
  <2>1. ~A[N].ok
    BY <1>5, <1>8
  <2>. QED
    BY <1>1, <1>6, <1>8, <2>1 DEF If
<1>. QED
  BY <1>7, <1>8

\* Tokens are identifiers and marks.
LEMMA TokensAre ==
    ASSUME NEW V, NEW s \in Seq(V), NEW t \in Tokens(s)
    PROVE  \E n \in Nat : /\ Lists(t, n) /\ Len(t) = n
                          /\ \A i \in 1 .. n : t[i].kind \in Punctuation \cup {"ident"}
<1>. DEFINE N == Len(s)
            B == BegunBy(s, N)
            o == InOrder(B)
<1>1. t = TokensAt(s, o, N)
  BY TokensMean DEF If
<1>2. N \in Nat /\ B \subseteq 1 .. N
  BY DEF BegunBy
<1>3. o \in Seq(B)
  BY <1>2, InOrderIs
<1>. HIDE DEF B, o
<1>4. PICK n \in Nat : n = Len(o) /\ DOMAIN o = 1 .. n
  BY <1>3
<1>5. t = [k \in 1 .. n |-> TokenAt(s, o[k], N)]
  BY <1>1, <1>4 DEF TokensAt
<1>6. Lists(t, n) /\ Len(t) = n
  BY <1>5, ListIs DEF Lists
<1>7. ASSUME NEW i \in 1 .. n
      PROVE  t[i].kind \in Punctuation \cup {"ident"}
  <2>1. t[i] = TokenAt(s, o[i], N)
    BY <1>5
  <2>. QED
    BY <2>1 DEF TokenAt, Token
<1>. QED
  BY <1>6, <1>7

\* What Lex yields ends in EOF.
LEMMA LexEnds ==
    ASSUME NEW V, NEW s \in Seq(V), NEW t \in Tokens(s),
           NEW toks, toks = Append(t, Token("EOF", <<>>))
    PROVE  /\ EndsInEOF(toks) /\ Len(t) \in Nat /\ Len(toks) = Len(t) + 1
           /\ \A i \in 1 .. Len(t) : toks[i] = t[i]
<1>1. PICK n \in Nat : /\ Lists(t, n) /\ Len(t) = n
                       /\ \A i \in 1 .. n : t[i].kind \in Punctuation \cup {"ident"}
  BY TokensAre
<1>2. PICK W : t \in Seq(W)
  BY <1>1, ListIs
<1>. DEFINE eof == Token("EOF", <<>>)
<1>3. eof.kind = "EOF"
  BY DEF Token
<1>. HIDE DEF eof
<1>4. PICK U : t \in Seq(U) /\ eof \in U
  <2>1. t \in Seq(W \cup {eof})
    BY <1>2
  <2>. QED
    BY <2>1
<1>5. /\ toks \in Seq(U) /\ Len(toks) = n + 1 /\ toks[n + 1] = eof
      /\ \A i \in 1 .. n : toks[i] = t[i]
  BY <1>1, <1>4 DEF eof
<1>6. "EOF" \notin Punctuation \cup {"ident"}
  BY Zenon DEF Punctuation, Comma
<1>7. \A i \in 1 .. n + 1 : toks[i].kind = "EOF" <=> i = n + 1
  <2>1. \A i \in 1 .. n + 1 : i \in 1 .. n \/ i = n + 1
    BY <1>1
  <2>2. \A i \in 1 .. n : i # n + 1
    BY <1>1
  <2>. QED
    BY <1>1, <1>3, <1>5, <1>6, <2>1, <2>2
<1>8. Lists(toks, n + 1) /\ n + 1 \in Nat \ {0}
  <2>1. PICK m \in Nat \ {0} : m = n + 1
    BY <1>1
  <2>2. Len(toks) = m
    BY <1>5, <2>1
  <2>3. Lists(toks, Len(toks))
    BY <1>5, SequenceLists
  <2>. QED
    BY <2>1, <2>2, <2>3
<1>. QED
  BY <1>1, <1>5, <1>7, <1>8 DEF EndsInEOF

-----------------------------------------------------------------------------
(* The measures. *)

\* For functions at J of columns C: those that are about the same column as i, those
\* that are the first about theirs, and the measures.
AboutIn(J, C, i) == {j \in J : C[j] = C[i]}
FirstsIn(J, C) == {i \in J : \A j \in AboutIn(J, C, i) : i <= j}
Applied(F, o) == [m \in DOMAIN o |-> F[o[m]]]
MeasureIn(J, C, F, i) == [column |-> C[i], funcs |-> Applied(F, InOrder(AboutIn(J, C, i)))]
MeasuresFor(J, C, F, o) == [n \in DOMAIN o |-> MeasureIn(J, C, F, o[n])]
MeasuresIn(J, C, F) == MeasuresFor(J, C, F, InOrder(FirstsIn(J, C)))

LEMMA AppliedAppend ==
    ASSUME NEW F, NEW S, NEW o \in Seq(S), NEW x
    PROVE  Applied(F, Append(o, x)) = Append(Applied(F, o), F[x])
<1>. DEFINE m == Len(o)
            V == {F[o[k]] : k \in 1 .. m} \cup {F[x]}
            a == Applied(F, o)
            b == Applied(F, Append(o, x))
            y == F[x]
<1>1. m \in Nat /\ DOMAIN o = 1 .. m /\ DOMAIN Append(o, x) = 1 .. m + 1
  OBVIOUS
<1>2. \A k \in 1 .. m + 1 : Append(o, x)[k] = IF k = m + 1 THEN x ELSE o[k]
  OBVIOUS
<1>3. a = [k \in 1 .. m |-> F[o[k]]]
  BY <1>1 DEF Applied
<1>4. b = [k \in 1 .. m + 1 |-> F[Append(o, x)[k]]]
  BY <1>1 DEF Applied
<1>5. \A k \in 1 .. m + 1 : b[k] = IF k = m + 1 THEN y ELSE F[o[k]]
  BY <1>2, <1>4
<1>6. a \in [1 .. m -> V] /\ b \in [1 .. m + 1 -> V] /\ y \in V
  <2>1. \A k \in 1 .. m + 1 : k \in 1 .. m \/ k = m + 1
    BY <1>1
  <2>2. \A k \in 1 .. m + 1 : b[k] \in V
    BY <1>5, <2>1
  <2>. QED
    BY <1>3, <1>4, <2>2
<1>. HIDE DEF V, a, b, y, m
<1>7. a \in Seq(V) /\ Len(a) = m /\ b \in Seq(V) /\ Len(b) = m + 1
  BY <1>1, <1>6
<1>8. Append(a, y) \in Seq(V) /\ Len(Append(a, y)) = m + 1
      /\ \A k \in 1 .. m + 1 : Append(a, y)[k] = IF k = m + 1 THEN y ELSE a[k]
  BY <1>6, <1>7
<1>9. \A k \in 1 .. m + 1 : k # m + 1 => a[k] = F[o[k]]
  BY <1>1, <1>3
<1>10. \A k \in 1 .. m + 1 : b[k] = Append(a, y)[k]
  BY <1>5, <1>8, <1>9
<1>11. b = Append(a, y)
  BY <1>1, <1>7, <1>8, <1>10
<1>. QED
  BY <1>11 DEF a, b, y

\* Every column has a first.
LEMMA FirstAbout ==
    ASSUME NEW m \in Nat, NEW J, J \subseteq 1 .. m, NEW C, NEW j0 \in J
    PROVE  \E i \in FirstsIn(J, C) : C[i] = C[j0]
<1>. DEFINE T == {j \in J : C[j] = C[j0]}
<1>1. T \subseteq Nat /\ T # {}
  <2>1. \A j \in 1 .. m : j \in Nat
    OBVIOUS
  <2>2. T \subseteq 1 .. m /\ T # {}
    OBVIOUS
  <2>. HIDE DEF T
  <2>. QED
    BY <2>1, <2>2
<1>2. PICK i \in T : \A j \in T : i <= j
  <2>. HIDE DEF T
  <2>. QED
    BY <1>1, LeastNatural
<1>. QED
  BY <1>2 DEF FirstsIn, AboutIn

\* One more function: the first of its column, ...
LEMMA NewColumn ==
    ASSUME NEW x \in Nat \ {0}, NEW J, J \subseteq 1 .. x - 1, NEW C, NEW F,
           \A j \in J : C[j] # C[x]
    PROVE  AddMeasure(MeasuresIn(J, C, F), C[x], F[x]) = MeasuresIn(J \cup {x}, C, F)
<1>. DEFINE K == J \cup {x}
            o == InOrder(FirstsIn(J, C))
            ms == MeasuresIn(J, C, F)
<1>1. /\ x - 1 \in Nat /\ FirstsIn(J, C) \subseteq 1 .. x - 1 /\ x <= x
      /\ \A j \in J : j # x
  <2>1. \A j \in 1 .. x - 1 : j # x
    OBVIOUS
  <2>2. FirstsIn(J, C) \subseteq J
    BY DEF FirstsIn
  <2>3. x - 1 \in Nat /\ x <= x
    OBVIOUS
  <2>4. FirstsIn(J, C) \subseteq 1 .. x - 1
    BY <2>2
  <2>. QED
    BY <2>1, <2>3, <2>4
<1>2. o \in Seq(FirstsIn(J, C))
  BY <1>1, InOrderIs
<1>3. /\ \A i \in J : AboutIn(K, C, i) = AboutIn(J, C, i)
      /\ AboutIn(K, C, x) = {x}
  BY <1>1 DEF AboutIn
<1>4. FirstsIn(K, C) = FirstsIn(J, C) \cup {x}
  <2>1. x \in FirstsIn(K, C)
    BY <1>1, <1>3 DEF FirstsIn
  <2>2. \A i \in J : i \in FirstsIn(K, C) <=> i \in FirstsIn(J, C)
    BY <1>3 DEF FirstsIn
  <2>3. FirstsIn(K, C) \subseteq K /\ FirstsIn(J, C) \subseteq J
    BY DEF FirstsIn
  <2>. QED
    BY <2>1, <2>2, <2>3
<1>5. InOrder(FirstsIn(K, C)) = Append(o, x)
  BY <1>1, <1>4, InOrderAppend
<1>6. PICK m \in Nat : /\ m = Len(o) /\ DOMAIN o = 1 .. m /\ DOMAIN Append(o, x) = 1 .. m + 1
                       /\ \A k \in 1 .. m : o[k] \in J /\ Append(o, x)[k] = o[k]
                       /\ Append(o, x)[m + 1] = x
  <2>1. \A k \in DOMAIN o : o[k] \in J
    BY <1>2 DEF FirstsIn
  <2>2. PICK m \in Nat : m = Len(o) /\ DOMAIN o = 1 .. m
    BY <1>2
  <2>. HIDE DEF o
  <2>3. /\ DOMAIN Append(o, x) = 1 .. m + 1 /\ \A k \in 1 .. m : Append(o, x)[k] = o[k]
        /\ Append(o, x)[m + 1] = x
    BY <1>2, <2>2
  <2>. QED
    BY <2>1, <2>2, <2>3
<1>. HIDE DEF K, o
<1>7. ms = [k \in 1 .. m |-> MeasureIn(J, C, F, o[k])]
  BY <1>6 DEF MeasuresIn, MeasuresFor, o
<1>8. MeasuresIn(K, C, F) = [k \in 1 .. m + 1 |-> MeasureIn(K, C, F, Append(o, x)[k])]
  BY <1>5, <1>6 DEF MeasuresIn, MeasuresFor
<1>9. \A k \in 1 .. m : MeasureIn(K, C, F, o[k]) = MeasureIn(J, C, F, o[k])
  BY <1>3, <1>6 DEF MeasureIn
<1>10. MeasureIn(K, C, F, x) = [column |-> C[x], funcs |-> <<F[x]>>]
  <2>1. Applied(F, <<x>>) = <<F[x]>>
    <3>1. Append(<<>>, x) = <<x>> /\ <<>> \in Seq({x}) /\ Append(<<>>, F[x]) = <<F[x]>>
      OBVIOUS
    <3>2. Applied(F, <<>>) = <<>>
      BY DEF Applied
    <3>3. Applied(F, Append(<<>>, x)) = Append(Applied(F, <<>>), F[x])
      BY <3>1, AppliedAppend
    <3>. QED
      BY <3>1, <3>2, <3>3
  <2>2. InOrder({x}) = <<x>>
    BY InOrderOne
  <2>. QED
    BY <1>3, <2>1, <2>2 DEF MeasureIn
<1>. DEFINE new == [column |-> C[x], funcs |-> <<F[x]>>]
            all == MeasuresIn(K, C, F)
            V == {ms[k] : k \in 1 .. m} \cup {new}
<1>11. AddMeasure(ms, C[x], F[x]) = Append(ms, new)
  <2>1. \A k \in 1 .. m : ms[k].column = C[o[k]]
    BY <1>7 DEF MeasureIn
  <2>2. \A k \in DOMAIN ms : ms[k].column # C[x]
    <3>1. DOMAIN ms = 1 .. m
      BY <1>7
    <3>. HIDE DEF ms
    <3>2. \A k \in 1 .. m : C[o[k]] # C[x]
      BY <1>6
    <3>. QED
      BY <2>1, <3>1, <3>2
  <2>. HIDE DEF ms
  <2>. QED
    BY <2>2 DEF AddMeasure
<1>12. \A k \in 1 .. m + 1 : all[k] = IF k = m + 1 THEN new ELSE ms[k]
  <2>1. \A k \in 1 .. m + 1 : k # m + 1 => k \in 1 .. m
    BY <1>6
  <2>2. \A k \in 1 .. m + 1 : all[k] = MeasureIn(K, C, F, Append(o, x)[k])
    BY <1>8
  <2>. QED
    BY <1>6, <1>7, <1>9, <1>10, <2>1, <2>2
<1>13. ms \in [1 .. m -> V] /\ all \in [1 .. m + 1 -> V] /\ new \in V
  <2>1. \A k \in 1 .. m + 1 : all[k] \in V
    <3>1. \A k \in 1 .. m + 1 : k # m + 1 => k \in 1 .. m
      BY <1>6
    <3>. QED
      BY <1>12, <3>1
  <2>. QED
    BY <1>7, <1>8, <2>1
<1>. HIDE DEF ms, all, new, V
<1>14. ms \in Seq(V) /\ Len(ms) = m /\ all \in Seq(V) /\ Len(all) = m + 1
  BY <1>6, <1>13
<1>15. Append(ms, new) \in Seq(V) /\ Len(Append(ms, new)) = m + 1
       /\ \A k \in 1 .. m + 1 : Append(ms, new)[k] = IF k = m + 1 THEN new ELSE ms[k]
  BY <1>13, <1>14
<1>16. all = Append(ms, new)
  BY <1>6, <1>12, <1>14, <1>15
<1>. QED
  BY <1>11, <1>16 DEF ms, all, K

\* ... or another one of it.
LEMMA KnownColumn ==
    ASSUME NEW x \in Nat \ {0}, NEW J, J \subseteq 1 .. x - 1, NEW C, NEW F,
           \E j \in J : C[j] = C[x]
    PROVE  AddMeasure(MeasuresIn(J, C, F), C[x], F[x]) = MeasuresIn(J \cup {x}, C, F)
<1>. DEFINE K == J \cup {x}
            o == InOrder(FirstsIn(J, C))
            ms == MeasuresIn(J, C, F)
<1>1. /\ x - 1 \in Nat /\ FirstsIn(J, C) \subseteq 1 .. x - 1
      /\ \A j \in J : j # x /\ j < x /\ j \in Nat
  <2>1. \A j \in 1 .. x - 1 : j # x /\ j < x /\ j \in Nat
    OBVIOUS
  <2>2. FirstsIn(J, C) \subseteq J
    BY DEF FirstsIn
  <2>3. x - 1 \in Nat /\ x <= x
    OBVIOUS
  <2>4. FirstsIn(J, C) \subseteq 1 .. x - 1
    BY <2>2
  <2>. QED
    BY <2>1, <2>3, <2>4
<1>2. PICK i0 \in FirstsIn(J, C) : C[i0] = C[x]
  <2>1. PICK m \in Nat : m = x - 1 /\ J \subseteq 1 .. m
    BY <1>1
  <2>2. PICK j0 \in J : C[j0] = C[x]
    OBVIOUS
  <2>3. \E i \in FirstsIn(J, C) : C[i] = C[j0]
    BY <2>1, <2>2, FirstAbout
  <2>. QED
    BY <2>2, <2>3
<1>3. \A i \in J : AboutIn(K, C, i) = IF C[i] = C[x] THEN AboutIn(J, C, i) \cup {x} ELSE AboutIn(J, C, i)
  BY DEF AboutIn
<1>4. FirstsIn(K, C) = FirstsIn(J, C)
  <2>1. x \notin FirstsIn(K, C)
    <3>1. i0 \in J /\ i0 \in AboutIn(K, C, x) /\ ~(x <= i0)
      BY <1>1, <1>2 DEF FirstsIn, AboutIn
    <3>. QED
      BY <3>1 DEF FirstsIn
  <2>2. \A i \in J : i <= x
    BY <1>1
  <2>3. \A i \in J : i \in FirstsIn(K, C) <=> i \in FirstsIn(J, C)
    BY <1>3, <2>2 DEF FirstsIn
  <2>. QED
    BY <2>1, <2>3 DEF FirstsIn
<1>5. /\ o \in Seq(FirstsIn(J, C)) /\ \E k \in DOMAIN o : o[k] = i0
  <2>1. /\ o \in Seq(FirstsIn(J, C)) /\ Len(o) = Cardinality(FirstsIn(J, C))
        /\ Rank(FirstsIn(J, C), i0) \in 1 .. Cardinality(FirstsIn(J, C))
        /\ o[Rank(FirstsIn(J, C), i0)] = i0
    BY <1>1, <1>2, InOrderIs
  <2>. HIDE DEF o
  <2>. QED
    BY <2>1
<1>6. \A k \in DOMAIN o : o[k] \in J
  BY <1>5 DEF FirstsIn
<1>. HIDE DEF K, o
<1>7. ms = [k \in DOMAIN o |-> MeasureIn(J, C, F, o[k])]
  BY DEF MeasuresIn, MeasuresFor, o
<1>8. MeasuresIn(K, C, F) = [k \in DOMAIN o |-> MeasureIn(K, C, F, o[k])]
  BY <1>4 DEF MeasuresIn, MeasuresFor, o
<1>9. /\ DOMAIN ms = DOMAIN o
      /\ \A k \in DOMAIN o : /\ ms[k].column = C[o[k]]
                             /\ ms[k].funcs = Applied(F, InOrder(AboutIn(J, C, o[k])))
                             /\ ms[k] = MeasureIn(J, C, F, o[k])
  BY <1>7 DEF MeasureIn
<1>. HIDE DEF ms
<1>10. AddMeasure(ms, C[x], F[x])
           = [k \in DOMAIN o |-> IF ms[k].column = C[x]
                                 THEN [column |-> C[x], funcs |-> Append(ms[k].funcs, F[x])]
                                 ELSE ms[k]]
  <2>1. \E k \in DOMAIN ms : ms[k].column = C[x]
    BY <1>2, <1>5, <1>9
  <2>. QED
    BY <1>9, <2>1 DEF AddMeasure
<1>11. ASSUME NEW k \in DOMAIN o
       PROVE  MeasureIn(K, C, F, o[k])
                  = IF ms[k].column = C[x]
                    THEN [column |-> C[x], funcs |-> Append(ms[k].funcs, F[x])] ELSE ms[k]
  <2>. DEFINE A == AboutIn(J, C, o[k])
  <2>1. o[k] \in J /\ A \subseteq 1 .. x - 1
    BY <1>6 DEF AboutIn
  <2>2. CASE C[o[k]] = C[x]
    <3>1. AboutIn(K, C, o[k]) = A \cup {x}
      BY <1>3, <2>1, <2>2
    <3>. HIDE DEF A
    <3>2. InOrder(A \cup {x}) = Append(InOrder(A), x)
      BY <2>1, InOrderAppend
    <3>3. InOrder(A) \in Seq(A)
      BY <1>1, <2>1, InOrderIs
    <3>4. Applied(F, Append(InOrder(A), x)) = Append(Applied(F, InOrder(A)), F[x])
      BY <3>3, AppliedAppend
    <3>5. MeasureIn(K, C, F, o[k])
              = [column |-> C[x], funcs |-> Append(Applied(F, InOrder(A)), F[x])]
      BY <2>2, <3>1, <3>2, <3>4 DEF MeasureIn
    <3>6. ms[k].column = C[x] /\ ms[k].funcs = Applied(F, InOrder(A))
      BY <1>9, <2>2 DEF A
    <3>. QED
      BY <3>5, <3>6
  <2>3. CASE C[o[k]] # C[x]
    <3>1. AboutIn(K, C, o[k]) = A
      BY <1>3, <2>1, <2>3
    <3>2. MeasureIn(K, C, F, o[k]) = ms[k]
      BY <1>9, <3>1 DEF MeasureIn, A
    <3>. QED
      BY <1>9, <2>3, <3>2
  <2>. QED
    BY <2>2, <2>3
<1>. QED
  BY <1>8, <1>10, <1>11 DEF ms, K

-----------------------------------------------------------------------------
(* A select list and the columns of GROUP BY become a spec. *)

LEMMA OneKindOfPiece ==
    ASSUME NEW u
    PROVE  ~(IsColumn(u) /\ IsCount(u)) /\ ~(IsColumn(u) /\ IsFunc(u)) /\ ~(IsCount(u) /\ IsFunc(u))
<1>. DEFINE k == Kinds(u)
<1>1. ASSUME NEW a, NEW b, NEW c, NEW d, NEW e
      PROVE  <<a>> # <<b, c, d, e>>
  <2>1. Len(<<a>>) = 1 /\ Len(<<b, c, d, e>>) = 4
    OBVIOUS
  <2>. QED
    BY <2>1
<1>2. "*" # "ident"
  OBVIOUS
<1>3. ~(k = <<"ident", "(", "*", ")">> /\ k = <<"ident", "(", "ident", ")">>)
  <2>1. k = <<"ident", "(", "*", ")">> => k[3] = "*"
    OBVIOUS
  <2>2. k = <<"ident", "(", "ident", ")">> => k[3] = "ident"
    OBVIOUS
  <2>. QED
    BY <1>2, <2>1, <2>2
<1>. HIDE DEF k
<1>. QED
  BY <1>1, <1>3 DEF IsColumn, IsCount, IsFunc, k

\* ParseAggFunc yields a function or an error.
LEMMA OneFunction ==
    ASSUME NEW name
    PROVE  AtMostOne(ParseAggFunc(name))
<1>1. ASSUME NEW word
      PROVE  AtMostOne(ParseFloat(word))
  <2>1. ParseFloat(word) = {Floats[word]} \/ ParseFloat(word) = {}
    BY DEF ParseFloat
  <2>. QED
    BY <2>1 DEF AtMostOne
<1>. DEFINE lower == Fold(Trim(name))
            With(q) == If(q = NaN \/ (q > 0 /\ q < 100 * Percent), AggFunc("percentile", q))
            floats == ParseFloat(Tail(lower))
<1>2. AtMostOne(UNION {With(q) : q \in floats})
  <2>1. \A q : AtMostOne(With(q))
    BY DEF If, AtMostOne
  <2>2. AtMostOne(floats)
    BY <1>1
  <2>. HIDE DEF With, floats
  <2>. QED
    BY <2>1, <2>2 DEF AtMostOne
<1>3. \/ ParseAggFunc(name) = {} \/ ParseAggFunc(name) = {AggFunc(lower[1], 0)}
      \/ ParseAggFunc(name) = UNION {With(q) : q \in floats}
  BY DEF ParseAggFunc, Then
<1>4. AtMostOne({AggFunc(lower[1], 0)}) /\ AtMostOne({})
  BY DEF AtMostOne
<1>. HIDE DEF lower, floats, With
<1>. QED
  BY <1>2, <1>3, <1>4

\* Of a list of pieces up to the n-th: the functions, what they are about and what they
\* are, the measures, and whether they can be had.
FuncsUpto(P, n) == {i \in 1 .. n : IsFunc(P[i])}
AboutOf(P) == [i \in DOMAIN P |-> P[i][3].text]
FunctionOf(P) == [i \in DOMAIN P |-> CHOOSE f \in ParseAggFunc(P[i][1].text) : TRUE]
MeasuresUpto(P, n) == MeasuresIn(FuncsUpto(P, n), AboutOf(P), FunctionOf(P))
Known(u, groupBy) ==
    /\ IsFunc(u) => ParseAggFunc(u[1].text) # {}
    /\ IsColumn(u) => u[1].text \in Range(groupBy)

LEMMA TakeItemIs ==
    ASSUME NEW x \in Nat \ {0}, NEW P, x \in DOMAIN P, NEW groupBy,
           IsColumn(P[x]) \/ IsCount(P[x]) \/ IsFunc(P[x])
    PROVE  TakeItem(MeasuresUpto(P, x - 1), ItemOf(P[x]), groupBy)
               = If(Known(P[x], groupBy), MeasuresUpto(P, x))
<1>. DEFINE J == FuncsUpto(P, x - 1)
            C == AboutOf(P)
            F == FunctionOf(P)
            ms == MeasuresUpto(P, x - 1)
            item == ItemOf(P[x])
            u == P[x]
<1>1. /\ "count" # "bare" /\ "count" # "func" /\ "bare" # "func"
      /\ ~(IsColumn(u) /\ IsCount(u)) /\ ~(IsColumn(u) /\ IsFunc(u)) /\ ~(IsCount(u) /\ IsFunc(u))
  BY OneKindOfPiece
<1>2. FuncsUpto(P, x) = IF IsFunc(u) THEN J \cup {x} ELSE J
  <2>1. \A i : i \in 1 .. x <=> i \in 1 .. x - 1 \/ i = x
    OBVIOUS
  <2>. QED
    BY <2>1 DEF FuncsUpto
<1>3. CASE IsColumn(u)
  <2>1. item.kind = "bare" /\ item.column = u[1].text
    BY <1>3 DEF ItemOf, Item
  <2>2. TakeItem(ms, item, groupBy) = If(u[1].text \in Range(groupBy), ms)
    BY <1>1, <2>1 DEF TakeItem
  <2>3. Known(u, groupBy) <=> u[1].text \in Range(groupBy)
    BY <1>1, <1>3 DEF Known
  <2>4. MeasuresUpto(P, x) = ms
    BY <1>1, <1>2, <1>3 DEF MeasuresUpto
  <2>. QED
    BY <2>2, <2>3, <2>4 DEF If
<1>4. CASE IsCount(u)
  <2>1. item.kind = "count"
    BY <1>1, <1>4 DEF ItemOf, Item
  <2>2. TakeItem(ms, item, groupBy) = {ms}
    BY <1>1, <2>1 DEF TakeItem
  <2>3. Known(u, groupBy)
    BY <1>1, <1>4 DEF Known
  <2>4. MeasuresUpto(P, x) = ms
    BY <1>1, <1>2, <1>4 DEF MeasuresUpto
  <2>. QED
    BY <2>2, <2>3, <2>4 DEF If
<1>5. CASE IsFunc(u)
  <2>. DEFINE fs == ParseAggFunc(u[1].text)
  <2>1. item.kind = "func" /\ item.column = C[x] /\ item.fn = u[1].text
    BY <1>1, <1>5 DEF ItemOf, Item, AboutOf
  <2>2. TakeItem(ms, item, groupBy) = {AddMeasure(ms, C[x], fn) : fn \in fs}
    <3>. HIDE DEF item, C, ms
    <3>1. TakeItem(ms, item, groupBy) = UNION {{AddMeasure(ms, C[x], fn)} : fn \in fs}
      BY <1>1, <2>1 DEF TakeItem, Then
    <3>. HIDE DEF fs
    <3>. QED
      BY <3>1
  <2>3. F[x] = CHOOSE f \in fs : TRUE
    BY DEF FunctionOf
  <2>4. fs # {} => fs = {F[x]}
    <3>1. AtMostOne(fs)
      BY OneFunction
    <3>. HIDE DEF fs, F
    <3>. QED
      BY <2>3, <3>1 DEF AtMostOne
  <2>5. AddMeasure(ms, C[x], F[x]) = MeasuresUpto(P, x)
    <3>1. J \subseteq 1 .. x - 1
      BY DEF FuncsUpto
    <3>2. FuncsUpto(P, x) = J \cup {x}
      BY <1>2, <1>5
    <3>. HIDE DEF J, C, F
    <3>3. AddMeasure(MeasuresIn(J, C, F), C[x], F[x]) = MeasuresIn(J \cup {x}, C, F)
      <4>1. CASE \E j \in J : C[j] = C[x]
        BY <3>1, <4>1, KnownColumn
      <4>2. CASE \A j \in J : C[j] # C[x]
        BY <3>1, <4>2, NewColumn
      <4>. QED
        BY <4>1, <4>2
    <3>. QED
      BY <3>2, <3>3 DEF MeasuresUpto, J, C, F
  <2>6. Known(u, groupBy) <=> fs # {}
    BY <1>1, <1>5 DEF Known
  <2>7. CASE fs = {}
    <3>1. TakeItem(ms, item, groupBy) = {}
      <4>. HIDE DEF fs, ms, C, F, item
      <4>. QED
        BY <2>2, <2>7
    <3>. QED
      BY <2>6, <2>7, <3>1 DEF If
  <2>8. CASE fs # {}
    <3>1. TakeItem(ms, item, groupBy) = {AddMeasure(ms, C[x], F[x])}
      <4>. HIDE DEF fs, ms, C, F, item
      <4>. QED
        BY <2>2, <2>4, <2>8
    <3>. QED
      BY <2>5, <2>6, <2>8, <3>1 DEF If
  <2>. HIDE DEF fs
  <2>. QED
    BY <2>7, <2>8
<1>. QED
  BY Zenon, <1>3, <1>4, <1>5

KnownUpto(P, groupBy, n) == \A i \in 1 .. n : Known(P[i], groupBy)

LEMMA SpecOfIs ==
    ASSUME NEW N \in Nat, NEW P, Lists(P, N), NEW groupBy
    PROVE  SpecOf(P, groupBy) = If(KnownUpto(P, groupBy, N),
                                   [groupBy |-> groupBy, measures |-> MeasuresUpto(P, N)])
<1>. DEFINE J == {i \in DOMAIN P : IsFunc(P[i])}
            C == AboutOf(P)
            F == FunctionOf(P)
            About(i) == {j \in J : P[j][3].text = P[i][3].text}
            firsts == InOrder({i \in J : \A j \in About(i) : i <= j})
            Function(i) == CHOOSE f \in ParseAggFunc(P[i][1].text) : TRUE
            ms == [n \in DOMAIN firsts |->
                     [column |-> P[firsts[n]][3].text,
                      funcs |-> [m \in DOMAIN InOrder(About(firsts[n])) |->
                                   Function(InOrder(About(firsts[n]))[m])]]]
            fine == /\ \A i \in J : ParseAggFunc(P[i][1].text) # {}
                    /\ \A p \in Range(P) : IsColumn(p) => p[1].text \in Range(groupBy)
<1>1. DOMAIN P = 1 .. N
  BY ListIs
<1>2. SpecOf(P, groupBy) = If(fine, [groupBy |-> groupBy, measures |-> ms])
  BY Zenon DEF SpecOf
<1>3. fine <=> KnownUpto(P, groupBy, N)
  <2>1. Range(P) = {P[i] : i \in 1 .. N}
    BY <1>1 DEF Range
  <2>. QED
    BY <1>1, <2>1 DEF KnownUpto, Known, FuncsUpto
<1>4. J \subseteq 1 .. N /\ J = FuncsUpto(P, N)
  BY <1>1 DEF FuncsUpto
<1>5. \A i \in 1 .. N : C[i] = P[i][3].text /\ F[i] = Function(i)
  BY <1>1 DEF AboutOf, FunctionOf
<1>6. \A i \in J : About(i) = AboutIn(J, C, i)
  BY <1>4, <1>5 DEF AboutIn
<1>7. {i \in J : \A j \in About(i) : i <= j} = FirstsIn(J, C)
  BY <1>6 DEF FirstsIn
<1>8. firsts = InOrder(FirstsIn(J, C))
  BY <1>7
<1>9. \A n \in DOMAIN firsts : firsts[n] \in J
  <2>1. FirstsIn(J, C) \subseteq J
    BY DEF FirstsIn
  <2>2. firsts \in Seq(FirstsIn(J, C))
    BY <1>4, <1>8, <2>1, InOrderIs
  <2>. HIDE DEF firsts
  <2>. QED
    BY <2>1, <2>2
<1>. HIDE DEF firsts
<1>10. ASSUME NEW n \in DOMAIN firsts
       PROVE  MeasureIn(J, C, F, firsts[n])
                  = [column |-> P[firsts[n]][3].text,
                     funcs |-> [m \in DOMAIN InOrder(About(firsts[n])) |->
                                  Function(InOrder(About(firsts[n]))[m])]]
  <2>. DEFINE A == About(firsts[n])
              o == InOrder(A)
  <2>1. firsts[n] \in J /\ A = AboutIn(J, C, firsts[n])
    BY <1>6, <1>9
  <2>2. A \subseteq 1 .. N
    BY <1>4
  <2>3. o \in Seq(A)
    BY <2>2, InOrderIs
  <2>. HIDE DEF A, o
  <2>4. \A m \in DOMAIN o : F[o[m]] = Function(o[m])
    <3>1. \A m \in DOMAIN o : o[m] \in A
      BY <2>3
    <3>2. \A m \in DOMAIN o : o[m] \in 1 .. N
      BY <2>2, <3>1
    <3>. HIDE DEF F, Function
    <3>. QED
      BY <1>5, <3>2
  <2>5. Applied(F, o) = [m \in DOMAIN o |-> Function(o[m])]
    BY <2>4 DEF Applied
  <2>6. MeasureIn(J, C, F, firsts[n]) = [column |-> C[firsts[n]], funcs |-> Applied(F, o)]
    BY <2>1 DEF MeasureIn, o
  <2>7. C[firsts[n]] = P[firsts[n]][3].text
    BY <1>4, <1>5, <2>1
  <2>8. MeasureIn(J, C, F, firsts[n])
            = [column |-> P[firsts[n]][3].text, funcs |-> [m \in DOMAIN o |-> Function(o[m])]]
    BY <2>5, <2>6, <2>7
  <2>. QED
    BY Zenon, <2>8 DEF o, A
<1>11. ms = MeasuresUpto(P, N)
  <2>1. MeasuresUpto(P, N) = [n \in DOMAIN firsts |-> MeasureIn(J, C, F, firsts[n])]
    BY <1>4, <1>8 DEF MeasuresUpto, MeasuresIn, MeasuresFor
  <2>. HIDE DEF About, Function
  <2>. QED
    BY <1>10, <2>1
<1>. HIDE DEF fine, ms
<1>12. CASE fine
  BY <1>2, <1>3, <1>11, <1>12 DEF If
<1>13. CASE ~fine
  BY <1>2, <1>3, <1>13 DEF If
<1>. QED
  BY <1>12, <1>13

LEMMA ToSpecIs ==
    ASSUME NEW N \in Nat, NEW P, Lists(P, N), NEW groupBy,
           \A i \in 1 .. N : IsColumn(P[i]) \/ IsCount(P[i]) \/ IsFunc(P[i]),
           NEW items, items = [i \in 1 .. N |-> ItemOf(P[i])]
    PROVE  ToSpec(items, groupBy) = SpecOf(P, groupBy)
<1>. DEFINE Go(L) == [n \in 0 .. N |-> IF n = 0 THEN {<<>>}
                                       ELSE UNION {TakeItem(ms, items[n], groupBy) : ms \in L[n - 1]}]
            Upto == CHOOSE L : L = Go(L)
            f == [n \in 0 .. N |-> If(KnownUpto(P, groupBy, n), MeasuresUpto(P, n))]
            Made(ms) == [groupBy |-> groupBy, measures |-> ms]
<1>1. Len(items) = N /\ DOMAIN P = 1 .. N
  <2>1. Lists(items, N)
    BY DEF Lists
  <2>. QED
    BY <2>1, ListIs
<1>2. ToSpec(items, groupBy) = UNION {{Made(ms)} : ms \in Upto[N]}
  BY <1>1 DEF ToSpec, Then
<1>3. f[0] = {<<>>}
  <2>1. FuncsUpto(P, 0) = {}
    BY DEF FuncsUpto
  <2>2. MeasuresUpto(P, 0) = <<>>
    <3>1. FirstsIn({}, AboutOf(P)) = {}
      BY DEF FirstsIn
    <3>2. MeasuresFor({}, AboutOf(P), FunctionOf(P), <<>>) = <<>>
      BY DEF MeasuresFor
    <3>. QED
      BY <2>1, <3>1, <3>2, InOrderNone DEF MeasuresUpto, MeasuresIn
  <2>3. KnownUpto(P, groupBy, 0)
    BY DEF KnownUpto
  <2>. QED
    BY <2>2, <2>3 DEF If
<1>4. ASSUME NEW n \in 1 .. N
      PROVE  f[n] = UNION {TakeItem(ms, items[n], groupBy) : ms \in f[n - 1]}
  <2>1. n - 1 \in 0 .. N /\ n \in 0 .. N /\ n \in Nat \ {0} /\ n \in DOMAIN P
    BY <1>1
  <2>2. items[n] = ItemOf(P[n]) /\ (IsColumn(P[n]) \/ IsCount(P[n]) \/ IsFunc(P[n]))
    OBVIOUS
  <2>3. TakeItem(MeasuresUpto(P, n - 1), ItemOf(P[n]), groupBy)
            = If(Known(P[n], groupBy), MeasuresUpto(P, n))
    BY <2>1, <2>2, TakeItemIs
  <2>4. KnownUpto(P, groupBy, n) <=> KnownUpto(P, groupBy, n - 1) /\ Known(P[n], groupBy)
    <3>1. \A i : i \in 1 .. n <=> i \in 1 .. n - 1 \/ i = n
      OBVIOUS
    <3>. QED
      BY <3>1 DEF KnownUpto
  <2>5. f[n] = If(KnownUpto(P, groupBy, n), MeasuresUpto(P, n))
    BY <2>1
  <2>6. f[n - 1] = If(KnownUpto(P, groupBy, n - 1), MeasuresUpto(P, n - 1))
    BY <2>1
  <2>. HIDE DEF f
  <2>7. CASE KnownUpto(P, groupBy, n - 1) /\ Known(P[n], groupBy)
    <3>1. f[n - 1] = {MeasuresUpto(P, n - 1)} /\ f[n] = {MeasuresUpto(P, n)}
      BY <2>4, <2>5, <2>6, <2>7 DEF If
    <3>2. TakeItem(MeasuresUpto(P, n - 1), items[n], groupBy) = {MeasuresUpto(P, n)}
      BY <2>2, <2>3, <2>7 DEF If
    <3>. QED
      BY <3>1, <3>2
  <2>8. CASE KnownUpto(P, groupBy, n - 1) /\ ~Known(P[n], groupBy)
    <3>1. f[n - 1] = {MeasuresUpto(P, n - 1)} /\ f[n] = {}
      BY <2>4, <2>5, <2>6, <2>8 DEF If
    <3>2. TakeItem(MeasuresUpto(P, n - 1), items[n], groupBy) = {}
      BY <2>2, <2>3, <2>8 DEF If
    <3>. QED
      BY <3>1, <3>2
  <2>9. CASE ~KnownUpto(P, groupBy, n - 1)
    <3>1. f[n - 1] = {} /\ f[n] = {}
      BY <2>4, <2>5, <2>6, <2>9 DEF If
    <3>. QED
      BY <3>1
  <2>. QED
    BY <2>7, <2>8, <2>9
<1>5. f = Go(f)
  <2>1. \A n \in 0 .. N : n # 0 => n \in 1 .. N
    OBVIOUS
  <2>2. f = [n \in 0 .. N |-> f[n]]
    OBVIOUS
  <2>. HIDE DEF f
  <2>. QED
    BY <1>3, <1>4, <2>1, <2>2
<1>6. Upto = Go(Upto)
  <2>. HIDE DEF f, Go
  <2>. QED
    BY <1>5
<1>7. Upto = f
  <2>. HIDE DEF Upto, f
  <2>1. Runs(Upto, N) /\ Runs(f, N)
    BY <1>5, <1>6 DEF Runs
  <2>2. Upto[0] = f[0]
    BY <1>3, <1>6
  <2>3. \A n \in 1 .. N : Upto[n - 1] = f[n - 1] => Upto[n] = f[n]
    <3>1. \A n \in 1 .. N : n \in 0 .. N /\ n # 0
      OBVIOUS
    <3>. QED
      BY <1>4, <1>6, <3>1
  <2>. HIDE DEF Go
  <2>. QED
    BY <2>1, <2>2, <2>3, StepsDetermine
<1>8. f[N] = If(KnownUpto(P, groupBy, N), MeasuresUpto(P, N))
  OBVIOUS
<1>. HIDE DEF Upto, f
<1>9. ToSpec(items, groupBy) = If(KnownUpto(P, groupBy, N), Made(MeasuresUpto(P, N)))
  <2>. HIDE DEF Made
  <2>. QED
    BY <1>2, <1>7, <1>8, SMTT(30) DEF If
<1>. QED
  BY <1>9, SpecOfIs

-----------------------------------------------------------------------------
(* Parse. *)

EndsOf(t, a, b) == <<a - 1>> \o InOrder(Commas(t, a, b)) \o <<b + 1>>

\* Where m pieces begin and end.
Cut(t, a, b, m) ==
    /\ Len(EndsOf(t, a, b)) - 1 = m /\ Lists(Pieces(t, a, b), m)
    /\ \A n \in 1 .. m :
          /\ Pieces(t, a, b)[n] = SubSeq(t, EndsOf(t, a, b)[n] + 1, EndsOf(t, a, b)[n + 1] - 1)
          /\ EndsOf(t, a, b)[n] \in a - 1 .. b
          /\ EndsOf(t, a, b)[n + 1] \in a .. b + 1
          /\ n # m => EndsOf(t, a, b)[n + 1] \in Commas(t, a, b)

LEMMA PiecesAre ==
    ASSUME NEW t, NEW a \in Nat \ {0}, NEW b \in Nat, a <= b + 1
    PROVE  \E m \in Nat \ {0} : Cut(t, a, b, m)
<1>. DEFINE S == Commas(t, a, b)
            f == InOrder(S)
            ends == EndsOf(t, a, b)
<1>1. S \subseteq 1 .. b /\ S \subseteq a .. b
  <2>1. \A i \in a .. b : i \in 1 .. b
    OBVIOUS
  <2>. QED
    BY <2>1 DEF Commas
<1>2. f \in Seq(S) /\ f \in Seq(Nat)
  <2>1. f \in Seq(S)
    BY <1>1, InOrderIs
  <2>2. S \subseteq Nat
    BY <1>1
  <2>. QED
    BY <2>1, <2>2
<1>. HIDE DEF S, f
<1>3. PICK c \in Nat : c = Len(f)
  BY <1>2
<1>4. f \in Seq(Nat) /\ \A n \in 1 .. c : f[n] \in S
  <2>1. \A n \in 1 .. c : f[n] \in S
    BY <1>2, <1>3
  <2>. QED
    BY <1>2, <2>1
<1>5. ends = <<a - 1>> \o f \o <<b + 1>>
  BY DEF EndsOf, S, f
<1>6. a - 1 \in Nat /\ b + 1 \in Nat
  OBVIOUS
<1>7. /\ Len(ends) = c + 2 /\ ends[1] = a - 1 /\ ends[c + 2] = b + 1
      /\ \A n \in 1 .. c : ends[n + 1] = f[n]
  BY <1>3, <1>4, <1>5, <1>6
<1>8. Pieces(t, a, b) = [n \in 1 .. Len(ends) - 1 |-> SubSeq(t, ends[n] + 1, ends[n + 1] - 1)]
  BY <1>5 DEF Pieces, f, S, Commas
<1>. HIDE DEF ends
<1>9. PICK m \in Nat \ {0} : m = c + 1 /\ m = Len(ends) - 1
  BY <1>3, <1>7
<1>10. /\ Lists(Pieces(t, a, b), m)
       /\ \A n \in 1 .. m : Pieces(t, a, b)[n] = SubSeq(t, ends[n] + 1, ends[n + 1] - 1)
  BY <1>8, <1>9 DEF Lists
<1>11. \A n \in 1 .. c : ends[n + 1] \in S /\ ends[n + 1] \in a .. b
  BY <1>1, <1>4, <1>7
<1>12. ASSUME NEW n \in 1 .. m
       PROVE  /\ ends[n] \in a - 1 .. b /\ ends[n + 1] \in a .. b + 1
              /\ n # m => ends[n + 1] \in S
  <2>1. n = 1 \/ (n - 1 \in 1 .. c /\ (n - 1) + 1 = n)
    BY <1>3, <1>9
  <2>2. ends[n] \in a - 1 .. b
    <3>1. CASE n = 1
      BY <1>6, <1>7, <3>1
    <3>2. CASE n - 1 \in 1 .. c /\ (n - 1) + 1 = n
      <4>1. ends[n] \in a .. b
        BY <1>11, <3>2
      <4>. QED
        BY <4>1
    <3>. QED
      BY <2>1, <3>1, <3>2
  <2>3. n = m => n + 1 = c + 2
    BY <1>9
  <2>4. n # m => n \in 1 .. c
    BY <1>3, <1>9
  <2>5. CASE n = m
    <3>1. ends[n + 1] = b + 1
      BY <1>7, <2>3, <2>5
    <3>. QED
      BY <2>2, <2>5, <3>1
  <2>6. CASE n # m
    <3>1. ends[n + 1] \in S /\ ends[n + 1] \in a .. b
      BY <1>11, <2>4, <2>6
    <3>. QED
      BY <2>2, <2>6, <3>1
  <2>. QED
    BY <2>5, <2>6
<1>. QED
  BY <1>9, <1>10, <1>12 DEF ends, S, Cut

\* What stands behind b is no matter.
LEMMA SamePieces ==
    ASSUME NEW t, NEW toks, NEW a \in Nat \ {0}, NEW b \in Nat, a <= b + 1,
           \A i \in 1 .. b : toks[i] = t[i]
    PROVE  Pieces(toks, a, b) = Pieces(t, a, b)
<1>1. Commas(toks, a, b) = Commas(t, a, b)
  <2>1. \A i \in a .. b : i \in 1 .. b
    OBVIOUS
  <2>. QED
    BY <2>1 DEF Commas
<1>2. EndsOf(toks, a, b) = EndsOf(t, a, b)
  BY <1>1 DEF EndsOf
<1>. DEFINE ends == EndsOf(t, a, b)
            P == Pieces(t, a, b)
            R == Pieces(toks, a, b)
<1>3. PICK m \in Nat \ {0} :
         /\ Len(ends) - 1 = m /\ Lists(P, m)
         /\ \A n \in 1 .. m : /\ P[n] = SubSeq(t, ends[n] + 1, ends[n + 1] - 1)
                              /\ ends[n] \in a - 1 .. b /\ ends[n + 1] \in a .. b + 1
  BY PiecesAre DEF Cut
<1>4. /\ Lists(R, m)
      /\ \A n \in 1 .. m : R[n] = SubSeq(toks, ends[n] + 1, ends[n + 1] - 1)
  <2>1. PICK q \in Nat \ {0} : Cut(toks, a, b, q)
    BY PiecesAre
  <2>2. Len(ends) - 1 = q
    BY <1>2, <2>1 DEF Cut
  <2>3. q = m
    BY <1>3, <2>2
  <2>. QED
    BY <1>2, <2>1, <2>3 DEF Cut
<1>. HIDE DEF ends, P, R
<1>5. ASSUME NEW n \in 1 .. m
      PROVE  R[n] = P[n]
  <2>1. PICK x \in 1 .. b + 1, y \in 0 .. b : x = ends[n] + 1 /\ y = ends[n + 1] - 1
    <3>1. ends[n] \in a - 1 .. b /\ ends[n + 1] \in a .. b + 1
      BY <1>3
    <3>2. ends[n] + 1 \in 1 .. b + 1 /\ ends[n + 1] - 1 \in 0 .. b
      BY <3>1
    <3>. QED
      BY <3>2
  <2>2. \A i \in 1 .. y - x + 1 : toks[x + i - 1] = t[x + i - 1]
    <3>1. \A i \in 1 .. y - x + 1 : x + i - 1 \in 1 .. b
      OBVIOUS
    <3>. QED
      BY <3>1
  <2>3. SubSeq(toks, x, y) = SubSeq(t, x, y)
    BY <2>2
  <2>. QED
    BY <1>3, <1>4, <2>1, <2>3
<1>6. R = [n \in 1 .. m |-> R[n]] /\ P = [n \in 1 .. m |-> P[n]]
  BY <1>3, <1>4 DEF Lists
<1>7. R = P
  BY <1>5, <1>6
<1>. QED
  BY <1>7 DEF R, P

\* m parts of the text, of which all but the last have a comma behind.
PartsOf(toks, P, m) ==
    /\ Lists(P, m)
    /\ \A n \in 1 .. m : /\ P[n] \in Parts(toks)
                         /\ n # m => \E i \in 1 .. Len(toks) : toks[i].kind = Comma

LEMMA PiecesOfParts ==
    ASSUME NEW toks, Len(toks) \in Nat, NEW a \in 1 .. Len(toks), NEW b \in Nat, a <= b + 1,
           b < Len(toks)
    PROVE  \E m \in Nat \ {0} : PartsOf(toks, Pieces(toks, a, b), m)
<1>. DEFINE ends == EndsOf(toks, a, b)
            P == Pieces(toks, a, b)
<1>1. PICK m \in Nat \ {0} :
         /\ Lists(P, m)
         /\ \A n \in 1 .. m : /\ P[n] = SubSeq(toks, ends[n] + 1, ends[n + 1] - 1)
                              /\ ends[n] \in a - 1 .. b /\ ends[n + 1] \in a .. b + 1
                              /\ n # m => ends[n + 1] \in Commas(toks, a, b)
  <2>1. a \in Nat \ {0}
    OBVIOUS
  <2>. QED
    BY <2>1, PiecesAre DEF Cut
<1>. HIDE DEF ends, P
<1>2. ASSUME NEW n \in 1 .. m
      PROVE  P[n] \in Parts(toks)
  <2>1. PICK x \in 1 .. Len(toks), y \in 0 .. Len(toks) : x = ends[n] + 1 /\ y = ends[n + 1] - 1
    <3>1. ends[n] \in a - 1 .. b /\ ends[n + 1] \in a .. b + 1
      BY <1>1
    <3>2. ends[n] + 1 \in 1 .. Len(toks) /\ ends[n + 1] - 1 \in 0 .. Len(toks)
      BY <3>1
    <3>. QED
      BY <3>2
  <2>2. P[n] = SubSeq(toks, x, y)
    BY <1>1, <2>1
  <2>. QED
    BY <2>2 DEF Parts
<1>3. ASSUME NEW n \in 1 .. m, n # m
      PROVE  \E i \in 1 .. Len(toks) : toks[i].kind = Comma
  <2>1. PICK i \in a .. b : toks[i].kind = Comma
    BY <1>1, <1>3 DEF Commas
  <2>2. i \in 1 .. Len(toks)
    OBVIOUS
  <2>. QED
    BY <2>1, <2>2
<1>. QED
  BY <1>1, <1>2, <1>3 DEF P, PartsOf

\* toks is what Lex yields for N tokens t.
LexedAs(t, toks, N) ==
    /\ N \in Nat /\ Len(t) = N /\ EndsInEOF(toks) /\ Len(toks) = N + 1
    /\ \A i \in 1 .. N : toks[i] = t[i]

LEMMA LexedIs ==
    ASSUME NEW t, NEW toks, NEW N, LexedAs(t, toks, N)
    PROVE  /\ N \in Nat /\ Len(toks) \in Nat /\ N < Len(toks)
           /\ \A i \in 1 .. N + 1 : toks[i].kind = "EOF" <=> i = N + 1
<1>1. N \in Nat /\ EndsInEOF(toks) /\ Len(toks) = N + 1
  BY DEF LexedAs
<1>2. \A i \in 1 .. Len(toks) : toks[i].kind = "EOF" <=> i = Len(toks)
  BY <1>1, EOFEnds
<1>. QED
  BY <1>1, <1>2

Texts(P) == [n \in DOMAIN P |-> P[n][1].text]

\* A select list ends where its pieces are items.
LEMMA ItemsEnd ==
    ASSUME NEW t, NEW toks, NEW N, LexedAs(t, toks, N), NEW k \in 2 .. N + 1,
           toks[k].kind # Comma, toks[k].kind # "("
    PROVE  /\ k \in ListEnds(toks, ItemPieces(toks), 2) <=> AllItems(Pieces(t, 2, k - 1))
           /\ AllItems(Pieces(t, 2, k - 1)) =>
                 \A groupBy : ToSpec(Values(ItemsOf(toks), Pieces(toks, 2, k - 1)), groupBy)
                                  = SpecOf(Pieces(t, 2, k - 1), groupBy)
<1>1. /\ N \in Nat /\ Len(t) = N /\ EndsInEOF(toks) /\ Len(toks) = N + 1
      /\ \A i \in 1 .. N : toks[i] = t[i]
  BY DEF LexedAs
<1>2. PICK b \in Nat : b = k - 1 /\ b <= N /\ 2 <= b + 1
  BY <1>1
<1>3. 2 \in 1 .. Len(toks) /\ k \in 1 .. Len(toks) /\ b < Len(toks) /\ k \in 2 .. Len(toks)
  BY <1>1, <1>2
<1>. DEFINE P == Pieces(toks, 2, b)
            G == ItemPieces(toks)
<1>4. Pieces(t, 2, b) = P
  <2>1. \A i \in 1 .. b : toks[i] = t[i]
    BY <1>1, <1>2
  <2>2. 2 \in Nat \ {0} /\ 2 <= b + 1
    BY <1>2
  <2>3. Pieces(toks, 2, b) = Pieces(t, 2, b)
    BY <2>1, <2>2, SamePieces
  <2>. QED
    BY <2>3
<1>5. PICK m \in Nat \ {0} :
         /\ Lists(P, m)
         /\ \A n \in 1 .. m : /\ P[n] \in Parts(toks)
                              /\ n # m => \E i \in 1 .. Len(toks) : toks[i].kind = Comma
  <2>1. Len(toks) \in Nat
    BY <1>1
  <2>. QED
    BY <1>2, <1>3, <2>1, PiecesOfParts DEF PartsOf
<1>. HIDE DEF P
<1>6. DOMAIN P = 1 .. m /\ Len(P) = m /\ Range(P) = {P[n] : n \in 1 .. m}
  BY <1>5, ListIs DEF Range
<1>7. AllGood(G, P, toks[k].kind) <=> AllItems(P)
  <2>1. ASSUME NEW n \in 1 .. m
        PROVE  <<P[n], IF n = Len(P) THEN toks[k].kind ELSE Comma>> \in G
                   <=> IsColumn(P[n]) \/ IsCount(P[n]) \/ IsFunc(P[n])
    <3>. DEFINE kind == IF n = Len(P) THEN toks[k].kind ELSE Comma
    <3>1. kind # "(" /\ kind \in {toks[i].kind : i \in 1 .. Len(toks)}
      BY <1>3, <1>5, <1>6, CommaIs
    <3>. HIDE DEF kind
    <3>2. <<P[n], kind>> \in PartsBefore(toks)
      BY <1>5, <3>1 DEF PartsBefore
    <3>3. <<P[n], kind>> \in G <=> (IsColumn(P[n]) /\ kind # "(") \/ IsCount(P[n]) \/ IsFunc(P[n])
      BY <3>2 DEF ItemPieces
    <3>4. <<P[n], kind>> \in G <=> IsColumn(P[n]) \/ IsCount(P[n]) \/ IsFunc(P[n])
      BY <3>1, <3>3
    <3>. QED
      BY <3>4 DEF kind
  <2>2. AllGood(G, P, toks[k].kind)
            <=> \A n \in 1 .. m : <<P[n], IF n = Len(P) THEN toks[k].kind ELSE Comma>> \in G
    BY <1>6 DEF AllGood
  <2>3. AllItems(P) <=> \A n \in 1 .. m : IsColumn(P[n]) \/ IsCount(P[n]) \/ IsFunc(P[n])
    BY <1>6 DEF AllItems
  <2>. QED
    BY <2>1, <2>2, <2>3
<1>8. k \in ListEnds(toks, G, 2) <=> AllItems(P)
  BY <1>2, <1>3, <1>7 DEF ListEnds, P
<1>9. ASSUME AllItems(P), NEW groupBy
      PROVE  ToSpec(Values(ItemsOf(toks), P), groupBy) = SpecOf(P, groupBy)
  <2>1. \A n \in 1 .. m : IsColumn(P[n]) \/ IsCount(P[n]) \/ IsFunc(P[n])
    BY <1>6, <1>9 DEF AllItems
  <2>2. \A n \in 1 .. m : ItemsOf(toks)[P[n]] = ItemOf(P[n])
    BY <1>5 DEF ItemsOf
  <2>3. Values(ItemsOf(toks), P) = [n \in 1 .. m |-> ItemOf(P[n])]
    BY <1>6, <2>2 DEF Values
  <2>4. PICK items : items = Values(ItemsOf(toks), P)
    OBVIOUS
  <2>5. items = [n \in 1 .. m |-> ItemOf(P[n])]
    BY <2>3, <2>4
  <2>6. ToSpec(items, groupBy) = SpecOf(P, groupBy)
    BY <1>5, <2>1, <2>5, ToSpecIs
  <2>. QED
    BY <2>4, <2>6
<1>10. Pieces(toks, 2, k - 1) = P /\ Pieces(t, 2, k - 1) = P
  BY <1>2, <1>4 DEF P
<1>. QED
  BY <1>8, <1>9, <1>10

\* A list of columns that ends the text.
LEMMA ColumnsEnd ==
    ASSUME NEW t, NEW toks, NEW N, LexedAs(t, toks, N), NEW p \in 1 .. N + 1
    PROVE  /\ N + 1 \in ListEnds(toks, ColumnPieces(toks), p) <=> AllColumns(Pieces(t, p, N))
           /\ Values(ColumnsOf(toks), Pieces(toks, p, N)) = Texts(Pieces(t, p, N))
<1>1. /\ N \in Nat /\ Len(t) = N /\ EndsInEOF(toks) /\ Len(toks) = N + 1
      /\ \A i \in 1 .. N : toks[i] = t[i]
  BY DEF LexedAs
<1>2. p \in Nat \ {0} /\ p <= N + 1 /\ p \in 1 .. Len(toks) /\ N + 1 \in 1 .. Len(toks)
      /\ N < Len(toks) /\ N <= Len(toks) /\ N + 1 \in p .. Len(toks) /\ (N + 1) - 1 = N
  BY <1>1
<1>3. toks[N + 1].kind # Comma
  <2>1. toks[N + 1].kind = "EOF"
    BY <1>2, LexedIs
  <2>. QED
    BY <2>1, CommaIs
<1>. DEFINE P == Pieces(toks, p, N)
            G == ColumnPieces(toks)
<1>4. Pieces(t, p, N) = P
  BY <1>1, <1>2, SamePieces
<1>5. PICK m \in Nat \ {0} :
         /\ Lists(P, m)
         /\ \A n \in 1 .. m : /\ P[n] \in Parts(toks)
                              /\ n # m => \E i \in 1 .. Len(toks) : toks[i].kind = Comma
  <2>1. Len(toks) \in Nat
    BY <1>1
  <2>. QED
    BY <1>1, <1>2, <2>1, PiecesOfParts DEF PartsOf
<1>6. P = Pieces(toks, p, (N + 1) - 1)
  BY <1>2
<1>. HIDE DEF P
<1>7. DOMAIN P = 1 .. m /\ Len(P) = m /\ Range(P) = {P[n] : n \in 1 .. m}
  BY <1>5, ListIs DEF Range
<1>. DEFINE last == toks[N + 1].kind
<1>8. last # Comma /\ last \in {toks[i].kind : i \in 1 .. Len(toks)}
  BY <1>2, <1>3
<1>. HIDE DEF last
<1>9. AllGood(G, P, last) <=> AllColumns(P)
  <2>1. ASSUME NEW n \in 1 .. m
        PROVE  <<P[n], IF n = Len(P) THEN last ELSE Comma>> \in G <=> IsColumn(P[n])
    <3>. DEFINE kind == IF n = Len(P) THEN last ELSE Comma
    <3>1. kind \in {toks[i].kind : i \in 1 .. Len(toks)}
      BY <1>5, <1>7, <1>8
    <3>. HIDE DEF kind
    <3>2. <<P[n], kind>> \in PartsBefore(toks)
      BY <1>5, <3>1 DEF PartsBefore
    <3>3. <<P[n], kind>> \in G <=> IsColumn(P[n])
      BY <3>2 DEF ColumnPieces
    <3>. QED
      BY <3>3 DEF kind
  <2>2. AllGood(G, P, last) <=> \A n \in 1 .. m : <<P[n], IF n = Len(P) THEN last ELSE Comma>> \in G
    BY <1>7 DEF AllGood
  <2>3. AllColumns(P) <=> \A n \in 1 .. m : IsColumn(P[n])
    BY <1>7 DEF AllColumns
  <2>. QED
    BY <2>1, <2>2, <2>3
<1>10. N + 1 \in ListEnds(toks, G, p) <=> AllColumns(P)
  BY <1>2, <1>6, <1>8, <1>9 DEF ListEnds, last
<1>11. Values(ColumnsOf(toks), P) = Texts(P)
  <2>1. \A n \in 1 .. m : ColumnsOf(toks)[P[n]] = P[n][1].text
    BY <1>5 DEF ColumnsOf
  <2>. QED
    BY <1>7, <2>1 DEF Values, Texts
<1>. QED
  BY <1>4, <1>10, <1>11 DEF P

LEMMA KeywordIs ==
    ASSUME NEW t, NEW toks, NEW N, LexedAs(t, toks, N), NEW k \in 1 .. N + 1, NEW word
    PROVE  IsKeyword(toks, k, word) <=> k # N + 1 /\ Word(t[k], word)
<1>1. toks[k].kind = "EOF" <=> k = N + 1
  BY LexedIs
<1>2. N \in Nat /\ \A i \in 1 .. N : toks[i] = t[i]
  BY DEF LexedAs
<1>3. CASE k = N + 1
  BY <1>1, <1>3 DEF IsKeyword
<1>4. CASE k # N + 1
  <2>1. toks[k] = t[k]
    BY <1>2, <1>4
  <2>. QED
    BY <1>4, <2>1 DEF IsKeyword, Word
<1>. QED
  BY <1>3, <1>4

\* parseGroupBy, where nothing is left behind it.
LEMMA GroupByIs ==
    ASSUME NEW t, NEW toks, NEW N, LexedAs(t, toks, N), NEW k \in 2 .. N + 1
    PROVE  /\ {g \in ParseGroupBy(toks, k) : toks[g.next].kind = "EOF"}
                  = If(GroupsAt(t, k), Read(GroupAt(t, k), N + 1))
           /\ AtMostOne(ParseGroupBy(toks, k))
<1>1. N \in Nat /\ \A i \in 1 .. N + 1 : toks[i].kind = "EOF" <=> i = N + 1
  BY LexedIs
<1>2. EndsInEOF(toks) /\ Len(toks) = N + 1 /\ Len(t) = N
  BY DEF LexedAs
<1>3. k \in 1 .. N + 1 /\ (k > N <=> k = N + 1) /\ (k = N + 1 => ~(k < N))
  BY <1>1
<1>4. IsKeyword(toks, k, "group") <=> k # N + 1 /\ Word(t[k], "group")
  BY <1>3, KeywordIs
<1>5. ASSUME NEW x
      PROVE  Read(<<>>, x).next = x
  BY DEF Read
<1>6. CASE k = N + 1
  <2>1. ParseGroupBy(toks, k) = {Read(<<>>, k)}
    BY <1>4, <1>6 DEF ParseGroupBy
  <2>2. toks[k].kind = "EOF" /\ GroupsAt(t, k) /\ GroupAt(t, k) = <<>>
    BY <1>1, <1>2, <1>3, <1>6 DEF GroupsAt, GroupAt
  <2>3. {g \in ParseGroupBy(toks, k) : toks[g.next].kind = "EOF"} = {Read(<<>>, k)}
    BY <1>5, <2>1, <2>2
  <2>. QED
    BY <1>6, <2>1, <2>2, <2>3 DEF If, AtMostOne
<1>7. CASE k # N + 1 /\ ~Word(t[k], "group")
  <2>1. ParseGroupBy(toks, k) = {Read(<<>>, k)}
    BY <1>4, <1>7 DEF ParseGroupBy
  <2>2. toks[k].kind # "EOF" /\ ~GroupsAt(t, k)
    BY <1>1, <1>2, <1>3, <1>7 DEF GroupsAt
  <2>3. {g \in ParseGroupBy(toks, k) : toks[g.next].kind = "EOF"} = {}
    BY <1>5, <2>1, <2>2
  <2>. QED
    BY <2>1, <2>2, <2>3 DEF If, AtMostOne
<1>8. CASE k # N + 1 /\ Word(t[k], "group")
  <2>1. k + 1 \in 1 .. N + 1
    BY <1>1, <1>8
  <2>2. IsKeyword(toks, k + 1, "by") <=> k + 1 # N + 1 /\ Word(t[k + 1], "by")
    BY <2>1, KeywordIs
  <2>3. k + 1 # N + 1 <=> k < N
    BY <1>1, <1>8
  <2>4. ParseGroupBy(toks, k) = UNION {ParseColList(toks, q) : q \in ExpectKeyword(toks, k + 1, "by")}
    BY <1>4, <1>8 DEF ParseGroupBy, Then
  <2>5. CASE ~(k < N /\ Word(t[k + 1], "by"))
    <3>1. ExpectKeyword(toks, k + 1, "by") = {}
      BY <2>2, <2>3, <2>5 DEF ExpectKeyword, If
    <3>2. ParseGroupBy(toks, k) = {}
      BY <2>4, <3>1
    <3>3. ~GroupsAt(t, k)
      BY <1>2, <1>3, <1>8, <2>5 DEF GroupsAt
    <3>. QED
      BY <3>2, <3>3 DEF If, AtMostOne
  <2>6. CASE k < N /\ Word(t[k + 1], "by")
    <3>1. PICK p \in 1 .. N + 1 : p = k + 2 /\ p = (k + 1) + 1
      BY <1>1, <2>6
    <3>2. ExpectKeyword(toks, k + 1, "by") = {p}
      BY <2>2, <2>3, <2>6, <3>1 DEF ExpectKeyword, If
    <3>3. ParseGroupBy(toks, k) = ParseColList(toks, p)
      BY <2>4, <3>2
    <3>. DEFINE G == ColumnPieces(toks)
                f == ColumnsOf(toks)
                val(e) == Values(f, Pieces(toks, p, e - 1))
    <3>4. /\ ParseColList(toks, p) = ListsAt(toks, G, f, p)
          /\ AtMostOne(ParseColList(toks, p))
      BY <1>2, <3>1, ColListIs
    <3>5. ListsAt(toks, G, f, p) = {Read(val(e), e) : e \in ListEnds(toks, G, p)}
      BY DEF ListsAt
    <3>6. \A e \in ListEnds(toks, G, p) : toks[e].kind = "EOF" <=> e = N + 1
      BY <1>1, <1>2, <3>1 DEF ListEnds
    <3>7. /\ N + 1 \in ListEnds(toks, G, p) <=> AllColumns(Pieces(t, p, N))
          /\ Values(f, Pieces(toks, p, N)) = Texts(Pieces(t, p, N))
      BY ColumnsEnd
    <3>8. val(N + 1) = Texts(Pieces(t, p, N))
      <4>1. (N + 1) - 1 = N
        BY <1>1
      <4>. QED
        BY <3>7, <4>1
    <3>9. GroupsAt(t, k) <=> AllColumns(Pieces(t, p, N))
      BY <1>2, <1>3, <1>8, <2>6, <3>1 DEF GroupsAt, Grouped
    <3>10. GroupAt(t, k) = Texts(Pieces(t, p, N))
      BY <1>2, <1>3, <1>8, <3>1 DEF GroupAt, Grouped, Texts
    <3>. HIDE DEF G, f, val
    <3>11. \A e : Read(val(e), e).next = e
      BY DEF Read
    <3>12. CASE AllColumns(Pieces(t, p, N))
      <4>1. {g \in ListsAt(toks, G, f, p) : toks[g.next].kind = "EOF"} = {Read(val(N + 1), N + 1)}
        BY <3>5, <3>6, <3>7, <3>11, <3>12
      <4>. QED
        BY <3>3, <3>4, <3>8, <3>9, <3>10, <3>12, <4>1 DEF If
    <3>13. CASE ~AllColumns(Pieces(t, p, N))
      <4>1. {g \in ListsAt(toks, G, f, p) : toks[g.next].kind = "EOF"} = {}
        BY <3>5, <3>6, <3>7, <3>11, <3>13
      <4>. QED
        BY <3>3, <3>4, <3>9, <3>13, <4>1 DEF If
    <3>. QED
      BY <3>12, <3>13
  <2>. QED
    BY <2>5, <2>6
<1>. QED
  BY <1>6, <1>7, <1>8

\* What Parse makes of tokens, and what they mean.
GroupBehind(toks, e, g) == IF toks[g.next].kind = "EOF" THEN ToSpec(e.val, g.val) ELSE {}
Selected(toks, e) == UNION {GroupBehind(toks, e, g) : g \in ParseGroupBy(toks, e.next)}
ParseTokens(toks) ==
    UNION {UNION {Selected(toks, e) : e \in ParseSelectList(toks, p)} :
               p \in ExpectKeyword(toks, 1, "select")}

MeaningOf(t) ==
    UNION {SpecOf(Pieces(t, 2, k - 1), GroupAt(t, k)) :
               k \in {k \in 2 .. Len(t) + 1 : Divided(t, k)}}

LEMMA ParseIs ==
    ASSUME NEW s
    PROVE  Parse(s) = UNION {ParseTokens(toks) : toks \in IF Range(s) \subseteq Blanks THEN {} ELSE Lex(s)}
BY DEF Parse, ParseTokens, Selected, GroupBehind, Then

LEMMA MeaningIs ==
    ASSUME NEW s
    PROVE  Meaning(s) = UNION {MeaningOf(t) : t \in Tokens(s)}
BY DEF Meaning, MeaningOf, Then

\* A list of items that ends before k, and what is behind it.
LEMMA SelectedIs ==
    ASSUME NEW t, NEW toks, NEW N, LexedAs(t, toks, N), NEW k \in 2 .. N + 1,
           Word(t[1], "select"),
           NEW e, e = Read(Values(ItemsOf(toks), Pieces(toks, 2, k - 1)), k)
    PROVE  /\ k \in ListEnds(toks, ItemPieces(toks), 2) =>
                 Selected(toks, e) = IF Divided(t, k)
                                     THEN SpecOf(Pieces(t, 2, k - 1), GroupAt(t, k)) ELSE {}
           /\ Divided(t, k) => k \in ListEnds(toks, ItemPieces(toks), 2)
<1>. DEFINE P == Pieces(t, 2, k - 1)
            groups == ParseGroupBy(toks, k)
            group == Read(GroupAt(t, k), N + 1)
<1>1. N \in Nat /\ \A i \in 1 .. N + 1 : toks[i].kind = "EOF" <=> i = N + 1
  BY LexedIs
<1>2. /\ EndsInEOF(toks) /\ Len(toks) = N + 1 /\ Len(t) = N
      /\ \A i \in 1 .. N : toks[i] = t[i]
  BY DEF LexedAs
<1>3. {g \in groups : toks[g.next].kind = "EOF"} = If(GroupsAt(t, k), group)
  BY GroupByIs
<1>4. e.next = k /\ e.val = Values(ItemsOf(toks), Pieces(toks, 2, k - 1))
  BY DEF Read
<1>5. Selected(toks, e) = UNION {GroupBehind(toks, e, g) : g \in groups}
  BY <1>4 DEF Selected
<1>6. Divided(t, k) <=> AllItems(P) /\ GroupsAt(t, k)
  BY DEF Divided
<1>. HIDE DEF P, groups
<1>7. CASE ~GroupsAt(t, k)
  <2>1. {g \in groups : toks[g.next].kind = "EOF"} = {}
    BY <1>3, <1>7 DEF If
  <2>2. Selected(toks, e) = {}
    BY <1>5, <2>1 DEF GroupBehind
  <2>. QED
    BY <1>6, <1>7, <2>2
<1>8. CASE GroupsAt(t, k)
  <2>1. {g \in groups : toks[g.next].kind = "EOF"} = {group}
    BY <1>3, <1>8 DEF If
  <2>2. group.val = GroupAt(t, k)
    BY DEF Read
  <2>. HIDE DEF group
  <2>3. Selected(toks, e) = ToSpec(e.val, group.val)
    <3>1. group \in groups /\ \A g \in groups : toks[g.next].kind = "EOF" <=> g = group
      BY <2>1
    <3>2. \A g \in groups : GroupBehind(toks, e, g) = IF g = group THEN ToSpec(e.val, group.val) ELSE {}
      BY <3>1 DEF GroupBehind
    <3>. DEFINE T == ToSpec(e.val, group.val)
    <3>3. group \in groups /\ GroupBehind(toks, e, group) = T
      BY <3>1, <3>2
    <3>4. \A g \in groups : GroupBehind(toks, e, g) = T \/ GroupBehind(toks, e, g) = {}
      BY <3>2
    <3>. HIDE DEF T
    <3>5. \A z : z \in Selected(toks, e) <=> z \in T
      BY <1>5, <3>3, <3>4
    <3>. QED
      BY <3>5 DEF T
  <2>4. toks[k].kind = "EOF" \/ toks[k].kind = "ident"
    <3>1. CASE k > N
      <4>1. k = N + 1 /\ k \in 1 .. N + 1
        BY <1>1, <3>1
      <4>. QED
        BY <1>1, <4>1
    <3>2. CASE ~(k > N)
      <4>1. Word(t[k], "group")
        BY <1>2, <1>8, <3>2 DEF GroupsAt
      <4>2. k \in 1 .. N
        BY <1>1, <3>2
      <4>. QED
        BY <1>2, <4>1, <4>2 DEF Word
    <3>. QED
      BY <3>1, <3>2
  <2>5. toks[k].kind # Comma /\ toks[k].kind # "("
    BY <2>4, CommaIs
  <2>6. /\ k \in ListEnds(toks, ItemPieces(toks), 2) <=> AllItems(P)
        /\ AllItems(P) => \A groupBy :
              ToSpec(Values(ItemsOf(toks), Pieces(toks, 2, k - 1)), groupBy) = SpecOf(P, groupBy)
    BY <2>5, ItemsEnd DEF P
  <2>7. AllItems(P) => Selected(toks, e) = SpecOf(P, GroupAt(t, k))
    BY <1>4, <2>2, <2>3, <2>6
  <2>. QED
    BY <1>6, <1>8, <2>6, <2>7 DEF P
<1>. QED
  BY <1>7, <1>8

\* x is the spec of pieces that can be had.
MadeOf(x, groupBy) ==
    \E N \in Nat : \E P : /\ Lists(P, N) /\ KnownUpto(P, groupBy, N)
                          /\ x = [groupBy |-> groupBy, measures |-> MeasuresUpto(P, N)]

LEMMA OneSpec ==
    ASSUME NEW t, NEW k \in Nat, k >= 2, NEW groupBy
    PROVE  /\ AtMostOne(SpecOf(Pieces(t, 2, k - 1), groupBy))
           /\ \A x \in SpecOf(Pieces(t, 2, k - 1), groupBy) : MadeOf(x, groupBy)
<1>0. PICK b \in Nat : b = k - 1
  OBVIOUS
<1>1. PICK P : b = k - 1 /\ P = Pieces(t, 2, b)
  BY <1>0
<1>2. PICK N \in Nat : Lists(P, N)
  BY <1>1, PiecesList
<1>3. SpecOf(P, groupBy) = If(KnownUpto(P, groupBy, N),
                              [groupBy |-> groupBy, measures |-> MeasuresUpto(P, N)])
  BY <1>2, SpecOfIs
<1>4. CASE KnownUpto(P, groupBy, N)
  <2>1. SpecOf(P, groupBy) = {[groupBy |-> groupBy, measures |-> MeasuresUpto(P, N)]}
    BY <1>3, <1>4 DEF If
  <2>. QED
    BY <1>1, <1>2, <1>4, <2>1 DEF AtMostOne, MadeOf
<1>5. CASE ~KnownUpto(P, groupBy, N)
  <2>1. SpecOf(P, groupBy) = {}
    BY <1>3, <1>5 DEF If
  <2>. QED
    BY <1>1, <2>1 DEF AtMostOne
<1>. QED
  BY <1>4, <1>5

LEMMA ParseTokensIs ==
    ASSUME NEW t, NEW toks, NEW N, LexedAs(t, toks, N)
    PROVE  ParseTokens(toks) = MeaningOf(t) /\ AtMostOne(ParseTokens(toks))
<1>. DEFINE G == ItemPieces(toks)
            val(k) == Values(ItemsOf(toks), Pieces(toks, 2, k - 1))
            D == {k \in 2 .. N + 1 : Divided(t, k)}
            meant(k) == SpecOf(Pieces(t, 2, k - 1), GroupAt(t, k))
<1>1. N \in Nat /\ Len(t) = N /\ EndsInEOF(toks) /\ Len(toks) = N + 1
  BY DEF LexedAs
<1>2. MeaningOf(t) = UNION {meant(k) : k \in D}
  BY <1>1 DEF MeaningOf
<1>3. IsKeyword(toks, 1, "select") <=> 1 # N + 1 /\ Word(t[1], "select")
  <2>1. 1 \in 1 .. N + 1
    BY <1>1
  <2>. QED
    BY <2>1, KeywordIs
<1>4. CASE ~(1 # N + 1 /\ Word(t[1], "select"))
  <2>1. ParseTokens(toks) = {}
    <3>1. ExpectKeyword(toks, 1, "select") = {}
      BY <1>3, <1>4 DEF ExpectKeyword, If
    <3>. QED
      BY <3>1 DEF ParseTokens
  <2>2. D = {}
    <3>1. 1 = N + 1 => 2 .. N + 1 = {}
      BY <1>1
    <3>. QED
      BY <1>4, <3>1 DEF Divided
  <2>. HIDE DEF D, meant
  <2>. QED
    BY <1>2, <2>1, <2>2 DEF AtMostOne
<1>5. CASE 1 # N + 1 /\ Word(t[1], "select")
  <2>1. 2 \in 1 .. Len(toks)
    BY <1>1, <1>5
  <2>2. ParseTokens(toks) = UNION {Selected(toks, e) : e \in ParseSelectList(toks, 2)}
    <3>1. ExpectKeyword(toks, 1, "select") = {1 + 1}
      BY <1>3, <1>5 DEF ExpectKeyword, If
    <3>. QED
      BY <3>1 DEF ParseTokens
  <2>3. ParseSelectList(toks, 2) = {Read(val(k), k) : k \in ListEnds(toks, G, 2)}
    BY <1>1, <2>1, SelectListIs DEF ListsAt
  <2>4. ASSUME NEW k \in 2 .. N + 1
        PROVE  /\ k \in ListEnds(toks, G, 2) =>
                     Selected(toks, Read(val(k), k)) = IF Divided(t, k) THEN meant(k) ELSE {}
               /\ Divided(t, k) => k \in ListEnds(toks, G, 2)
    <3>1. PICK e : e = Read(val(k), k)
      OBVIOUS
    <3>2. /\ k \in ListEnds(toks, G, 2) =>
                 Selected(toks, e) = IF Divided(t, k) THEN meant(k) ELSE {}
          /\ Divided(t, k) => k \in ListEnds(toks, G, 2)
      BY <1>5, <3>1, SelectedIs
    <3>. QED
      BY <3>1, <3>2
  <2>5. ListEnds(toks, G, 2) \subseteq 2 .. N + 1
    BY <1>1 DEF ListEnds
  <2>8. \A k \in 2 .. N + 1 : AtMostOne(meant(k))
    <3>1. \A k \in 2 .. N + 1 : k \in Nat /\ k >= 2
      BY <1>1
    <3>. QED
      BY <3>1, OneSpec
  <2>9. AtMostOne(ParseSelectList(toks, 2))
    BY <1>1, <2>1, SelectListIs
  <2>. HIDE DEF G, val, meant
  <2>6. ParseTokens(toks) = UNION {Selected(toks, Read(val(k), k)) : k \in ListEnds(toks, G, 2)}
    BY <2>2, <2>3
  <2>7. UNION {Selected(toks, Read(val(k), k)) : k \in ListEnds(toks, G, 2)} = UNION {meant(k) : k \in D}
    BY <2>4, <2>5
  <2>10. AtMostOne(ParseTokens(toks))
    <3>1. \A k \in ListEnds(toks, G, 2) : AtMostOne(Selected(toks, Read(val(k), k)))
      BY <2>4, <2>5, <2>8 DEF AtMostOne
    <3>2. \A e \in ParseSelectList(toks, 2) : AtMostOne(Selected(toks, e))
      BY <2>3, <3>1
    <3>. QED
      BY <2>2, <2>9, <3>2 DEF AtMostOne
  <2>. QED
    BY <1>2, <2>6, <2>7, <2>10
<1>. QED
  BY <1>4, <1>5

\* The parser understands a text as the grammar says, and in one way.
THEOREM ParseMeans ==
    ASSUME NEW V, NEW s \in Seq(V)
    PROVE  Parse(s) = Meaning(s) /\ AtMostOne(Parse(s))
<1>1. Meaning(s) = UNION {MeaningOf(t) : t \in Tokens(s)}
  BY MeaningIs
<1>2. CASE Range(s) \subseteq Blanks
  <2>1. Parse(s) = {}
    BY <1>2, ParseIs
  <2>2. BegunBy(s, Len(s)) = {}
    <3>1. \A i \in 1 .. Len(s) : s[i] \in Blanks
      BY <1>2 DEF Range
    <3>2. \A i \in 1 .. Len(s) : ~BeginsAt(s, i)
      BY <3>1, Classes DEF BeginsAt
    <3>. QED
      BY <3>2 DEF BegunBy
  <2>3. TokensAt(s, <<>>, Len(s)) = <<>>
    BY DEF TokensAt
  <2>4. \A t \in Tokens(s) : t = <<>>
    BY <2>2, <2>3, TokensMean, InOrderNone DEF If
  <2>5. MeaningOf(<<>>) = {}
    <3>1. 2 .. Len(<<>>) + 1 = {}
      OBVIOUS
    <3>. QED
      BY <3>1 DEF MeaningOf
  <2>. QED
    BY <1>1, <2>1, <2>4, <2>5 DEF AtMostOne
<1>3. CASE ~(Range(s) \subseteq Blanks)
  <2>. DEFINE toks(t) == Append(t, Token("EOF", <<>>))
  <2>1. Parse(s) = UNION {ParseTokens(u) : u \in Lex(s)}
    BY <1>3, ParseIs
  <2>2. Lex(s) = {toks(t) : t \in Tokens(s)}
    BY LexIs
  <2>3. ASSUME NEW t \in Tokens(s)
        PROVE  ParseTokens(toks(t)) = MeaningOf(t) /\ AtMostOne(ParseTokens(toks(t)))
    <3>1. PICK u : u = toks(t)
      OBVIOUS
    <3>2. LexedAs(t, u, Len(t))
      BY <3>1, LexEnds DEF LexedAs
    <3>3. ParseTokens(u) = MeaningOf(t) /\ AtMostOne(ParseTokens(u))
      BY <3>2, ParseTokensIs
    <3>. QED
      BY <3>1, <3>3
  <2>4. AtMostOne(Tokens(s))
    BY TokensMean DEF AtMostOne, If
  <2>. HIDE DEF toks
  <2>5. Parse(s) = UNION {ParseTokens(toks(t)) : t \in Tokens(s)}
    BY <2>1, <2>2
  <2>. QED
    BY <1>1, <2>3, <2>4, <2>5 DEF AtMostOne
<1>. QED
  BY <1>2, <1>3

-----------------------------------------------------------------------------
(* A text reaches the coordinator as what it means. *)

\* What a text means can be sent.
LEMMA MeaningIsASpec ==
    ASSUME NEW V, NEW s \in Seq(V), NEW x \in Meaning(s)
    PROVE  ASpec(x)
<1>1. PICK t \in Tokens(s) : x \in MeaningOf(t)
  BY MeaningIs
<1>2. PICK n \in Nat : Len(t) = n
  BY TokensAre
<1>3. PICK k \in 2 .. n + 1 : x \in SpecOf(Pieces(t, 2, k - 1), GroupAt(t, k))
  BY <1>1, <1>2 DEF MeaningOf
<1>4. PICK groupBy : groupBy = GroupAt(t, k)
  OBVIOUS
<1>5. k \in Nat /\ k >= 2
  BY <1>2
<1>0. MadeOf(x, groupBy)
  BY <1>3, <1>4, <1>5, OneSpec
<1>10. PICK N \in Nat : \E P : /\ Lists(P, N) /\ KnownUpto(P, groupBy, N)
                               /\ x = [groupBy |-> groupBy, measures |-> MeasuresUpto(P, N)]
  BY <1>0 DEF MadeOf
<1>6. PICK P : /\ Lists(P, N) /\ KnownUpto(P, groupBy, N)
               /\ x = [groupBy |-> groupBy, measures |-> MeasuresUpto(P, N)]
  BY <1>10
<1>. DEFINE J == FuncsUpto(P, N)
            C == AboutOf(P)
            F == FunctionOf(P)
<1>7. DOMAIN P = 1 .. N /\ J \subseteq 1 .. N
  BY <1>6, ListIs DEF FuncsUpto
<1>8. ASSUME NEW i \in J
      PROVE  AFunc(F[i])
  <2>1. ParseAggFunc(P[i][1].text) # {}
    BY <1>6, <1>7 DEF KnownUpto, Known, FuncsUpto
  <2>2. F[i] = CHOOSE f \in ParseAggFunc(P[i][1].text) : TRUE
    BY <1>7 DEF FunctionOf
  <2>3. F[i] \in ParseAggFunc(P[i][1].text)
    BY <2>1, <2>2
  <2>. QED
    BY <2>3, ParsedFuncIs
<1>9. ASSUME NEW i \in J
      PROVE  AMeasure(MeasureIn(J, C, F, i))
  <2>. DEFINE A == AboutIn(J, C, i)
              o == InOrder(A)
  <2>1. A \subseteq J
    BY DEF AboutIn
  <2>2. A \subseteq 1 .. N
    BY <1>7, <2>1
  <2>3. o \in Seq(A)
    BY <2>2, InOrderIs
  <2>. HIDE DEF A, o
  <2>4. \A m \in DOMAIN o : o[m] \in A
    BY <2>3
  <2>5. \A m \in DOMAIN o : AFunc(F[o[m]])
    BY <1>8, <2>1, <2>4
  <2>6. Applied(F, o) = [m \in DOMAIN o |-> F[o[m]]]
    BY DEF Applied
  <2>7. FuncsOf(Applied(F, o))
    BY <2>5, <2>6 DEF FuncsOf
  <2>8. MeasureIn(J, C, F, i) = [column |-> C[i], funcs |-> Applied(F, o)]
    BY DEF MeasureIn, A, o
  <2>. QED
    BY <2>7, <2>8 DEF AMeasure
<1>11. MeasuresOf(MeasuresUpto(P, N))
  <2>. DEFINE o == InOrder(FirstsIn(J, C))
  <2>1. FirstsIn(J, C) \subseteq J
    BY DEF FirstsIn
  <2>2. FirstsIn(J, C) \subseteq 1 .. N
    BY <1>7, <2>1
  <2>3. o \in Seq(FirstsIn(J, C))
    BY <2>2, InOrderIs
  <2>. HIDE DEF o, J, C, F
  <2>4. \A n1 \in DOMAIN o : o[n1] \in J
    BY <2>1, <2>3
  <2>5. MeasuresUpto(P, N) = [n1 \in DOMAIN o |-> MeasureIn(J, C, F, o[n1])]
    BY DEF MeasuresUpto, MeasuresIn, MeasuresFor, o, J, C, F
  <2>6. \A n1 \in DOMAIN o : AMeasure(MeasureIn(J, C, F, o[n1]))
    BY <1>9, <2>4
  <2>. QED
    BY <2>5, <2>6 DEF MeasuresOf
<1>. QED
  BY <1>6, <1>11 DEF ASpec

\* What is sent for a text is read as its meaning.
LEMMA TextTrips ==
    ASSUME NilIsNoMessage, NEW V, NEW s \in Seq(V)
    PROVE  /\ \A m \in Then(Parse(s), SpecToProto) : ProtoToSpec(m) = Meaning(s)
           /\ Then(Parse(s), SpecToProto) = {} => Meaning(s) = {}
           /\ ProtoToSpec(Nil) = {}
<1>1. Parse(s) = Meaning(s) /\ AtMostOne(Parse(s))
  BY ParseMeans
<1>2. \A x \in Meaning(s) : /\ SpecToProto(x) = {SpecMessage(x)}
                            /\ ProtoToSpec(SpecMessage(x)) = {x}
  BY MeaningIsASpec, SpecTrips
<1>3. Then(Parse(s), SpecToProto) = UNION {SpecToProto(x) : x \in Parse(s)}
  BY DEF Then
<1>4. ProtoToSpec(Nil) = {}
  BY DEF ProtoToSpec, Present
<1>5. ASSUME NEW m \in Then(Parse(s), SpecToProto)
      PROVE  ProtoToSpec(m) = Meaning(s)
  <2>1. PICK x \in Meaning(s) : m \in SpecToProto(x)
    BY <1>1, <1>3
  <2>2. ProtoToSpec(m) = {x}
    BY <1>2, <2>1
  <2>3. Meaning(s) = {x}
    BY <1>1 DEF AtMostOne
  <2>. QED
    BY <2>2, <2>3
<1>6. ASSUME Then(Parse(s), SpecToProto) = {}
      PROVE  Meaning(s) = {}
  <2>1. \A x \in Meaning(s) : SpecMessage(x) \in UNION {SpecToProto(y) : y \in Parse(s)}
    BY <1>1, <1>2
  <2>. QED
    BY <1>3, <1>6, <2>1
<1>. QED
  BY <1>4, <1>5, <1>6

\* The text is understood as the grammar says, through parser and wire: what reaches the
\* coordinator is the meaning of the text, and a text that has none is not sent (Parse,
\* specToProto and protoToSpec of cordage query and its coordinator).
THEOREM TextsAreUnderstood == NilIsNoMessage => (Spec => []Parsed)
<1>. SUFFICES ASSUME NilIsNoMessage PROVE Spec => []Parsed
  OBVIOUS
<1>. DEFINE I == case \in Cases /\ (pc = "ask" => msg = Nil) /\ Parsed
<1>1. Init => I
  BY DEF Init, Parsed
<1>2. I /\ [Next]_vars => I'
  <2>. SUFFICES ASSUME I, [Next]_vars PROVE I'
    OBVIOUS
  <2>1. CASE AskText
    <3>1. case.mode = "query" => case.ask \in Seq(STRING)
      BY QueryPathAssumption
    <3>2. /\ case.mode = "query" /\ msg = Nil /\ case' = case /\ pc' \in {"query", "end"}
          /\ \/ msg' \in Then(Parse(case.ask), SpecToProto)
             \/ Then(Parse(case.ask), SpecToProto) = {} /\ msg' = msg
      BY <2>1 DEF AskText, Finish
    <3>3. ProtoToSpec(msg') = Meaning(case.ask)
      BY <3>1, <3>2, TextTrips
    <3>. QED
      BY <3>2, <3>3 DEF Parsed
  <2>2. CASE AskMessage
    <3>1. case.mode = "foreign" /\ case' = case /\ pc' = "query"
      BY <2>2 DEF AskMessage
    <3>. QED
      BY <3>1 DEF Parsed
  <2>3. CASE AskFlags
    <3>1. case.mode = "oneshot" /\ case' = case /\ pc' \in {"discover", "end"}
      BY <2>3 DEF AskFlags, Finish
    <3>. QED
      BY <3>1 DEF Parsed
  <2>4. CASE \/ Query \/ Discover \/ PlanShards \/ Dispatch \/ Gather \/ MergeShard
             \/ \E i \in DOMAIN shards : Call(i) \/ CallLost(i) \/ CallCanceled(i)
             \/ Respond \/ PrintReply \/ UNCHANGED vars
    <3>1. case' = case /\ msg' = msg /\ (pc = "ask" <=> pc' = "ask")
      BY <2>4 DEF Query, Discover, PlanShards, Dispatch, Gather, MergeShard, Call, CallLost,
                  CallCanceled, Respond, PrintReply, Finish, vars
    <3>. QED
      BY <3>1 DEF Parsed
  <2>. QED
    BY <2>1, <2>2, <2>3, <2>4 DEF Next, Ended
<1>3. I => Parsed
  OBVIOUS
<1>. QED
  BY <1>1, <1>2, <1>3, PTL DEF Spec

-----------------------------------------------------------------------------
(* Requests are blamed when they are wrong. *)

\* The places of the columns of one name, and what New makes of them.
NamedSo(name) == {i \in DOMAIN case.schema.columns : case.schema.columns[i].name = name}
NumericThere(name) == case.schema.columns[Max(NamedSo(name))].type \in {"int64", "float64"}

\* A name has a place if some column has it.
LEMMA PlaceIs ==
    ASSUME case \in Cases, NEW name
    PROVE  /\ Place(name) # 0 <=> NamedSo(name) # {}
           /\ Place(name) # 0 => Place(name) = Max(NamedSo(name))
<1>1. case.schema.columns \in Seq([name : Seq(STRING), type : STRING, kind : STRING])
  BY QueryPathAssumption
<1>2. Len(case.schema.columns) \in Nat /\ DOMAIN case.schema.columns = 1 .. Len(case.schema.columns)
  BY <1>1
<1>3. NamedSo(name) \in SUBSET (1 .. Len(case.schema.columns))
  BY <1>2 DEF NamedSo
<1>4. NamedSo(name) # {} => Max(NamedSo(name)) \in 1 .. Len(case.schema.columns)
  BY <1>2, <1>3, LastPlace
<1>5. Place(name) = IF NamedSo(name) = {} THEN 0 ELSE Max(NamedSo(name))
  BY DEF Place, NamedSo
<1>. QED
  BY <1>2, <1>4, <1>5

\* What the coordinator looks for in a spec is what makes it one it must answer.
GoodSpec(s) ==
    /\ \A i, j \in DOMAIN s.groupBy : s.groupBy[i] = s.groupBy[j] => i = j
    /\ \A name \in Range(s.groupBy) : Place(name) # 0
    /\ \A m \in Range(s.measures) :
          /\ Place(m.column) # 0
          /\ \A f \in Range(m.funcs) :
                \/ f.kind = "distinct"
                \/ /\ f.kind \in {"sum", "min", "max", "avg"}
                   /\ case.schema.columns[Place(m.column)].type \in {"int64", "float64"}

LEMMA CheckedIsGood ==
    ASSUME case \in Cases, NEW s, ASpec(s)
    PROVE  Checked(s) # {} <=> GoodSpec(s)
<1>1. Checked(s) # {} <=> New(case.schema, s) # {} /\ ValidateDistributable(s)
  <2>1. Checked(s) = UNION {If(ValidateDistributable(s), s) : a \in New(case.schema, s)}
    BY DEF Checked, Then
  <2>. QED
    BY <2>1 DEF If
<1>2. New(case.schema, s) # {} <=>
        /\ IsInjective(s.groupBy)
        /\ \A name \in Range(s.groupBy) : NamedSo(name) # {}
        /\ \A m \in Range(s.measures) :
              /\ NamedSo(m.column) # {}
              /\ \A f \in Range(m.funcs) : RequiresNumeric(f) => NumericThere(m.column)
  BY DEF New, If, NamedSo, NumericThere
<1>3. ASSUME NEW m \in Range(s.measures), NEW f \in Range(m.funcs)
      PROVE  f.kind \in {"sum", "min", "max", "avg", "distinct", "percentile"}
  <2>1. PICK g, ms : s = [groupBy |-> g, measures |-> ms] /\ MeasuresOf(ms)
    BY DEF ASpec
  <2>2. PICK i \in DOMAIN ms : m = ms[i]
    BY <2>1 DEF Range
  <2>3. PICK c, fs : m = [column |-> c, funcs |-> fs] /\ FuncsOf(fs)
    BY <2>1, <2>2 DEF MeasuresOf, AMeasure
  <2>4. PICK j \in DOMAIN fs : f = fs[j]
    BY <2>3 DEF Range
  <2>5. f.kind \in DOMAIN FuncKinds
    BY <2>3, <2>4 DEF FuncsOf, AFunc
  <2>. QED
    BY <2>5 DEF FuncKinds
<1>4. ASSUME NEW m \in Range(s.measures)
      PROVE  Place(m.column) # 0 => (case.schema.columns[Place(m.column)].type \in {"int64", "float64"}
                                       <=> NumericThere(m.column))
  BY PlaceIs DEF NumericThere
<1>5. \A name : Place(name) # 0 <=> NamedSo(name) # {}
  BY PlaceIs
<1>6. ValidateDistributable(s) <=> \A m \in Range(s.measures) : \A f \in Range(m.funcs) : f.kind # "percentile"
  BY DEF ValidateDistributable
<1>. QED
  BY <1>1, <1>2, <1>3, <1>4, <1>5, <1>6 DEF GoodSpec, IsInjective, RequiresNumeric

\* The coordinator must answer a request if it accepts what is asked for.
LEMMA AcceptableIs ==
    ASSUME NilIsNoMessage, case \in Cases
    PROVE  Acceptable <=> Then(Asked, Checked) # {}
<1>1. ASSUME NEW s \in Asked
      PROVE  ASpec(s)
  <2>1. CASE case.mode = "query"
    <3>1. case.ask \in Seq(STRING) /\ Asked = Meaning(case.ask)
      BY <2>1, QueryPathAssumption DEF Asked
    <3>. QED
      BY <3>1, MeaningIsASpec
  <2>2. CASE case.mode = "foreign"
    BY <2>2, ReadSpecIs DEF Asked
  <2>3. CASE case.mode = "oneshot"
    BY <2>3, FlagSpecIs DEF Asked
  <2>. QED
    BY <2>1, <2>2, <2>3, QueryPathAssumption
<1>2. Acceptable <=> \E s \in Asked : GoodSpec(s)
  BY DEF Acceptable, GoodSpec
<1>3. Then(Asked, Checked) # {} <=> \E s \in Asked : Checked(s) # {}
  BY DEF Then
<1>. QED
  BY <1>1, <1>2, <1>3, CheckedIsGood

\* Until it is checked, what was asked for is on its way; after that it is acceptable.
Judged ==
    /\ case \in Cases
    /\ pc \in {"ask", "query", "discover", "plan", "dispatch", "calls", "merge", "print", "end"}
    /\ pc = "ask" => msg = Nil
    /\ pc = "query" => ProtoToSpec(msg) = Asked
    /\ pc \in {"discover", "plan", "dispatch", "calls", "merge", "print"} => Acceptable
    /\ pc = "end" => (reply.code \in {"Usage", "InvalidArgument"} <=> ~Acceptable)

LEMMA CaseDecides ==
    ASSUME case' = case
    PROVE  (Acceptable' <=> Acceptable) /\ Asked' = Asked
<1>1. Asked' = Asked
  BY DEF Asked
<1>2. \A name : Place(name)' = Place(name)
  BY DEF Place
<1>. QED
  BY <1>1, <1>2 DEF Acceptable

\* The three ways in.
LEMMA AskingJudged ==
    ASSUME NilIsNoMessage, Judged, AskText \/ AskMessage \/ AskFlags
    PROVE  Judged'
<1>0. case' = case
  BY DEF AskText, AskMessage, AskFlags
<1>1. CASE AskText
  <2>1. case.ask \in Seq(STRING) /\ Asked = Meaning(case.ask)
    BY <1>1, QueryPathAssumption DEF AskText, Asked, Judged
  <2>2. \/ msg' \in Then(Parse(case.ask), SpecToProto) /\ pc' = "query"
        \/ Then(Parse(case.ask), SpecToProto) = {} /\ pc' = "end" /\ reply'.code = "Usage"
    BY <1>1 DEF AskText, Finish, Failed
  <2>3. CASE msg' \in Then(Parse(case.ask), SpecToProto) /\ pc' = "query"
    <3>1. ProtoToSpec(msg') = Asked
      BY <2>1, <2>3, TextTrips
    <3>. QED
      BY <1>0, <2>3, <3>1, CaseDecides DEF Judged
  <2>4. CASE Then(Parse(case.ask), SpecToProto) = {} /\ pc' = "end" /\ reply'.code = "Usage"
    <3>1. Asked = {}
      BY <2>1, <2>4, TextTrips
    <3>2. ~Acceptable
      BY <3>1 DEF Acceptable
    <3>. QED
      BY <1>0, <2>4, <3>2, CaseDecides DEF Judged
  <2>. QED
    BY <2>2, <2>3, <2>4
<1>2. CASE AskMessage
  <2>1. msg' = case.ask /\ pc' = "query" /\ case.mode = "foreign"
    BY <1>2 DEF AskMessage
  <2>2. ProtoToSpec(msg') = Asked
    BY <2>1 DEF Asked
  <2>. QED
    BY <1>0, <2>1, <2>2, CaseDecides DEF Judged
<1>3. CASE AskFlags
  <2>1. Asked = FlagSpec(case.ask)
    BY <1>3 DEF AskFlags, Asked
  <2>2. \/ Then(FlagSpec(case.ask), Checked) # {} /\ pc' = "discover"
        \/ Then(FlagSpec(case.ask), Checked) = {} /\ pc' = "end" /\ reply'.code = "Usage"
    BY <1>3 DEF AskFlags, Finish, Failed
  <2>3. Acceptable <=> Then(FlagSpec(case.ask), Checked) # {}
    BY <2>1, AcceptableIs DEF Judged
  <2>. QED
    BY <1>0, <2>2, <2>3, CaseDecides DEF Judged
<1>. QED
  BY <1>1, <1>2, <1>3

\* CoordinatorServer.Query.
LEMMA QueryJudged ==
    ASSUME NilIsNoMessage, Judged, Query
    PROVE  Judged'
<1>1. case' = case /\ ProtoToSpec(msg) = Asked
  BY DEF Query, Judged
<1>2. \/ Then(ProtoToSpec(msg), Checked) # {} /\ pc' = "discover"
      \/ Then(ProtoToSpec(msg), Checked) = {} /\ pc' = "end" /\ reply'.code = "InvalidArgument"
  BY DEF Query, Finish, Failed
<1>3. Acceptable <=> Then(ProtoToSpec(msg), Checked) # {}
  BY <1>1, AcceptableIs DEF Judged
<1>. QED
  BY <1>1, <1>2, <1>3, CaseDecides DEF Judged

\* Once a request is accepted it is never blamed.
LEMMA OthersJudged ==
    ASSUME Judged,
           \/ Discover \/ PlanShards \/ Dispatch \/ Gather \/ MergeShard
           \/ \E i \in DOMAIN shards : Call(i) \/ CallLost(i) \/ CallCanceled(i)
           \/ Respond \/ PrintReply
    PROVE  Judged'
<1>. DEFINE Beyond == {"discover", "plan", "dispatch", "calls", "merge", "print"}
<1>1. case' = case /\ pc \in Beyond
  BY DEF Discover, PlanShards, Dispatch, Gather, MergeShard, Call, CallLost, CallCanceled,
         Respond, PrintReply
<1>2. pc' \in Beyond \/ (pc' = "end" /\ reply'.code \in {"OK", "Internal"})
  <2>1. CASE Discover
    BY <2>1 DEF Discover, Finish, Failed
  <2>2. CASE PlanShards
    BY <2>2 DEF PlanShards, Finish, Failed
  <2>3. CASE Dispatch
    <3>1. pc' = "calls" \/ (reply' = Failed("Internal") /\ pc' = "end")
      BY <2>3, Zenon DEF Dispatch, Finish
    <3>. QED
      BY <3>1 DEF Failed
  <2>4. CASE Gather
    <3>1. pc' = "merge" \/ (reply' = Failed("Internal") /\ pc' = "end")
      BY <2>4, Zenon DEF Gather, Finish
    <3>. QED
      BY <3>1 DEF Failed
  <2>5. CASE MergeShard
    <3>1. pc' = pc \/ (reply' = Failed("Internal") /\ pc' = "end")
      BY <2>5, Zenon DEF MergeShard, Finish
    <3>. QED
      BY <1>1, <3>1 DEF Failed
  <2>6. CASE \E i \in DOMAIN shards : Call(i) \/ CallLost(i) \/ CallCanceled(i)
    <3>1. pc' = pc
      BY <2>6, Zenon DEF Call, CallLost, CallCanceled
    <3>. QED
      BY <1>1, <3>1
  <2>7. CASE Respond
    BY <2>7 DEF Respond, Finish
  <2>8. CASE PrintReply
    BY <2>8 DEF PrintReply, Finish
  <2>. QED
    BY <2>1, <2>2, <2>3, <2>4, <2>5, <2>6, <2>7, <2>8
<1>3. Acceptable'
  BY <1>1, CaseDecides DEF Judged
<1>. QED
  BY <1>1, <1>2, <1>3 DEF Judged

\* A request is refused, by the program it is typed at or by the coordinator, exactly when
\* it is wrong, and no worker calls it wrong after that (runQuery, CoordinatorServer.Query,
\* runCoordinator and RunShard, which check it with different calls).
THEOREM RequestsJudged == NilIsNoMessage => (Spec => []RequestBlamed)
<1>. SUFFICES ASSUME NilIsNoMessage PROVE Spec => []RequestBlamed
  OBVIOUS
<1>1. Init => Judged
  BY DEF Init, Judged
<1>2. Judged /\ [Next]_vars => Judged'
  <2>. SUFFICES ASSUME Judged, [Next]_vars PROVE Judged'
    OBVIOUS
  <2>1. CASE UNCHANGED vars
    <3>1. case' = case /\ pc' = pc /\ msg' = msg /\ reply' = reply
      BY <2>1 DEF vars
    <3>. QED
      BY <3>1, CaseDecides DEF Judged
  <2>. QED
    BY <2>1, AskingJudged, QueryJudged, OthersJudged DEF Next, Ended
<1>3. Spec => [](firstErr # "InvalidArgument")
  BY NoneRefuses
<1>4. Judged /\ firstErr # "InvalidArgument" => RequestBlamed
  BY DEF Judged, RequestBlamed
<1>. QED
  BY <1>1, <1>2, <1>3, <1>4, PTL DEF Spec
=============================================================================
