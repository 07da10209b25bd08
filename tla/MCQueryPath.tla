---------------------------- MODULE MCQueryPath ----------------------------
(* Texts: seven queries and what one slip of the keyboard makes of them, on   *)
(* a file of two lines.  Data: five queries on every file of up to two       *)
(* lines of six kinds, and a few longer ones.  Then flags, messages no        *)
(* cordage client sends, and schemas with something odd about them.           *)
EXTENDS QueryPath

MCLower == [word \in {"select", "group", "by", "count", "sum", "min", "max", "avg",
                      "distinct", "p", "e", "nan", "inf", "a", "b", "c"} |-> word]
           @@ "SELECT" :> "select" @@ "GROUP" :> "group" @@ "By" :> "by"
           @@ "Count" :> "count" @@ "Sum" :> "sum" @@ "A" :> "a" @@ "_" :> "_"

\* What strconv.ParseFloat makes of the numerals the texts below can contain, in
\* hundredths: at most four digits, with at most one dot among them and two
\* digits behind it; and three other forms.
Numerals ==
    {w \in SeqOf({"0", "1", "5", "9", "."}, 5) :
        LET dots == {i \in DOMAIN w : w[i] = "."}
        IN Len(w) - Cardinality(dots) \in 1 .. 4 /\ Cardinality(dots) <= 1
           /\ \A i \in dots : Len(w) - i <= 2}
DigitValue == [d \in {"0", "1", "5", "9"} |->
                 CASE d = "0" -> 0 [] d = "1" -> 1 [] d = "5" -> 5 [] d = "9" -> 9]
Hundredths(w) ==
    LET digits == SelectSeq(w, LAMBDA c : c # ".")
        behind == IF "." \in Range(w) THEN Len(w) - (CHOOSE i \in DOMAIN w : w[i] = ".") ELSE 0
    IN FoldLeft(LAMBDA n, d : 10 * n + DigitValue[d], 0, digits) * 10 ^ (2 - behind)
MCFloats == [w \in Numerals |-> Hundredths(w)]
            @@ <<"1", "e", "1">> :> 1000 @@ <<"inf">> :> 1000000 @@ <<"nan">> :> NaN

-----------------------------------------------------------------------------
(* Files and schemas. *)

Text(str, num) == [str |-> str, num |-> num]
Number(n) == Text(10 + n, n)
MinusZero == Text(9, NegZero)
Jo == Text(20, Nil)
Al == Text(19, Nil)
Bytes == Text(99, Nil)
Head1 == <<Text(30, Nil), Text(31, Nil), Text(32, Nil)>>

Column(name, type) == [name |-> name, type |-> type, kind |-> "dimension"]
Schema(columns, hasHeader) == [columns |-> columns, hasHeader |-> hasHeader, delimiter |-> 44]
ABC == <<Column(<<"a">>, "string"), Column(<<"b">>, "int64"), Column(<<"c">>, "float64")>>

Case(mode, ask, schema, lines, onError) ==
    [mode |-> mode, ask |-> ask, schema |-> schema, lines |-> lines, onError |-> onError]

LineKinds == {<<Jo, Number(2), Number(1)>>, <<Jo, Number(-1), Number(0)>>,
              <<Al, Number(2), MinusZero>>, <<Al, Jo, Number(0)>>, <<Al>>,
              <<Bytes, Number(1), Number(1)>>}
SmallFile == <<<<Jo, Number(2), Number(1)>>, <<Al, Number(1), Number(0)>>>>

-----------------------------------------------------------------------------
(* Texts. *)

Pick == <<"SELECT", " ", "a", ",", "Sum", "(", "b", ")", " ", "GROUP", " ", "By", " ", "a">>
Pairs == <<"select", " ", "max", "(", "b", ")", ",", "distinct", "(", "a", ")", ",",
           "avg", "(", "b", ")">>
Tally == <<"select", " ", "Count", "(", "*", ")", " ", "group", " ", "by", " ", "c", ",", "a">>
Median == <<"select", " ", "p", "5", "0", "(", "b", ")">>
Percentile == <<"select", " ", "p", "9", "9", ".", "9", "(", "b", ")">>
NotANumber == <<"select", " ", "p", "nan", "(", "b", ")">>
NamedGroup == <<"select", "\n", "group", " ", "group", " ", "by", " ", "group">>

Edits(s) ==
    {s} \cup {RemoveAt(s, i) : i \in DOMAIN s}
        \cup {InsertAt(s, i, s[i]) : i \in DOMAIN s}
        \cup {ReplaceAt(s, i, c) : i \in DOMAIN s,
                c \in {"group", "sum", "b", "A", "_", "(", ")", ",", "*", " ", "0", ".", "#"}}

TextCases ==
    {Case("query", t, Schema(ABC, FALSE), SmallFile, "skip") :
        t \in UNION {Edits(s) : s \in {Pick, Pairs, Tally, Median, Percentile, NotANumber,
                                       NamedGroup}}}
    \cup {Case("query", t, Schema(ABC, FALSE), SmallFile, "skip") :
            t \in {<<>>, <<" ">>, <<"select", " ", "p", "1", "0", "0", "(", "b", ")">>,
                   <<"select", " ", "p", "1", "e", "1", "(", "b", ")">>,
                   <<"select", " ", "p", "inf", "(", "b", ")">>,
                   <<"select", " ", "min", "(", "b", ".", "1", ")">>,
                   <<"select", " ", ".", "5", "(", "b", ")">>}}

-----------------------------------------------------------------------------
(* Data. *)

AllMeasures == <<"select", " ", "Sum", "(", "b", ")", ",", "min", "(", "b", ")", ",",
                 "max", "(", "b", ")", ",", "avg", "(", "b", ")", ",", "distinct", "(", "b", ")">>
ByA == <<" ", "group", " ", "by", " ", "a">>
ByC == <<" ", "group", " ", "by", " ", "c">>

DataCases ==
    {Case("query", t, Schema(ABC, header), (IF header THEN <<Head1>> ELSE <<>>) \o lines, onError) :
        t \in {AllMeasures, AllMeasures \o ByA, AllMeasures \o ByC},
        header \in BOOLEAN, onError \in {"skip", "fail"}, lines \in SeqOf(LineKinds, 2)}
    \cup {Case("query", t, Schema(ABC, FALSE), lines, "skip") :
            t \in {AllMeasures \o ByA, Tally}, lines \in
              {<<<<Jo, Number(2), Number(0)>>, <<Al, Number(3), MinusZero>>,
                 <<Jo, Number(-1), Number(0)>>, <<Al, Number(2), MinusZero>>>>}}

-----------------------------------------------------------------------------
(* Flags, messages and schemas. *)

Flag(column, funcs) == [column |-> column, funcs |-> funcs]
FlagCases ==
    {Case("oneshot", [groupBy |-> g, measures |-> ms], Schema(ABC, FALSE), lines, onError) :
        g \in {<<>>, <<<<"a">>>>, <<<<"a">>, <<"a">>>>, <<<<"a">>, <<>>>>},
        ms \in {<<>>, <<Flag(<<"b">>, <<<<" ", "Sum">>, <<"min">>>>), Flag(<<"b">>, <<<<"avg">>>>)>>,
                <<Flag(<<"b">>, <<<<"sum">>, <<>>>>)>>, <<Flag(<<>>, <<<<"sum">>>>)>>,
                <<Flag(<<"b">>, <<<<"p", "5">>>>)>>, <<Flag(<<"a">>, <<<<"max">>>>)>>},
        lines \in {<<>>, <<<<Jo, Number(2), Number(1)>>, <<Al>>, <<Al, Number(1), Number(0)>>>>},
        onError \in {"skip", "fail"}}

Func(kind) == [kind |-> kind, quantile |-> 0]
MessageCases ==
    {Case("foreign", m, Schema(ABC, FALSE), SmallFile, "skip") :
        m \in {Nil} \cup
              {[groupBy |-> g, measures |-> ms] :
                 g \in {<<>>, <<<<"a">>>>, <<<<"_">>>>, <<<<"c">>, <<"c">>>>},
                 ms \in {<<>>} \cup
                        {<<[column |-> name, funcs |-> fs]>> :
                            name \in {<<"a">>, <<"b">>, <<"_">>},
                            fs \in {<<>>, <<Func("FUNC_KIND_UNSPECIFIED")>>,
                                    <<Func("FUNC_KIND_SUM")>>, <<Func("FUNC_KIND_DISTINCT")>>,
                                    <<Func("FUNC_KIND_MAX"), Func("FUNC_KIND_PERCENTILE")>>}}}}

OddSchemas ==
    {Schema(<<>>, TRUE), Schema(<<>>, FALSE),
     Schema(<<Column(<<"a">>, "string"), Column(<<"b">>, "int64"), Column(<<"a">>, "float64")>>, FALSE),
     Schema(<<Column(<<"a">>, "string"), Column(<<"b">>, "int64"), Column(<<"c">>, "decimal")>>, FALSE)}

SchemaCases ==
    {Case("query", t, s, lines, onError) :
        t \in {<<"select", " ", "Count", "(", "*", ")">>, AllMeasures \o ByA, Tally},
        s \in OddSchemas, onError \in {"skip", "fail"},
        lines \in {<<>>, <<Head1>>, <<Head1, <<Al>>>>, SmallFile}}

MCCases == TextCases \cup DataCases \cup FlagCases \cup MessageCases \cup SchemaCases
MCBinary == {99}
=============================================================================
