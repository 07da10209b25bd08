---------------------------- MODULE MCRowParser ----------------------------
(* RowParser on every single line of up to five characters, and on files of  *)
(* up to three lines that differ in arity, types and quoting.                *)
EXTENDS RowParser

LinesUpTo(n) == UNION {[1 .. m -> Char] : m \in 0 .. n}

Samples == {<<>>, <<"digit">>, <<"other", "delim", "digit">>, <<"digit", "delim", "other">>,
            <<"quote", "delim", "quote">>, <<"quote", "delim", "quote", "delim", "digit">>}

AllFiles == {<<l>> : l \in LinesUpTo(5)} \cup UNION {[1 .. m -> Samples] : m \in {0, 2, 3}}

SampleFiles == UNION {[1 .. m -> Samples] : m \in 0 .. 2}

AllTables == {<<>>, <<"string">>, <<"string", "number">>, <<"number", "string", "string">>}

NoTable == {<<>>}
=============================================================================
