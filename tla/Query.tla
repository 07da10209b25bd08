------------------------------- MODULE Query -------------------------------
(***************************************************************************)
(* internal/query: a query text is scanned into tokens, parsed by one      *)
(* token of lookahead, and turned into an AggSpec.                         *)
(*                                                                         *)
(* A text is a sequence of pieces: words (letters that always stand        *)
(* together), digits, dots, blanks, punctuation and other characters.      *)
(***************************************************************************)
EXTENDS Integers, Sequences, SequencesExt, FiniteSets, Fallible

CONSTANTS
    Lower,      \* word |-> the word in lower case
    Floats,     \* a text strconv.ParseFloat accepts |-> its value
    Percent,    \* the unit of these values: 1 is this many of it
    NaN         \* the value of "nan"

Blanks == {" ", "\t", "\n", "\r"}
Comma == ","
Punctuation == {"(", ")", Comma, "*"}
Digits == {"0", "1", "2", "3", "4", "5", "6", "7", "8", "9"}

ASSUME QueryAssumption ==
    /\ DOMAIN Lower \cap (Blanks \cup Punctuation \cup Digits \cup {"."}) = {}
    /\ Percent \in Nat \ {0}
    /\ \A word \in DOMAIN Floats : Floats[word] = NaN \/ Floats[word] \in Int

Fold(word) == [i \in DOMAIN word |-> IF word[i] \in DOMAIN Lower THEN Lower[word[i]] ELSE word[i]]

-----------------------------------------------------------------------------
(* lex. *)

IsIdentStart(c) == c \in DOMAIN Lower
\* Mutated form: a number has no dot.
IsIdentPartNoDot(c) == IsIdentStart(c) \/ c \in Digits

\* A dot, too: the function p99.9 is one identifier.
IsIdentPart(c) == IsIdentStart(c) \/ c \in Digits \cup {"."}

Token(kind, text) == [kind |-> kind, text |-> text]

\* inside: the last token is an identifier that is still being read.
Lexed(toks, inside) == [toks |-> toks, inside |-> inside, ok |-> TRUE]

Scan(st, c) ==
    CASE ~st.ok -> st
      [] st.ok /\ st.inside /\ IsIdentPart(c) ->
            Lexed(Append(Front(st.toks), Token("ident", Append(Last(st.toks).text, c))), TRUE)
      [] st.ok /\ ~st.inside /\ IsIdentStart(c) ->
            Lexed(Append(st.toks, Token("ident", <<c>>)), TRUE)
      [] st.ok /\ c \in Blanks -> Lexed(st.toks, FALSE)
      [] st.ok /\ c \in Punctuation -> Lexed(Append(st.toks, Token(c, <<>>)), FALSE)
      [] OTHER -> [st EXCEPT !.ok = FALSE]

Lex(s) ==
    LET After[n \in 0 .. Len(s)] ==
            IF n = 0 THEN Lexed(<<>>, FALSE) ELSE Scan(After[n - 1], s[n])
        end == After[Len(s)]
    IN If(end.ok, Append(end.toks, Token("EOF", <<>>)))

-----------------------------------------------------------------------------
(* The parser's methods.  Each takes the tokens and the position of the next *)
(* one, and yields what it read with the position after it.                  *)

Read(val, next) == [val |-> val, next |-> next]

IsKeyword(toks, p, word) == toks[p].kind = "ident" /\ Fold(toks[p].text) = <<word>>

ExpectKeyword(toks, p, word) == If(IsKeyword(toks, p, word), p + 1)

ExpectIdent(toks, p) == If(toks[p].kind = "ident", Read(toks[p].text, p + 1))

Expect(toks, p, kind) == If(toks[p].kind = kind, p + 1)

Item(kind, column, fn) == [kind |-> kind, column |-> column, fn |-> fn]

ParseSelectItem(toks, p) ==
    Then(ExpectIdent(toks, p), LAMBDA name :
        LET q == name.next
        IN CASE toks[q].kind # "(" -> {Read(Item("bare", name.val, <<>>), q)}
             [] toks[q].kind = "(" /\ toks[q + 1].kind = "*" ->
                  Then(IF Fold(name.val) = <<"count">> THEN Expect(toks, q + 2, ")") ELSE {}, LAMBDA r :
                      {Read(Item("count", <<>>, <<>>), r)})
             [] OTHER ->
                  Then(ExpectIdent(toks, q + 1), LAMBDA column :
                      Then(Expect(toks, column.next, ")"), LAMBDA r :
                          {Read(Item("func", column.val, name.val), r)})))

\* The loop of parseSelectList and of parseColList: elements between commas.
ParseList(Element(_, _), toks, p) ==
    LET List[q \in DOMAIN toks] ==
            Then(Element(toks, q), LAMBDA e :
                IF toks[e.next].kind = Comma
                THEN Then(List[e.next + 1], LAMBDA rest :
                         {Read(<<e.val>> \o rest.val, rest.next)})
                ELSE {Read(<<e.val>>, e.next)})
    IN List[p]

ParseSelectList(toks, p) == ParseList(ParseSelectItem, toks, p)
ParseColList(toks, p) == ParseList(ExpectIdent, toks, p)

ParseGroupBy(toks, p) ==
    IF IsKeyword(toks, p, "group")
    THEN Then(ExpectKeyword(toks, p + 1, "by"), LAMBDA q : ParseColList(toks, q))
    ELSE {Read(<<>>, p)}

-----------------------------------------------------------------------------
(* aggregate.ParseAggFunc. *)

AggFunc(kind, q) == [kind |-> kind, q |-> q]
Plain == {"sum", "min", "max", "avg", "distinct"}

ParseFloat(word) == IF word \in DOMAIN Floats THEN {Floats[word]} ELSE {}

Trim(name) ==
    LET kept == {i \in DOMAIN name : name[i] \notin Blanks}
    IN IF kept = {} THEN <<>> ELSE SubSeq(name, Min(kept), Max(kept))

\* NaN is neither <= 0 nor >= 100 percent, and so is not refused.
ParseAggFunc(name) ==
    LET lower == Fold(Trim(name))
    IN CASE lower = <<>> -> {}
         [] Len(lower) = 1 /\ lower[1] \in Plain -> {AggFunc(lower[1], 0)}
         [] Len(lower) > 1 /\ lower[1] = "p" ->
              Then(ParseFloat(Tail(lower)), LAMBDA q :
                  If(q = NaN \/ (q > 0 /\ q < 100 * Percent), AggFunc("percentile", q)))
         [] OTHER -> {}

-----------------------------------------------------------------------------
(* Parse. *)

\* One function item: appended to the measure of its column, or a new measure.
AddMeasure(measures, column, fn) ==
    IF \E i \in DOMAIN measures : measures[i].column = column
    THEN [i \in DOMAIN measures |->
            IF measures[i].column = column
            THEN [column |-> column, funcs |-> Append(measures[i].funcs, fn)] ELSE measures[i]]
    ELSE Append(measures, [column |-> column, funcs |-> <<fn>>])

\* The measures with the item, or an error.
TakeItem(measures, item, groupBy) ==
    CASE item.kind = "count" -> {measures}
      [] item.kind = "bare" -> If(item.column \in Range(groupBy), measures)
      [] item.kind = "func" ->
           Then(ParseAggFunc(item.fn), LAMBDA fn : {AddMeasure(measures, item.column, fn)})

ToSpec(items, groupBy) ==
    LET Upto[n \in 0 .. Len(items)] ==
            IF n = 0 THEN {<<>>}
            ELSE Then(Upto[n - 1], LAMBDA ms : TakeItem(ms, items[n], groupBy))
    IN Then(Upto[Len(items)], LAMBDA ms : {[groupBy |-> groupBy, measures |-> ms]})

Parse(s) ==
    Then(IF Range(s) \subseteq Blanks THEN {} ELSE Lex(s), LAMBDA toks :
        Then(ExpectKeyword(toks, 1, "select"), LAMBDA p :
            Then(ParseSelectList(toks, p), LAMBDA items :
                Then(ParseGroupBy(toks, items.next), LAMBDA groupBy :
                    IF toks[groupBy.next].kind = "EOF"
                    THEN ToSpec(items.val, groupBy.val) ELSE {}))))
=============================================================================
