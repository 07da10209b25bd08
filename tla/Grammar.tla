------------------------------ MODULE Grammar ------------------------------
(***************************************************************************)
(* What a query text means, read off the grammar above query.Parse:        *)
(*                                                                         *)
(*   query       ::= SELECT select-list [ GROUP BY col-list ]              *)
(*   select-list ::= select-item { "," select-item }                       *)
(*   select-item ::= COUNT "(" "*" ")" | ident "(" ident ")" | ident       *)
(*   col-list    ::= ident { "," ident }                                   *)
(*                                                                         *)
(* No position moves over the text here: a text has a meaning if it can be *)
(* divided as the grammar says.                                            *)
(***************************************************************************)
EXTENDS Query

\* The positions in S, in order: the n-th has n of them up to it.
InOrder(S) ==
    [n \in 1 .. Cardinality(S) |-> CHOOSE i \in S : Cardinality({j \in S : j <= i}) = n]

\* An identifier is made of letters, digits, underscores and dots, and begins
\* with a letter or an underscore.
Letter(c) == c \in DOMAIN Lower
InIdent(c) == Letter(c) \/ c \in Digits \/ c = "."

\* The tokens: marks, and identifiers that are as long as they can be.
Tokens(s) ==
    LET Ident(i, j) == \A k \in i .. j : InIdent(s[k])
        Begins(i) == s[i] \in Punctuation
                     \/ (InIdent(s[i]) /\ (i > 1 => ~InIdent(s[i - 1])))
        At(i) == IF s[i] \in Punctuation THEN Token(s[i], <<>>)
                 ELSE Token("ident", SubSeq(s, i, Max({j \in i .. Len(s) : Ident(i, j)})))
        begins == {i \in DOMAIN s : Begins(i)}
    IN If(/\ \A i \in DOMAIN s : s[i] \in Blanks \cup Punctuation \/ InIdent(s[i])
          /\ \A i \in begins : s[i] \in Punctuation \/ Letter(s[i]),
          [n \in DOMAIN InOrder(begins) |-> At(InOrder(begins)[n])])

Kinds(t) == [i \in DOMAIN t |-> t[i].kind]
Word(token, word) == token.kind = "ident" /\ Fold(token.text) = <<word>>

\* What is between the commas of t[from .. to].
Pieces(t, from, to) ==
    LET ends == <<from - 1>> \o InOrder({i \in from .. to : t[i].kind = Comma}) \o <<to + 1>>
    IN [n \in 1 .. Len(ends) - 1 |-> SubSeq(t, ends[n] + 1, ends[n + 1] - 1)]

IsColumn(piece) == Kinds(piece) = <<"ident">>
IsCount(piece) == Kinds(piece) = <<"ident", "(", "*", ")">> /\ Word(piece[1], "count")
IsFunc(piece) == Kinds(piece) = <<"ident", "(", "ident", ")">>

\* The meaning of a select list and the columns of GROUP BY: {} if a function
\* is unknown or a column stands alone that is not grouped by.
SpecOf(items, groupBy) ==
    LET funcs == {i \in DOMAIN items : IsFunc(items[i])}
        Column(i) == items[i][3].text
        Function(i) == CHOOSE f \in ParseAggFunc(items[i][1].text) : TRUE
        About(i) == {j \in funcs : Column(j) = Column(i)}
        firsts == InOrder({i \in funcs : \A j \in About(i) : i <= j})
    IN If(/\ \A i \in funcs : ParseAggFunc(items[i][1].text) # {}
          /\ \A p \in Range(items) : IsColumn(p) => p[1].text \in Range(groupBy),
          [groupBy |-> groupBy,
           measures |-> [n \in DOMAIN firsts |->
                           [column |-> Column(firsts[n]),
                            funcs |-> LET about == InOrder(About(firsts[n]))
                                      IN [m \in DOMAIN about |-> Function(about[m])]]]])

AllItems(pieces) == \A p \in Range(pieces) : IsColumn(p) \/ IsCount(p) \/ IsFunc(p)
AllColumns(pieces) == \A p \in Range(pieces) : IsColumn(p)

\* The text can be divided before its k-th token: a select list ends there, and
\* nothing or GROUP BY begins.
Grouped(t, k) == Pieces(t, k + 2, Len(t))
GroupsAt(t, k) ==
    \/ k > Len(t)
    \/ k < Len(t) /\ Word(t[k], "group") /\ Word(t[k + 1], "by") /\ AllColumns(Grouped(t, k))
GroupAt(t, k) ==
    IF k > Len(t) THEN <<>> ELSE [n \in DOMAIN Grouped(t, k) |-> Grouped(t, k)[n][1].text]
Divided(t, k) == Word(t[1], "select") /\ AllItems(Pieces(t, 2, k - 1)) /\ GroupsAt(t, k)

\* The specs a text can mean, of which there is one or none.
Meaning(s) ==
    Then(Tokens(s), LAMBDA t :
        UNION {SpecOf(Pieces(t, 2, k - 1), GroupAt(t, k)) :
                   k \in {k \in 2 .. Len(t) + 1 : Divided(t, k)}})
=============================================================================
