-------------------------- MODULE RowParserProofs ---------------------------
(***************************************************************************)
(* Proofs about RowParser, for every file, schema and policy.  First, that *)
(* a line is split into the fields the format declares, with quotes and    *)
(* without (SplitReads); then, that the batch holds the rows the lines     *)
(* are, and that every other line is reported or ends the run.             *)
(***************************************************************************)
EXTENDS RowParser, SequenceTheorems, FunctionTheorems, FiniteSetTheorems,
        WellFoundedInduction, TLAPS

-----------------------------------------------------------------------------
(* Induction and recursion over the positions of a line. *)

\* A set of naturals has a least element.
LEMMA LeastNatural ==
    ASSUME NEW T, T \subseteq Nat, T # {}
    PROVE  \E x \in T : \A y \in T : x <= y
<1>. DEFINE R == {p \in Nat \X Nat : p[1] < p[2]}
<1>1. IsWellFoundedOn(R, Nat)
  BY NatLessThanWellFounded DEF OpToRel
<1>2. PICK x \in T : \A y \in T : <<y, x>> \notin R
  <2>. HIDE DEF R
  <2>. QED
    BY <1>1, WFMin
<1>3. ASSUME NEW y \in T
      PROVE  x <= y
  <2>1. <<y, x>> \in Nat \X Nat /\ ~(y < x)
    BY <1>2
  <2>. QED
    BY <2>1
<1>. HIDE DEF R
<1>. QED
  BY <1>3

\* Induction over 0 .. n, stated over sets: the induction theorems of the library take a
\* predicate as a parameter.
LEMMA PositionsByInduction ==
    ASSUME NEW n \in Nat, NEW Q,
           0 \in Q,
           \A k \in 0 .. n - 1 : (\A j \in 0 .. k : j \in Q) => k + 1 \in Q
    PROVE  \A k \in 0 .. n : k \in Q
<1>. DEFINE T == 0 .. n \ Q
<1>1. CASE T # {}
  <2>1. T \subseteq Nat
    OBVIOUS
  <2>2. PICK x \in T : \A y \in T : x <= y
    <3>. HIDE DEF T
    <3>. QED
      BY <1>1, <2>1, LeastNatural
  <2>3. x \in 1 .. n /\ x \notin Q
    BY <2>2
  <2>4. x - 1 \in 0 .. n - 1 /\ (x - 1) + 1 = x
    BY <2>3
  <2>5. \A j \in 0 .. x - 1 : j \in Q
    BY <2>2, <2>3
  <2>. QED
    BY <2>3, <2>4, <2>5
<1>. QED
  BY <1>1

\* G computes the value in A at a position of 0 .. n from the values before it.
ComputesFromBefore(G, n, A) ==
    /\ G \in [(0 .. n) \X [0 .. n -> A] -> A]
    /\ \A k \in 0 .. n, g, h \in [0 .. n -> A] :
          (\A j \in 0 .. k - 1 : g[j] = h[j]) => G[<<k, g>>] = G[<<k, h>>]

\* The values of h up to position m are those G computes.
FollowsUpto(h, m, G, n, A) ==
    h \in [0 .. n -> A] /\ \A k \in 0 .. m : h[k] = G[<<k, h>>]

\* Recursion over the positions of a line.
LEMMA PositionRecursion ==
    ASSUME NEW n \in Nat, NEW A, A # {}, NEW G, ComputesFromBefore(G, n, A)
    PROVE  \E h : FollowsUpto(h, n, G, n, A)
<1>. DEFINE IsFollowed(m) == \E h : FollowsUpto(h, m, G, n, A)
            Q == {m \in 0 .. n : IsFollowed(m)}
            Again(h) == [k \in 0 .. n |-> G[<<k, h>>]]
<1>1. ASSUME NEW h \in [0 .. n -> A]
      PROVE  /\ Again(h) \in [0 .. n -> A]
             /\ \A k \in 0 .. n : Again(h)[k] = G[<<k, h>>]
  BY DEF ComputesFromBefore
<1>2. ASSUME NEW g \in [0 .. n -> A], NEW h \in [0 .. n -> A], NEW k \in 0 .. n,
             \A j \in 0 .. k - 1 : g[j] = h[j]
      PROVE  G[<<k, g>>] = G[<<k, h>>]
  BY <1>2 DEF ComputesFromBefore
<1>. HIDE DEF Again
<1>3. 0 \in Q
  <2>1. PICK a \in A : TRUE
    OBVIOUS
  <2>2. PICK h \in [0 .. n -> A] : h = [k \in 0 .. n |-> a]
    OBVIOUS
  <2>3. Again(h)[0] = G[<<0, Again(h)>>]
    <3>1. 0 \in 0 .. n /\ \A j \in 0 .. 0 - 1 : h[j] = Again(h)[j]
      OBVIOUS
    <3>2. Again(h)[0] = G[<<0, h>>] /\ Again(h) \in [0 .. n -> A]
      BY <1>1, <3>1
    <3>. QED
      BY <1>2, <3>1, <3>2
  <2>4. FollowsUpto(Again(h), 0, G, n, A)
    BY <1>1, <2>3 DEF FollowsUpto
  <2>5. IsFollowed(0)
    BY <2>4
  <2>. HIDE DEF IsFollowed
  <2>. QED
    BY <2>5
<1>4. ASSUME NEW m \in 0 .. n - 1, m \in Q
      PROVE  m + 1 \in Q
  <2>1. PICK h : FollowsUpto(h, m, G, n, A)
    BY <1>4
  <2>. USE DEF FollowsUpto
  <2>2. ASSUME NEW k \in 0 .. m + 1
        PROVE  Again(h)[k] = G[<<k, Again(h)>>]
    <3>1. ASSUME NEW j \in 0 .. k - 1
          PROVE  h[j] = Again(h)[j]
      <4>1. j \in 0 .. m /\ j \in 0 .. n
        OBVIOUS
      <4>. QED
        BY <1>1, <2>1, <4>1
    <3>2. k \in 0 .. n
      OBVIOUS
    <3>3. Again(h)[k] = G[<<k, h>>] /\ Again(h) \in [0 .. n -> A]
      BY <1>1, <2>1, <3>2
    <3>. QED
      BY <1>2, <2>1, <3>1, <3>2, <3>3
  <2>3. FollowsUpto(Again(h), m + 1, G, n, A)
    BY <1>1, <2>1, <2>2
  <2>4. IsFollowed(m + 1) /\ m + 1 \in 0 .. n
    BY <2>3
  <2>. HIDE DEF IsFollowed
  <2>. QED
    BY <2>4
<1>5. n \in Q
  <2>1. \A k \in 0 .. n - 1 : (\A j \in 0 .. k : j \in Q) => k + 1 \in Q
    BY <1>4
  <2>. HIDE DEF Q
  <2>. QED
    BY <1>3, <2>1, PositionsByInduction
<1>. QED
  BY <1>5

\* The run over s of a machine g that starts in base.
Follows(h, g, base, s) ==
    /\ h[0] = base
    /\ \A k \in 1 .. Len(s) : h[k] = g[<<h[k - 1], s[k]>>]

\* A machine has a run over every sequence of inputs.
LEMMA MachineRuns ==
    ASSUME NEW A, NEW C, NEW base \in A, NEW g \in [A \X C -> A], NEW s \in Seq(C)
    PROVE  \E h \in [0 .. Len(s) -> A] : Follows(h, g, base, s)
<1>. DEFINE n == Len(s)
            Rest(k, h) == IF k = 0 THEN base ELSE g[<<h[k - 1], s[k]>>]
            G == [z \in (0 .. n) \X [0 .. n -> A] |-> Rest(z[1], z[2])]
<1>0. n \in Nat /\ \A k \in 1 .. n : s[k] \in C
  OBVIOUS
<1>. HIDE DEF n
<1>1. ASSUME NEW k \in 0 .. n, NEW h \in [0 .. n -> A]
      PROVE  Rest(k, h) \in A
  <2>1. CASE k # 0
    <3>1. k - 1 \in 0 .. n /\ s[k] \in C
      BY <1>0, <2>1
    <3>2. <<h[k - 1], s[k]>> \in A \X C
      BY <3>1
    <3>. QED
      BY <2>1, <3>2
  <2>. QED
    BY <2>1
<1>2. ASSUME NEW k \in 0 .. n, NEW h \in [0 .. n -> A]
      PROVE  G[<<k, h>>] = Rest(k, h)
  <2>. HIDE DEF Rest
  <2>. QED
    OBVIOUS
<1>3. G \in [(0 .. n) \X [0 .. n -> A] -> A]
  <2>1. ASSUME NEW z \in (0 .. n) \X [0 .. n -> A]
        PROVE  Rest(z[1], z[2]) \in A
    <3>1. z[1] \in 0 .. n /\ z[2] \in [0 .. n -> A]
      OBVIOUS
    <3>. HIDE DEF Rest
    <3>. QED
      BY <1>1, <3>1
  <2>. HIDE DEF Rest
  <2>. QED
    BY <2>1
<1>4. ASSUME NEW k \in 0 .. n, NEW f \in [0 .. n -> A], NEW h \in [0 .. n -> A],
             \A j \in 0 .. k - 1 : f[j] = h[j]
      PROVE  G[<<k, f>>] = G[<<k, h>>]
  <2>1. Rest(k, f) = Rest(k, h)
    <3>1. k # 0 => k - 1 \in 0 .. k - 1
      OBVIOUS
    <3>. QED
      BY <1>4, <3>1
  <2>. HIDE DEF G, Rest
  <2>. QED
    BY <1>2, <2>1
<1>5. PICK h \in [0 .. n -> A] : \A k \in 0 .. n : h[k] = G[<<k, h>>]
  <2>1. ComputesFromBefore(G, n, A)
    <3>. HIDE DEF G
    <3>. QED
      BY <1>3, <1>4 DEF ComputesFromBefore
  <2>2. A # {} /\ n \in Nat
    BY <1>0
  <2>. HIDE DEF G, Rest
  <2>3. \E h : FollowsUpto(h, n, G, n, A)
    BY <2>1, <2>2, PositionRecursion
  <2>. QED
    BY <2>3 DEF FollowsUpto
<1>6. \A k \in 0 .. n : h[k] = Rest(k, h)
  <2>. HIDE DEF G, Rest
  <2>. QED
    BY <1>2, <1>5
<1>7. Follows(h, g, base, s)
  <2>1. 0 \in 0 .. n /\ \A k \in 1 .. n : k \in 0 .. n /\ k # 0
    BY <1>0
  <2>. QED
    BY <1>6, <2>1 DEF Follows, n
<1>. QED
  BY <1>7 DEF n

-----------------------------------------------------------------------------
(* The scanners as machines. *)

Modes == {"start", "bare", "quoted", "closed", "error"}
ScanStates == [mode : Modes, fields : Seq(Seq(Char)), field : Seq(Char)]

\* A character takes the scanner from a state to a state.
LEMMA ScanType ==
    ASSUME NEW s \in ScanStates, NEW c \in Char
    PROVE  Scan(s, c) \in ScanStates
<1>1. /\ s.mode \in Modes /\ s.fields \in Seq(Seq(Char)) /\ s.field \in Seq(Char)
      /\ Append(s.field, c) \in Seq(Char) /\ Append(s.fields, s.field) \in Seq(Seq(Char))
      /\ <<>> \in Seq(Char)
  BY DEF ScanStates
<1>2. /\ \A m \in Modes : [s EXCEPT !.mode = m] \in ScanStates
      /\ \A m \in Modes : [s EXCEPT !.mode = m, !.field = Append(@, c)] \in ScanStates
      /\ [mode |-> "start", fields |-> Append(s.fields, s.field), field |-> <<>>] \in ScanStates
  BY <1>1 DEF ScanStates, Modes
<1>3. {"bare", "quoted", "closed", "error"} \subseteq Modes
  BY DEF Modes
<1>. QED
  BY <1>2, <1>3 DEF Scan

\* a is the run of splitFieldsQuoted over line.
ScanRun(a, line) ==
    /\ a \in [0 .. Len(line) -> ScanStates]
    /\ a[0] = Started
    /\ \A k \in 1 .. Len(line) : a[k] = Scan(a[k - 1], line[k])

Outcome(s) ==
    IF s.mode \in {"quoted", "error"} THEN NoFields ELSE Append(s.fields, s.field)

\* splitFieldsQuoted takes one character after the other.
LEMMA ScanRuns ==
    ASSUME NEW line \in Seq(Char)
    PROVE  \E a : ScanRun(a, line) /\ SplitFieldsQuoted(line) = Outcome(a[Len(line)])
<1>. DEFINE n == Len(line)
            g == [z \in ScanStates \X Char |-> Scan(z[1], z[2])]
            Rest(k, h) == IF k = 0 THEN Started ELSE Scan(h[k - 1], line[k])
            After == CHOOSE f : f = [k \in 0 .. n |-> Rest(k, f)]
<1>0. n \in Nat /\ \A k \in 1 .. n : line[k] \in Char
  OBVIOUS
<1>1. Started \in ScanStates
  BY DEF Started, ScanStates, Modes
<1>2. PICK h \in [0 .. n -> ScanStates] : Follows(h, g, Started, line)
  <2>1. g \in [ScanStates \X Char -> ScanStates]
    <3>1. \A z \in ScanStates \X Char : Scan(z[1], z[2]) \in ScanStates
      BY ScanType
    <3>. QED
      BY <3>1
  <2>. HIDE DEF g
  <2>. QED
    BY <1>1, <2>1, MachineRuns
<1>3. ASSUME NEW k \in 0 .. n
      PROVE  h[k] = Rest(k, h)
  <2>1. CASE k # 0
    <3>1. k \in 1 .. n /\ k - 1 \in 0 .. n
      BY <2>1
    <3>2. h[k] = g[<<h[k - 1], line[k]>>] /\ <<h[k - 1], line[k]>> \in ScanStates \X Char
      BY <1>0, <1>2, <3>1 DEF Follows
    <3>. QED
      BY <2>1, <3>2
  <2>. QED
    BY <1>2, <2>1 DEF Follows
<1>4. After = [k \in 0 .. n |-> Rest(k, After)]
  <2>1. h = [k \in 0 .. n |-> Rest(k, h)]
    <3>. HIDE DEF Rest, n
    <3>. QED
      BY <1>3
  <2>. HIDE DEF Rest, n
  <2>. QED
    BY <2>1
<1>5. SplitFieldsQuoted(line) = Outcome(After[n])
  BY DEF SplitFieldsQuoted, Outcome
<1>. HIDE DEF After
<1>6. After[0] = Started /\ \A k \in 1 .. n : After[k] = Scan(After[k - 1], line[k])
  <2>1. 0 \in 0 .. n /\ \A k \in 1 .. n : k \in 0 .. n /\ k # 0
    BY <1>0
  <2>. HIDE DEF n
  <2>. QED
    BY <1>4, <2>1
<1>7. \A k \in 0 .. n : After[k] \in ScanStates
  <2>. DEFINE Q == {k \in 0 .. n : After[k] \in ScanStates}
  <2>1. 0 \in Q
    BY <1>0, <1>1, <1>6
  <2>2. ASSUME NEW k \in 0 .. n - 1, k \in Q
        PROVE  k + 1 \in Q
    <3>1. k + 1 \in 1 .. n /\ (k + 1) - 1 = k
      OBVIOUS
    <3>2. After[k + 1] = Scan(After[k], line[k + 1]) /\ line[k + 1] \in Char
      BY <1>0, <1>6, <3>1
    <3>. QED
      BY <2>2, <3>1, <3>2, ScanType
  <2>3. \A k \in 0 .. n - 1 : (\A j \in 0 .. k : j \in Q) => k + 1 \in Q
    <3>1. \A k \in 0 .. n - 1 : k \in 0 .. k
      OBVIOUS
    <3>. HIDE DEF Q, n
    <3>. QED
      BY <2>2, <3>1
  <2>4. \A k \in 0 .. n : k \in Q
    <3>. HIDE DEF Q, n
    <3>. QED
      BY <1>0, <2>1, <2>3, PositionsByInduction
  <2>. QED
    BY <2>4
<1>8. After \in [0 .. n -> ScanStates]
  <2>. HIDE DEF n, Rest
  <2>. QED
    BY <1>4, <1>7
<1>. QED
  BY <1>5, <1>6, <1>8 DEF ScanRun

-----------------------------------------------------------------------------
(* Doubled quotes. *)

Written(c) == IF c = "quote" THEN <<"quote", "quote">> ELSE <<c>>

\* a is the writing of text between quotes.
DoublingRun(a, text) ==
    /\ a \in [0 .. Len(text) -> Seq(Char)]
    /\ a[0] = <<>>
    /\ \A k \in 1 .. Len(text) : a[k] = a[k - 1] \o Written(text[k])

\* A character is written once, or twice if it is a quote.
LEMMA WrittenType ==
    ASSUME NEW s \in Seq(Char), NEW c \in Char
    PROVE  /\ Written(c) \in Seq(Char) /\ s \o Written(c) \in Seq(Char)
           /\ Len(s \o Written(c)) >= Len(s) + 1
           /\ c # "quote" => s \o Written(c) = Append(s, c)
           /\ c = "quote" => s \o Written(c) = Append(Append(s, "quote"), "quote")
<1>1. Written(c) \in Seq(Char) /\ Len(Written(c)) >= 1
  BY DEF Written
<1>2. s \o Written(c) \in Seq(Char) /\ Len(s \o Written(c)) = Len(s) + Len(Written(c))
  BY <1>1, ConcatProperties
<1>3. CASE c # "quote"
  <2>1. s \o <<c>> = Append(s, c)
    OBVIOUS
  <2>. QED
    BY <1>1, <1>2, <1>3, <2>1 DEF Written
<1>4. CASE c = "quote"
  <2>1. "quote" \in Char
    BY DEF Char
  <2>2. s \o <<"quote", "quote">> = Append(Append(s, "quote"), "quote")
    BY <2>1
  <2>. QED
    BY <1>1, <1>2, <1>4, <2>2 DEF Written
<1>. QED
  BY <1>3, <1>4

\* Doubled writes one character after the other.
LEMMA DoublingRuns ==
    ASSUME NEW text \in Seq(Char)
    PROVE  \E a : DoublingRun(a, text) /\ Doubled(text) = a[Len(text)]
<1>. DEFINE n == Len(text)
            g == [z \in Seq(Char) \X Char |-> z[1] \o Written(z[2])]
            Rest(k, h) == IF k = 0 THEN <<>> ELSE h[k - 1] \o Written(text[k])
            Upto == CHOOSE f : f = [k \in 0 .. n |-> Rest(k, f)]
<1>0. n \in Nat /\ \A k \in 1 .. n : text[k] \in Char
  OBVIOUS
<1>1. <<>> \in Seq(Char)
  OBVIOUS
<1>2. PICK h \in [0 .. n -> Seq(Char)] : Follows(h, g, <<>>, text)
  <2>1. g \in [Seq(Char) \X Char -> Seq(Char)]
    <3>1. \A z \in Seq(Char) \X Char : z[1] \o Written(z[2]) \in Seq(Char)
      BY WrittenType
    <3>. QED
      BY <3>1
  <2>. HIDE DEF g
  <2>. QED
    BY <1>1, <2>1, MachineRuns
<1>3. ASSUME NEW k \in 0 .. n
      PROVE  h[k] = Rest(k, h)
  <2>1. CASE k # 0
    <3>1. k \in 1 .. n /\ k - 1 \in 0 .. n
      BY <2>1
    <3>2. h[k] = g[<<h[k - 1], text[k]>>] /\ <<h[k - 1], text[k]>> \in Seq(Char) \X Char
      BY <1>0, <1>2, <3>1 DEF Follows
    <3>. QED
      BY <2>1, <3>2
  <2>. QED
    BY <1>2, <2>1 DEF Follows
<1>4. Upto = [k \in 0 .. n |-> Rest(k, Upto)]
  <2>1. h = [k \in 0 .. n |-> Rest(k, h)]
    <3>. HIDE DEF Rest, n
    <3>. QED
      BY <1>3
  <2>. HIDE DEF Rest, n
  <2>. QED
    BY <2>1
<1>5. Doubled(text) = Upto[n]
  BY DEF Doubled, Written
<1>. HIDE DEF Upto
<1>6. Upto[0] = <<>> /\ \A k \in 1 .. n : Upto[k] = Upto[k - 1] \o Written(text[k])
  <2>1. 0 \in 0 .. n /\ \A k \in 1 .. n : k \in 0 .. n /\ k # 0
    BY <1>0
  <2>. HIDE DEF n
  <2>. QED
    BY <1>4, <2>1
<1>7. \A k \in 0 .. n : Upto[k] \in Seq(Char)
  <2>. DEFINE IsText(k) == Upto[k] \in Seq(Char)
              Q == {k \in 0 .. n : IsText(k)}
  <2>. HIDE DEF n
  <2>1. 0 \in Q
    <3>1. IsText(0) /\ 0 \in 0 .. n
      BY <1>0, <1>1, <1>6
    <3>. HIDE DEF IsText
    <3>. QED
      BY <3>1
  <2>2. ASSUME NEW k \in 0 .. n - 1, k \in Q
        PROVE  k + 1 \in Q
    <3>1. k + 1 \in 1 .. n /\ (k + 1) - 1 = k
      BY <1>0
    <3>2. Upto[k + 1] = Upto[k] \o Written(text[k + 1]) /\ text[k + 1] \in Char
      BY <1>0, <1>6, <3>1
    <3>3. IsText(k + 1)
      BY <2>2, <3>2, WrittenType
    <3>. HIDE DEF IsText
    <3>. QED
      BY <1>0, <3>1, <3>3
  <2>3. \A k \in 0 .. n - 1 : (\A j \in 0 .. k : j \in Q) => k + 1 \in Q
    <3>1. \A k \in 0 .. n - 1 : k \in 0 .. k
      OBVIOUS
    <3>. HIDE DEF Q, n
    <3>. QED
      BY <2>2, <3>1
  <2>4. \A k \in 0 .. n : k \in Q
    <3>. HIDE DEF Q, n
    <3>. QED
      BY <1>0, <2>1, <2>3, PositionsByInduction
  <2>. QED
    BY <2>4
<1>8. Upto \in [0 .. n -> Seq(Char)]
  <2>. HIDE DEF n, Rest
  <2>. QED
    BY <1>4, <1>7
<1>. QED
  BY <1>5, <1>6, <1>8 DEF DoublingRun

\* The writing of a text is no shorter than the text.
LEMMA DoubledType ==
    ASSUME NEW text \in Seq(Char)
    PROVE  Doubled(text) \in Seq(Char) /\ Len(Doubled(text)) >= Len(text)
<1>1. PICK a : DoublingRun(a, text) /\ Doubled(text) = a[Len(text)]
  BY DoublingRuns
<1>. DEFINE n == Len(text)
            Q == {k \in 0 .. n : Len(a[k]) >= k}
<1>2. n \in Nat /\ \A k \in 1 .. n : text[k] \in Char
  OBVIOUS
<1>. HIDE DEF n
<1>3. 0 \in Q
  BY <1>1, <1>2 DEF DoublingRun
<1>4. ASSUME NEW k \in 0 .. n - 1, k \in Q
      PROVE  k + 1 \in Q
  <2>1. k \in 0 .. n /\ k + 1 \in 1 .. n /\ (k + 1) - 1 = k
    BY <1>2
  <2>2. a[k + 1] = a[k] \o Written(text[k + 1]) /\ a[k] \in Seq(Char) /\ text[k + 1] \in Char
    BY <1>1, <1>2, <2>1 DEF DoublingRun, n
  <2>3. Len(a[k + 1]) >= Len(a[k]) + 1 /\ Len(a[k]) \in Nat /\ Len(a[k + 1]) \in Nat
    <3>1. a[k + 1] \in Seq(Char)
      BY <1>1, <2>1 DEF DoublingRun, n
    <3>2. Len(a[k] \o Written(text[k + 1])) >= Len(a[k]) + 1
      <4>1. a[k] \in Seq(Char) /\ text[k + 1] \in Char
        BY <2>2
      <4>. QED
        BY <4>1, WrittenType
    <3>3. Len(a[k + 1]) >= Len(a[k]) + 1
      BY <2>2, <3>2
    <3>4. Len(a[k]) \in Nat /\ Len(a[k + 1]) \in Nat
      <4>1. \A t \in Seq(Char) : Len(t) \in Nat
        OBVIOUS
      <4>2. a[k] \in Seq(Char)
        BY <2>2
      <4>. QED
        BY <3>1, <4>1, <4>2
    <3>. QED
      BY <3>3, <3>4
  <2>. QED
    BY <1>4, <2>1, <2>3
<1>5. \A k \in 0 .. n : k \in Q
  <2>1. \A k \in 0 .. n - 1 : k \in 0 .. k
    OBVIOUS
  <2>2. \A k \in 0 .. n - 1 : (\A j \in 0 .. k : j \in Q) => k + 1 \in Q
    <3>. HIDE DEF Q
    <3>. QED
      BY <1>4, <2>1
  <2>. HIDE DEF Q
  <2>. QED
    BY <1>2, <1>3, <2>2, PositionsByInduction
<1>6. n \in 0 .. n
  BY <1>2
<1>. QED
  BY <1>1, <1>5, <1>6 DEF DoublingRun, n

\* How a text is written that is one character longer.
LEMMA DoubledIs ==
    /\ Doubled(<<>>) = <<>>
    /\ \A text \in Seq(Char), c \in Char :
          Doubled(Append(text, c)) = Doubled(text) \o Written(c)
<1>1. Doubled(<<>>) = <<>>
  <2>1. <<>> \in Seq(Char) /\ Len(<<>>) = 0
    OBVIOUS
  <2>. QED
    BY <2>1, DoublingRuns DEF DoublingRun
<1>2. ASSUME NEW text \in Seq(Char), NEW c \in Char
      PROVE  Doubled(Append(text, c)) = Doubled(text) \o Written(c)
  <2>. DEFINE n == Len(text)
              more == Append(text, c)
  <2>1. /\ n \in Nat /\ more \in Seq(Char) /\ Len(more) = n + 1 /\ more[n + 1] = c
        /\ \A k \in 1 .. n : more[k] = text[k]
    OBVIOUS
  <2>2. PICK a : DoublingRun(a, text) /\ Doubled(text) = a[n]
    BY DoublingRuns
  <2>3. PICK b : DoublingRun(b, more) /\ Doubled(more) = b[n + 1]
    BY <2>1, DoublingRuns
  <2>. DEFINE Q == {k \in 0 .. n : a[k] = b[k]}
  <2>4. 0 \in Q
    BY <2>1, <2>2, <2>3 DEF DoublingRun
  <2>. HIDE DEF n, more
  <2>5. ASSUME NEW k \in 0 .. n - 1, k \in Q
        PROVE  k + 1 \in Q
    <3>1. k + 1 \in 1 .. n /\ k + 1 \in 1 .. n + 1 /\ (k + 1) - 1 = k /\ k + 1 \in 0 .. n
      BY <2>1
    <3>2. a[k + 1] = a[k] \o Written(text[k + 1])
      BY <2>2, <3>1 DEF DoublingRun, n
    <3>3. b[k + 1] = b[k] \o Written(more[k + 1])
      BY <2>1, <2>3, <3>1 DEF DoublingRun
    <3>. QED
      BY <2>1, <2>5, <3>1, <3>2, <3>3
  <2>6. \A k \in 0 .. n : k \in Q
    <3>1. \A k \in 0 .. n - 1 : k \in 0 .. k
      OBVIOUS
    <3>2. \A k \in 0 .. n - 1 : (\A j \in 0 .. k : j \in Q) => k + 1 \in Q
      <4>. HIDE DEF Q
      <4>. QED
        BY <2>5, <3>1
    <3>. HIDE DEF Q
    <3>. QED
      BY <2>1, <2>4, <3>2, PositionsByInduction
  <2>7. n \in 0 .. n /\ n + 1 \in 1 .. n + 1 /\ (n + 1) - 1 = n
    BY <2>1
  <2>8. b[n + 1] = b[n] \o Written(c)
    BY <2>1, <2>3, <2>7 DEF DoublingRun
  <2>. QED
    BY <2>2, <2>3, <2>6, <2>7, <2>8 DEF more
<1>. QED
  BY <1>1, <1>2

-----------------------------------------------------------------------------
(* What stands inside quotes. *)

\* Two sequences with a last element are equal if all but the last, and the last, are.
LEMMA LastIs ==
    /\ \A v, w \in Seq(Char), c, d \in Char : Append(v, c) = Append(w, d) => v = w /\ c = d
    /\ \A w \in Seq(Char) : w = <<>> \/ \E v \in Seq(Char), c \in Char : w = Append(v, c)
    /\ \A w \in Seq(Char), c \in Char : Append(w, c) \in Seq(Char) /\ Append(w, c) # <<>>
<1>1. ASSUME NEW v \in Seq(Char), NEW w \in Seq(Char), NEW c \in Char, NEW d \in Char,
             Append(v, c) = Append(w, d)
      PROVE  v = w /\ c = d
  <2>1. Len(v) = Len(w)
    BY <1>1
  <2>2. Append(v, c)[Len(v) + 1] = c /\ Append(w, d)[Len(w) + 1] = d
    OBVIOUS
  <2>3. \A i \in 1 .. Len(v) : Append(v, c)[i] = v[i]
    OBVIOUS
  <2>4. \A i \in 1 .. Len(w) : Append(w, d)[i] = w[i]
    OBVIOUS
  <2>5. \A i \in 1 .. Len(v) : v[i] = w[i]
    BY <1>1, <2>1, <2>3, <2>4
  <2>. QED
    BY <1>1, <2>1, <2>2, <2>5, SeqEqual
<1>2. ASSUME NEW w \in Seq(Char), w # <<>>
      PROVE  \E v \in Seq(Char), c \in Char : w = Append(v, c)
  <2>1. /\ Len(w) \in Nat /\ Len(w) >= 1
        /\ SubSeq(w, 1, Len(w) - 1) \in Seq(Char) /\ w[Len(w)] \in Char
    BY <1>2
  <2>2. w = Append(SubSeq(w, 1, Len(w) - 1), w[Len(w)])
    BY <1>2, <2>1
  <2>. QED
    BY <2>1, <2>2
<1>. QED
  BY <1>1, <1>2, SMTT(30)

\* The same for one last element.
LEMMA SameBeforeLast ==
    ASSUME NEW v \in Seq(Char), NEW w \in Seq(Char), NEW c \in Char, Append(v, c) = Append(w, c)
    PROVE  v = w
  BY LastIs

\* The texts that are written w.
Undoubled(w) == {t \in Seq(Char) : Doubled(t) = w}

\* w could end behind a closing quote.
CouldClose(w) == \E v \in Seq(Char) : w = Append(v, "quote") /\ Undoubled(v) # {}

\* Undoing one character that is no quote ...
LEMMA UndoubledOther ==
    ASSUME NEW w \in Seq(Char), NEW c \in Char, c # "quote"
    PROVE  Undoubled(Append(w, c)) = {Append(t, c) : t \in Undoubled(w)}
<1>1. ASSUME NEW t \in Undoubled(w)
      PROVE  Append(t, c) \in Undoubled(Append(w, c))
  <2>1. t \in Seq(Char) /\ Doubled(t) = w /\ Append(t, c) \in Seq(Char)
    BY LastIs DEF Undoubled
  <2>2. Doubled(Append(t, c)) = Append(w, c)
    BY <2>1, DoubledIs, WrittenType
  <2>. QED
    BY <2>1, <2>2 DEF Undoubled
<1>2. ASSUME NEW t \in Undoubled(Append(w, c))
      PROVE  \E u \in Undoubled(w) : t = Append(u, c)
  <2>1. t \in Seq(Char) /\ Doubled(t) = Append(w, c) /\ t # <<>>
    BY DoubledIs, LastIs DEF Undoubled
  <2>2. PICK u \in Seq(Char), d \in Char : t = Append(u, d)
    BY <2>1, LastIs
  <2>3. Doubled(u) \in Seq(Char) /\ Doubled(t) = Doubled(u) \o Written(d)
    BY <2>2, DoubledIs, DoubledType
  <2>4. CASE d # "quote"
    <3>1. Append(Doubled(u), d) = Append(w, c)
      BY <2>1, <2>3, <2>4, WrittenType
    <3>2. Doubled(u) = w /\ d = c
      BY <2>3, <3>1, LastIs
    <3>. QED
      BY <2>2, <3>2 DEF Undoubled
  <2>5. CASE d = "quote"
    <3>1. Append(Append(Doubled(u), "quote"), "quote") = Append(w, c)
      BY <2>1, <2>3, <2>5, WrittenType
    <3>2. "quote" \in Char /\ Append(Doubled(u), "quote") \in Seq(Char)
      BY <2>3 DEF Char
    <3>3. c = "quote"
      BY <3>1, <3>2, LastIs
    <3>. QED
      BY <3>3
  <2>. QED
    BY <2>4, <2>5
<1>. QED
  BY <1>1, <1>2

\* ... and two quotes; a single one cannot be undone.
LEMMA UndoubledQuote ==
    /\ \A v \in Seq(Char) : Undoubled(Append(Append(v, "quote"), "quote"))
                               = {Append(t, "quote") : t \in Undoubled(v)}
    /\ \A w \in Seq(Char) : ~CouldClose(w) => Undoubled(Append(w, "quote")) = {}
    /\ Undoubled(<<>>) = {<<>>}
<1>1. "quote" \in Char
  BY DEF Char
<1>2. ASSUME NEW w \in Seq(Char), NEW t \in Undoubled(Append(w, "quote"))
      PROVE  \E u \in Seq(Char) : t = Append(u, "quote") /\ w = Append(Doubled(u), "quote")
  <2>1. t \in Seq(Char) /\ Doubled(t) = Append(w, "quote") /\ t # <<>>
    BY <1>1, DoubledIs, LastIs DEF Undoubled
  <2>2. PICK u \in Seq(Char), d \in Char : t = Append(u, d)
    BY <2>1, LastIs
  <2>3. Doubled(u) \in Seq(Char) /\ Doubled(t) = Doubled(u) \o Written(d)
    BY <2>2, DoubledIs, DoubledType
  <2>4. CASE d # "quote"
    <3>1. Append(Doubled(u), d) = Append(w, "quote")
      BY <2>1, <2>3, <2>4, WrittenType
    <3>. QED
      BY <1>1, <2>3, <2>4, <3>1, LastIs
  <2>5. CASE d = "quote"
    <3>1. Append(Append(Doubled(u), "quote"), "quote") = Append(w, "quote")
      BY <2>1, <2>3, <2>5, WrittenType
    <3>2. Append(Doubled(u), "quote") \in Seq(Char)
      BY <1>1, <2>3
    <3>3. Append(Doubled(u), "quote") = w
      <4>. DEFINE x == Append(Doubled(u), "quote")
      <4>1. Append(x, "quote") = Append(w, "quote") /\ x \in Seq(Char)
        BY <3>1, <3>2
      <4>. HIDE DEF x
      <4>2. x = w
        BY <1>1, <4>1, SameBeforeLast
      <4>. QED
        BY <4>2 DEF x
    <3>. QED
      BY <2>2, <2>5, <3>3
  <2>. QED
    BY <2>4, <2>5
<1>3. ASSUME NEW v \in Seq(Char)
      PROVE  Undoubled(Append(Append(v, "quote"), "quote"))
                = {Append(t, "quote") : t \in Undoubled(v)}
  <2>1. Append(v, "quote") \in Seq(Char)
    BY <1>1
  <2>2. ASSUME NEW t \in Undoubled(v)
        PROVE  Append(t, "quote") \in Undoubled(Append(Append(v, "quote"), "quote"))
    <3>1. t \in Seq(Char) /\ Doubled(t) = v /\ Append(t, "quote") \in Seq(Char)
      BY <1>1, LastIs DEF Undoubled
    <3>2. Doubled(Append(t, "quote")) = Append(Append(v, "quote"), "quote")
      BY <1>1, <3>1, DoubledIs, WrittenType
    <3>. QED
      BY <3>1, <3>2 DEF Undoubled
  <2>3. ASSUME NEW t \in Undoubled(Append(Append(v, "quote"), "quote"))
        PROVE  \E u \in Undoubled(v) : t = Append(u, "quote")
    <3>1. PICK u \in Seq(Char) : t = Append(u, "quote")
                                 /\ Append(v, "quote") = Append(Doubled(u), "quote")
      BY <1>2, <2>1
    <3>2. Doubled(u) \in Seq(Char)
      BY DoubledType
    <3>3. v = Doubled(u)
      <4>. DEFINE x == Doubled(u)
      <4>1. Append(v, "quote") = Append(x, "quote") /\ x \in Seq(Char)
        BY <3>1, <3>2
      <4>. HIDE DEF x
      <4>2. v = x
        BY <1>1, <4>1, SameBeforeLast
      <4>. QED
        BY <4>2 DEF x
    <3>. QED
      BY <3>1, <3>3 DEF Undoubled
  <2>. QED
    BY <2>2, <2>3
<1>4. ASSUME NEW w \in Seq(Char), ~CouldClose(w)
      PROVE  Undoubled(Append(w, "quote")) = {}
  <2>1. ASSUME NEW t \in Undoubled(Append(w, "quote"))
        PROVE  FALSE
    <3>1. PICK u \in Seq(Char) : w = Append(Doubled(u), "quote")
      BY <1>2
    <3>2. Doubled(u) \in Seq(Char) /\ u \in Undoubled(Doubled(u))
      BY DoubledType DEF Undoubled
    <3>. QED
      BY <1>4, <3>1, <3>2 DEF CouldClose
  <2>. QED
    BY <2>1
<1>5. Undoubled(<<>>) = {<<>>}
  <2>1. ASSUME NEW t \in Seq(Char), Doubled(t) = <<>>
        PROVE  t = <<>>
    <3>1. Len(t) = 0
      BY <2>1, DoubledType
    <3>. QED
      BY <3>1
  <2>2. <<>> \in Seq(Char)
    OBVIOUS
  <2>. QED
    BY <2>1, <2>2, DoubledIs DEF Undoubled
<1>. QED
  BY <1>3, <1>4, <1>5

\* What stands behind an opening quote, w, is the writing of t so far, which is still
\* open; is that of t and a quote that closes it, unless another one follows; or is, and
\* remains, no writing at all.
Inside(w, t) == Undoubled(w) = {t} /\ ~CouldClose(w)
Behind(w, t) == Undoubled(w) = {} /\ \E v \in Seq(Char) : w = Append(v, "quote")
                                                          /\ Undoubled(v) = {t}
Lost(w) == Undoubled(w) = {} /\ ~CouldClose(w)

\* One character more closes a field if it is a quote behind an open text.
LEMMA CouldCloseIs ==
    /\ ~CouldClose(<<>>)
    /\ \A w \in Seq(Char), c \in Char :
          CouldClose(Append(w, c)) <=> c = "quote" /\ Undoubled(w) # {}
<1>1. "quote" \in Char
  BY DEF Char
<1>2. ~CouldClose(<<>>)
  BY <1>1, LastIs DEF CouldClose
<1>3. ASSUME NEW w \in Seq(Char), NEW c \in Char, CouldClose(Append(w, c))
      PROVE  c = "quote" /\ Undoubled(w) # {}
  <2>1. PICK v \in Seq(Char) : Append(w, c) = Append(v, "quote") /\ Undoubled(v) # {}
    BY <1>3 DEF CouldClose
  <2>2. w = v /\ c = "quote"
    BY <1>1, <2>1, LastIs
  <2>. QED
    BY <2>1, <2>2
<1>4. ASSUME NEW w \in Seq(Char), Undoubled(w) # {}
      PROVE  CouldClose(Append(w, "quote"))
  BY <1>4 DEF CouldClose
<1>. QED
  BY <1>2, <1>3, <1>4

\* How what stands behind an opening quote grows.
LEMMA QuotedGrows ==
    ASSUME NEW w \in Seq(Char), NEW c \in Char, NEW t \in Seq(Char)
    PROVE  /\ Inside(<<>>, <<>>)
           /\ Inside(w, t) /\ c # "quote" => Inside(Append(w, c), Append(t, c))
           /\ Inside(w, t) => Behind(Append(w, "quote"), t)
           /\ Behind(w, t) => Inside(Append(w, "quote"), Append(t, "quote"))
           /\ Behind(w, t) /\ c # "quote" => Lost(Append(w, c))
           /\ Lost(w) => Lost(Append(w, c))
<1>1. "quote" \in Char
  BY DEF Char
<1>2. Inside(<<>>, <<>>)
  BY UndoubledQuote, CouldCloseIs DEF Inside
<1>3. ASSUME Inside(w, t), c # "quote"
      PROVE  Inside(Append(w, c), Append(t, c))
  <2>1. Undoubled(Append(w, c)) = {Append(u, c) : u \in Undoubled(w)}
    BY <1>3, UndoubledOther
  <2>2. Undoubled(Append(w, c)) = {Append(t, c)}
    BY <1>3, <2>1 DEF Inside
  <2>3. ~CouldClose(Append(w, c))
    BY <1>3, CouldCloseIs
  <2>. QED
    BY <2>2, <2>3 DEF Inside
<1>4. ASSUME Inside(w, t)
      PROVE  Behind(Append(w, "quote"), t)
  <2>1. Undoubled(Append(w, "quote")) = {}
    BY <1>4, UndoubledQuote DEF Inside
  <2>. QED
    BY <1>4, <2>1 DEF Inside, Behind
<1>5. ASSUME Behind(w, t)
      PROVE  Inside(Append(w, "quote"), Append(t, "quote"))
  <2>1. PICK v \in Seq(Char) : w = Append(v, "quote") /\ Undoubled(v) = {t}
    BY <1>5 DEF Behind
  <2>2. Undoubled(Append(Append(v, "quote"), "quote")) = {Append(u, "quote") : u \in Undoubled(v)}
    BY UndoubledQuote
  <2>3. Undoubled(Append(w, "quote")) = {Append(t, "quote")}
    BY <2>1, <2>2
  <2>4. ~CouldClose(Append(w, "quote"))
    BY <1>1, <1>5, CouldCloseIs DEF Behind
  <2>. QED
    BY <2>3, <2>4 DEF Inside
<1>6. ASSUME Undoubled(w) = {}, c # "quote" \/ ~CouldClose(w)
      PROVE  Lost(Append(w, c))
  <2>1. Undoubled(Append(w, c)) = {}
    <3>1. CASE c # "quote"
      <4>1. Undoubled(Append(w, c)) = {Append(u, c) : u \in Undoubled(w)}
        BY <3>1, UndoubledOther
      <4>. QED
        BY <1>6, <4>1
    <3>2. CASE c = "quote"
      BY <1>6, <3>2, UndoubledQuote
    <3>. QED
      BY <3>1, <3>2
  <2>2. ~CouldClose(Append(w, c))
    BY <1>6, CouldCloseIs
  <2>. QED
    BY <2>1, <2>2 DEF Lost
<1>7. Behind(w, t) /\ c # "quote" => Lost(Append(w, c))
  BY <1>6 DEF Behind
<1>8. Lost(w) => Lost(Append(w, c))
  BY <1>6 DEF Lost
<1>. QED
  BY <1>2, <1>3, <1>4, <1>5, <1>7, <1>8

-----------------------------------------------------------------------------
(* What the scanner knows of the piece it is in. *)

Opens(p) == p # <<>> /\ p[1] = "quote"
HasDelim(p) == \E i \in DOMAIN p : p[i] = "delim"

\* No text is written p, nor anything that begins with p.
Hopeless(p) == IF Opens(p) THEN Lost(Tail(p)) ELSE HasDelim(p)

\* In state s the scanner has read p since the last cut.
Knows(s, p) ==
    /\ s.mode = "start" => p = <<>> /\ s.field = <<>>
    /\ s.mode = "bare" => p # <<>> /\ ~Opens(p) /\ ~HasDelim(p) /\ s.field = p
    /\ s.mode = "quoted" => Opens(p) /\ Inside(Tail(p), s.field)
    /\ s.mode = "closed" => Opens(p) /\ Behind(Tail(p), s.field)
    /\ s.mode = "error" => Hopeless(p)

\* A piece that is one character longer.
LEMMA PieceGrows ==
    ASSUME NEW p \in Seq(Char), NEW c \in Char
    PROVE  /\ Append(p, c) \in Seq(Char) /\ Append(p, c) # <<>>
           /\ p # <<>> => /\ Opens(Append(p, c)) <=> Opens(p)
                          /\ Tail(p) \in Seq(Char)
                          /\ Tail(Append(p, c)) = Append(Tail(p), c)
           /\ p = <<>> => /\ Opens(Append(p, c)) <=> c = "quote"
                          /\ Tail(Append(p, c)) = <<>>
           /\ HasDelim(Append(p, c)) <=> HasDelim(p) \/ c = "delim"
<1>1. /\ Append(p, c) \in Seq(Char) /\ Append(p, c) # <<>> /\ Len(p) \in Nat
      /\ DOMAIN p = 1 .. Len(p) /\ DOMAIN Append(p, c) = 1 .. Len(p) + 1
      /\ \A i \in 1 .. Len(p) : Append(p, c)[i] = p[i]
      /\ Append(p, c)[Len(p) + 1] = c
  OBVIOUS
<1>2. ASSUME p # <<>>
      PROVE  Tail(p) \in Seq(Char) /\ Tail(Append(p, c)) = Append(Tail(p), c)
                /\ (Opens(Append(p, c)) <=> Opens(p))
  <2>1. Len(p) >= 1
    BY <1>2
  <2>2. Tail(p) \in Seq(Char) /\ Len(Tail(p)) = Len(p) - 1
    BY <1>2, <2>1
  <2>3. \A i \in 1 .. Len(p) - 1 : Tail(p)[i] = p[i + 1]
    BY <1>2, <2>1
  <2>4. /\ Tail(Append(p, c)) \in Seq(Char) /\ Len(Tail(Append(p, c))) = Len(p)
        /\ \A i \in 1 .. Len(p) : Tail(Append(p, c))[i] = Append(p, c)[i + 1]
    <3>. DEFINE q == Append(p, c)
    <3>1. q \in Seq(Char) /\ q # <<>> /\ Len(q) = Len(p) + 1
      BY <1>1
    <3>. HIDE DEF q
    <3>2. Tail(q) \in Seq(Char) /\ Len(Tail(q)) = Len(p)
          /\ \A i \in 1 .. Len(p) : Tail(q)[i] = q[i + 1]
      BY <1>1, <3>1
    <3>. QED
      BY <3>2 DEF q
  <2>5. /\ Append(Tail(p), c) \in Seq(Char) /\ Len(Append(Tail(p), c)) = Len(p)
        /\ \A i \in 1 .. Len(p) - 1 : Append(Tail(p), c)[i] = p[i + 1]
        /\ Append(Tail(p), c)[Len(p)] = c
    <3>. DEFINE q == Tail(p)
    <3>1. q \in Seq(Char) /\ Len(q) = Len(p) - 1 /\ \A i \in 1 .. Len(p) - 1 : q[i] = p[i + 1]
      BY <2>2, <2>3
    <3>. HIDE DEF q
    <3>2. /\ Append(q, c) \in Seq(Char) /\ Len(Append(q, c)) = Len(q) + 1
          /\ \A i \in 1 .. Len(q) : Append(q, c)[i] = q[i]
          /\ Append(q, c)[Len(q) + 1] = c
      BY <3>1, AppendProperties
    <3>3. Len(q) + 1 = Len(p) /\ 1 .. Len(q) = 1 .. Len(p) - 1
      BY <1>1, <3>1
    <3>. QED
      BY <3>1, <3>2, <3>3 DEF q
  <2>6. ASSUME NEW i \in 1 .. Len(p)
        PROVE  Tail(Append(p, c))[i] = Append(Tail(p), c)[i]
    <3>1. CASE i = Len(p)
      BY <1>1, <2>4, <2>5, <3>1
    <3>2. CASE i # Len(p)
      <4>1. i \in 1 .. Len(p) - 1 /\ i + 1 \in 1 .. Len(p)
        <5>1. \A m \in Nat : \A j \in 1 .. m : j # m => j \in 1 .. m - 1 /\ j + 1 \in 1 .. m
          OBVIOUS
        <5>2. Len(p) \in Nat
          BY <1>1
        <5>. QED
          BY <3>2, <5>1, <5>2
      <4>2. Tail(Append(p, c))[i] = p[i + 1]
        <5>1. Tail(Append(p, c))[i] = Append(p, c)[i + 1]
          BY <2>4
        <5>2. Append(p, c)[i + 1] = p[i + 1]
          BY <1>1, <4>1
        <5>. QED
          BY <5>1, <5>2
      <4>3. Append(Tail(p), c)[i] = p[i + 1]
        BY <2>5, <4>1
      <4>. QED
        BY <4>2, <4>3
    <3>. QED
      BY <3>1, <3>2
  <2>7. Tail(Append(p, c)) = Append(Tail(p), c)
    BY <2>4, <2>5, <2>6, SeqEqual
  <2>8. Append(p, c)[1] = p[1]
    BY <1>1, <2>1
  <2>. QED
    BY <1>1, <1>2, <2>2, <2>7, <2>8 DEF Opens
<1>3. ASSUME p = <<>>
      PROVE  Tail(Append(p, c)) = <<>> /\ (Opens(Append(p, c)) <=> c = "quote")
  <2>1. Append(p, c) = <<c>>
    BY <1>3
  <2>. QED
    BY <2>1 DEF Opens
<1>4. HasDelim(Append(p, c)) <=> HasDelim(p) \/ c = "delim"
  <2>1. \A i \in 1 .. Len(p) + 1 : i \in 1 .. Len(p) \/ i = Len(p) + 1
    BY <1>1
  <2>2. Len(p) + 1 \in 1 .. Len(p) + 1 /\ \A i \in 1 .. Len(p) : i \in 1 .. Len(p) + 1
    BY <1>1
  <2>. QED
    BY <1>1, <2>1, <2>2 DEF HasDelim
<1>. QED
  BY <1>1, <1>2, <1>3, <1>4

\* What is hopeless remains so.
LEMMA HopelessStays ==
    ASSUME NEW p \in Seq(Char), NEW c \in Char, Hopeless(p)
    PROVE  Hopeless(Append(p, c))
<1>1. p # <<>>
  BY DEF Hopeless, Opens, HasDelim
<1>2. CASE Opens(p)
  <2>1. Tail(p) \in Seq(Char) /\ Lost(Tail(p))
    BY <1>1, <1>2, PieceGrows DEF Hopeless
  <2>2. <<>> \in Seq(Char)
    OBVIOUS
  <2>3. Lost(Append(Tail(p), c))
    BY <2>1, <2>2, QuotedGrows
  <2>. QED
    BY <1>1, <1>2, <2>3, PieceGrows DEF Hopeless
<1>3. CASE ~Opens(p)
  BY <1>1, <1>3, PieceGrows DEF Hopeless
<1>. QED
  BY <1>2, <1>3

\* In state s, c ends a field.
Cuts(s, c) == c = "delim" /\ s.mode \in {"start", "bare", "closed"}

\* A character that ends no field: the scanner knows the longer piece.
LEMMA ScanGrows ==
    ASSUME NEW s \in ScanStates, NEW c \in Char, NEW p \in Seq(Char), Knows(s, p), ~Cuts(s, c)
    PROVE  Knows(Scan(s, c), Append(p, c)) /\ Scan(s, c).fields = s.fields
<1>1. s.mode \in Modes /\ s.field \in Seq(Char)
  BY DEF ScanStates
<1>2. <<>> \in Seq(Char)
  OBVIOUS
<1>3. /\ p # <<>> => /\ Opens(Append(p, c)) <=> Opens(p)
                     /\ Tail(p) \in Seq(Char)
                     /\ Tail(Append(p, c)) = Append(Tail(p), c)
      /\ p = <<>> => /\ Opens(Append(p, c)) <=> c = "quote"
                     /\ Tail(Append(p, c)) = <<>>
      /\ HasDelim(Append(p, c)) <=> HasDelim(p) \/ c = "delim"
      /\ Append(p, c) # <<>>
      /\ Opens(p) => p # <<>>
  BY PieceGrows DEF Opens
<1>4. CASE s.mode = "start"
  <2>1. p = <<>> /\ s.field = <<>> /\ c # "delim" /\ ~HasDelim(p)
    BY <1>4 DEF Knows, Cuts, HasDelim
  <2>2. CASE c = "quote"
    <3>1. Scan(s, c).mode = "quoted" /\ Scan(s, c).field = <<>> /\ Scan(s, c).fields = s.fields
      BY <1>4, <2>1, <2>2 DEF Scan, ScanStates
    <3>2. Inside(<<>>, <<>>)
      BY <1>2, QuotedGrows
    <3>. QED
      BY <1>3, <2>1, <2>2, <3>1, <3>2 DEF Knows
  <2>3. CASE c # "quote"
    <3>1. /\ Scan(s, c).mode = "bare" /\ Scan(s, c).field = Append(s.field, c)
          /\ Scan(s, c).fields = s.fields
      BY <1>4, <2>1, <2>3 DEF Scan, ScanStates
    <3>. QED
      BY <1>3, <2>1, <2>3, <3>1 DEF Knows
  <2>. QED
    BY <2>2, <2>3
<1>5. CASE s.mode = "bare"
  <2>1. c # "delim"
    BY <1>5 DEF Cuts
  <2>2. /\ Scan(s, c).mode = "bare" /\ Scan(s, c).field = Append(s.field, c)
        /\ Scan(s, c).fields = s.fields
    BY <1>5, <2>1 DEF Scan, ScanStates
  <2>. QED
    BY <1>3, <1>5, <2>1, <2>2 DEF Knows
<1>6. CASE s.mode = "quoted"
  <2>1. Opens(p) /\ Inside(Tail(p), s.field) /\ Tail(p) \in Seq(Char)
    BY <1>3, <1>6 DEF Knows
  <2>2. CASE c = "quote"
    <3>1. Scan(s, c).mode = "closed" /\ Scan(s, c).field = s.field /\ Scan(s, c).fields = s.fields
      BY <1>6, <2>2 DEF Scan, ScanStates
    <3>2. Behind(Append(Tail(p), c), s.field)
      BY <1>1, <2>1, <2>2, QuotedGrows
    <3>. QED
      BY <1>3, <2>1, <3>1, <3>2 DEF Knows
  <2>3. CASE c # "quote"
    <3>1. /\ Scan(s, c).mode = "quoted" /\ Scan(s, c).field = Append(s.field, c)
          /\ Scan(s, c).fields = s.fields
      BY <1>6, <2>3 DEF Scan, ScanStates
    <3>2. Inside(Append(Tail(p), c), Append(s.field, c))
      BY <1>1, <2>1, <2>3, QuotedGrows
    <3>. QED
      BY <1>3, <2>1, <3>1, <3>2 DEF Knows
  <2>. QED
    BY <2>2, <2>3
<1>7. CASE s.mode = "closed"
  <2>1. Opens(p) /\ Behind(Tail(p), s.field) /\ Tail(p) \in Seq(Char) /\ c # "delim"
    BY <1>3, <1>7 DEF Knows, Cuts
  <2>2. CASE c = "quote"
    <3>1. /\ Scan(s, c).mode = "quoted" /\ Scan(s, c).field = Append(s.field, c)
          /\ Scan(s, c).fields = s.fields
      BY <1>7, <2>2 DEF Scan, ScanStates
    <3>2. Inside(Append(Tail(p), c), Append(s.field, c))
      BY <1>1, <2>1, <2>2, QuotedGrows
    <3>. QED
      BY <1>3, <2>1, <3>1, <3>2 DEF Knows
  <2>3. CASE c # "quote"
    <3>1. Scan(s, c).mode = "error" /\ Scan(s, c).fields = s.fields
      BY <1>7, <2>1, <2>3 DEF Scan, ScanStates
    <3>2. Lost(Append(Tail(p), c))
      BY <1>1, <2>1, <2>3, QuotedGrows
    <3>. QED
      BY <1>3, <2>1, <3>1, <3>2 DEF Knows, Hopeless
  <2>. QED
    BY <2>2, <2>3
<1>8. CASE s.mode = "error"
  <2>1. Scan(s, c).mode = "error" /\ Scan(s, c).fields = s.fields
    BY <1>8 DEF Scan, ScanStates
  <2>2. Hopeless(Append(p, c))
    BY <1>8, HopelessStays DEF Knows
  <2>. QED
    BY <2>1, <2>2 DEF Knows
<1>. QED
  BY <1>1, <1>4, <1>5, <1>6, <1>7, <1>8 DEF Modes

\* A delimiter that ends a field: no later piece begins with the one that is cut.
LEMMA ScanCuts ==
    ASSUME NEW s \in ScanStates, NEW c \in Char, NEW p \in Seq(Char), Knows(s, p), Cuts(s, c)
    PROVE  /\ Hopeless(Append(p, c))
           /\ Knows(Scan(s, c), <<>>) /\ Scan(s, c).fields = Append(s.fields, s.field)
<1>1. c = "delim" /\ s.field \in Seq(Char)
  BY DEF Cuts, ScanStates
<1>2. Scan(s, c) = [mode |-> "start", fields |-> Append(s.fields, s.field), field |-> <<>>]
  BY DEF Scan, Cuts
<1>3. Hopeless(Append(p, c))
  <2>1. CASE s.mode = "start"
    <3>1. ~Opens(Append(p, c)) /\ HasDelim(Append(p, c))
      BY <1>1, <2>1, PieceGrows DEF Knows
    <3>. QED
      BY <3>1 DEF Hopeless
  <2>2. CASE s.mode = "bare"
    <3>1. ~Opens(Append(p, c)) /\ HasDelim(Append(p, c))
      BY <1>1, <2>2, PieceGrows DEF Knows
    <3>. QED
      BY <3>1 DEF Hopeless
  <2>3. CASE s.mode = "closed"
    <3>1. Opens(p) /\ p # <<>> /\ Behind(Tail(p), s.field)
      BY <2>3 DEF Knows, Opens
    <3>2. Tail(p) \in Seq(Char)
      BY <3>1, PieceGrows
    <3>3. Lost(Append(Tail(p), c))
      BY <1>1, <3>1, <3>2, QuotedGrows
    <3>. QED
      BY <3>1, <3>3, PieceGrows DEF Hopeless
  <2>. QED
    BY <2>1, <2>2, <2>3 DEF Cuts
<1>. QED
  BY <1>2, <1>3 DEF Knows

-----------------------------------------------------------------------------
(* What a piece stands for. *)

\* The texts of bounded length.
LEMMA TextsUpTo ==
    ASSUME NEW n \in Nat
    PROVE  /\ \A t \in Texts(n) : t \in Seq(Char)
           /\ \A t \in Seq(Char) : Len(t) <= n => t \in Texts(n)
<1>1. ASSUME NEW t \in Texts(n)
      PROVE  t \in Seq(Char)
  <2>1. PICK m \in 0 .. n : t \in [1 .. m -> Char]
    BY DEF Texts
  <2>. QED
    BY <2>1
<1>2. ASSUME NEW t \in Seq(Char), Len(t) <= n
      PROVE  t \in Texts(n)
  <2>1. Len(t) \in 0 .. n /\ t \in [1 .. Len(t) -> Char]
    BY <1>2
  <2>. QED
    BY <2>1 DEF Texts
<1>. QED
  BY <1>1, <1>2

\* A piece that begins and ends with a quote has between them what stands behind the
\* first, but for the last.
LEMMA BetweenQuotes ==
    ASSUME NEW p \in Seq(Char), Opens(p)
    PROVE  LET n == Len(p)
           IN /\ n >= 2 /\ p[n] = "quote" =>
                    /\ SubSeq(p, 2, n - 1) \in Seq(Char) /\ Len(SubSeq(p, 2, n - 1)) = n - 2
                    /\ Tail(p) = Append(SubSeq(p, 2, n - 1), "quote")
              /\ (\E v \in Seq(Char) : Tail(p) = Append(v, "quote")) => n >= 2 /\ p[n] = "quote"
<1>. DEFINE n == Len(p)
            w == Tail(p)
            v == SubSeq(p, 2, n - 1)
<1>1. /\ n \in Nat /\ n >= 1 /\ w \in Seq(Char) /\ Len(w) = n - 1
      /\ \A i \in 1 .. n - 1 : w[i] = p[i + 1]
      /\ \A i \in 1 .. n : p[i] \in Char
  BY DEF Opens
<1>2. ASSUME n >= 2, p[n] = "quote"
      PROVE  v \in Seq(Char) /\ Len(v) = n - 2 /\ w = Append(v, "quote")
  <2>1. "quote" \in Char
    BY DEF Char
  <2>2. v \in Seq(Char) /\ Len(v) = n - 2 /\ \A i \in 1 .. n - 2 : v[i] = p[i + 1]
    <3>1. 2 \in Int /\ n - 1 \in Int /\ \A i \in 2 .. n - 1 : p[i] \in Char
      BY <1>1
    <3>2. v \in Seq(Char) /\ Len(v) = (IF 2 <= n - 1 THEN (n - 1) - 2 + 1 ELSE 0)
          /\ \A i \in 1 .. (n - 1) - 2 + 1 : v[i] = p[2 + i - 1]
      <4>. HIDE DEF n
      <4>. QED
        BY <3>1, SubSeqProperties
    <3>3. (IF 2 <= n - 1 THEN (n - 1) - 2 + 1 ELSE 0) = n - 2 /\ (n - 1) - 2 + 1 = n - 2
      <4>. HIDE DEF n
      <4>. QED
        BY <1>1, <1>2
    <3>4. \A i \in 1 .. n - 2 : 2 + i - 1 = i + 1
      OBVIOUS
    <3>. HIDE DEF v, n
    <3>. QED
      BY <3>2, <3>3, <3>4
  <2>. HIDE DEF v, w, n
  <2>3. /\ Append(v, "quote") \in Seq(Char) /\ Len(Append(v, "quote")) = Len(v) + 1
        /\ \A i \in 1 .. Len(v) : Append(v, "quote")[i] = v[i]
        /\ Append(v, "quote")[Len(v) + 1] = "quote"
    BY <2>1, <2>2, AppendProperties
  <2>4. Len(v) + 1 = n - 1 /\ (n - 1) + 1 = n
    BY <1>1, <2>2
  <2>5. ASSUME NEW i \in 1 .. n - 1
        PROVE  w[i] = Append(v, "quote")[i]
    <3>1. CASE i = n - 1
      <4>1. w[i] = p[n]
        BY <1>1, <2>4, <3>1
      <4>. QED
        BY <1>2, <2>3, <2>4, <3>1, <4>1
    <3>2. CASE i # n - 1
      <4>1. i \in 1 .. n - 2
        BY <1>1, <3>2
      <4>. QED
        BY <1>1, <2>2, <2>3, <4>1
    <3>. QED
      BY <3>1, <3>2
  <2>6. w = Append(v, "quote")
    BY <1>1, <2>3, <2>4, <2>5, SeqEqual
  <2>. QED
    BY <2>2, <2>6
<1>3. ASSUME NEW u \in Seq(Char), w = Append(u, "quote")
      PROVE  n >= 2 /\ p[n] = "quote"
  <2>1. "quote" \in Char
    BY DEF Char
  <2>2. Len(u) \in Nat
    OBVIOUS
  <2>. HIDE DEF v, w, n
  <2>3. Len(w) = Len(u) + 1 /\ w[Len(u) + 1] = "quote"
    BY <1>3, <2>1, AppendProperties
  <2>4. n - 1 = Len(u) + 1 /\ n - 1 \in 1 .. n - 1 /\ (n - 1) + 1 = n /\ n >= 2
    BY <1>1, <2>2, <2>3
  <2>. QED
    BY <1>1, <2>3, <2>4
<1>. HIDE DEF v, w
<1>. QED
  BY <1>2, <1>3 DEF v, w

\* A piece is bare, or stands for what is written between its quotes.
LEMMA TextsAre ==
    ASSUME quoteAware, NEW p \in Seq(Char)
    PROVE  /\ ~Opens(p) => TextsOf(p) = IF HasDelim(p) THEN {} ELSE {p}
           /\ Opens(p) => /\ \A v \in Seq(Char) : Tail(p) = Append(v, "quote")
                                                  => TextsOf(p) = Undoubled(v)
                          /\ (\A v \in Seq(Char) : Tail(p) # Append(v, "quote"))
                             => TextsOf(p) = {}
<1>. DEFINE n == Len(p)
            bare == (\A i \in DOMAIN p : p[i] # "delim") /\ (n > 0 => p[1] # "quote")
            closed == n >= 2 /\ p[1] = "quote" /\ p[n] = "quote"
            inner == SubSeq(p, 2, n - 1)
<1>1. TextsOf(p) = (IF bare THEN {p} ELSE {})
                   \cup (IF closed THEN {t \in Texts(n - 2) : Doubled(t) = inner} ELSE {})
  BY DEF TextsOf
<1>2. n \in Nat /\ (n > 0 <=> p # <<>>)
  OBVIOUS
<1>3. ~Opens(p) => (bare <=> ~HasDelim(p)) /\ ~closed
  BY <1>2 DEF Opens, HasDelim
<1>4. Opens(p) => ~bare
  BY <1>2 DEF Opens
<1>5. ASSUME Opens(p), closed
      PROVE  /\ Tail(p) = Append(inner, "quote") /\ inner \in Seq(Char)
             /\ TextsOf(p) = Undoubled(inner)
  <2>1. inner \in Seq(Char) /\ Len(inner) = n - 2 /\ Tail(p) = Append(inner, "quote")
    BY <1>5, BetweenQuotes
  <2>2. n - 2 \in Nat
    BY <1>2, <1>5
  <2>. HIDE DEF inner, n, bare, closed
  <2>3. TextsOf(p) = {t \in Texts(n - 2) : Doubled(t) = inner}
    BY <1>1, <1>4, <1>5
  <2>4. ASSUME NEW t \in Seq(Char), Doubled(t) = inner
        PROVE  t \in Texts(n - 2)
    <3>1. n - 2 >= Len(t)
      BY <2>1, <2>4, DoubledType
    <3>2. Len(t) <= n - 2
      <4>1. \A x, y \in Int : x >= y => y <= x
        OBVIOUS
      <4>2. Len(t) \in Int /\ n - 2 \in Int
        BY <2>2
      <4>. QED
        BY <3>1, <4>1, <4>2
    <3>. QED
      BY <2>2, <3>2, TextsUpTo
  <2>5. \A t \in Texts(n - 2) : t \in Seq(Char)
    BY <2>2, TextsUpTo
  <2>. QED
    BY <2>1, <2>3, <2>4, <2>5 DEF Undoubled
<1>6. ASSUME Opens(p), ~closed
      PROVE  TextsOf(p) = {} /\ \A v \in Seq(Char) : Tail(p) # Append(v, "quote")
  <2>1. \A v \in Seq(Char) : Tail(p) # Append(v, "quote")
    BY <1>6, BetweenQuotes DEF Opens
  <2>. HIDE DEF bare, closed
  <2>. QED
    BY <1>1, <1>4, <1>6, <2>1
<1>7. ASSUME ~Opens(p)
      PROVE  TextsOf(p) = IF HasDelim(p) THEN {} ELSE {p}
  <2>. HIDE DEF bare, closed, inner
  <2>. QED
    BY <1>1, <1>3, <1>7
<1>8. ASSUME Opens(p), NEW v \in Seq(Char), Tail(p) = Append(v, "quote")
      PROVE  TextsOf(p) = Undoubled(v)
  <2>. HIDE DEF bare, closed, inner
  <2>1. Tail(p) = Append(inner, "quote") /\ inner \in Seq(Char) /\ TextsOf(p) = Undoubled(inner)
    BY <1>5, <1>6, <1>8
  <2>2. "quote" \in Char
    BY DEF Char
  <2>3. inner = v
    BY <1>8, <2>1, <2>2, SameBeforeLast
  <2>. QED
    BY <2>1, <2>3
<1>9. ASSUME Opens(p), \A v \in Seq(Char) : Tail(p) # Append(v, "quote")
      PROVE  TextsOf(p) = {}
  <2>. HIDE DEF bare, closed, inner
  <2>. QED
    BY <1>5, <1>6, <1>9
<1>. QED
  BY <1>7, <1>8, <1>9

\* A hopeless piece stands for no text ...
LEMMA HopelessTexts ==
    ASSUME quoteAware, NEW p \in Seq(Char), Hopeless(p)
    PROVE  TextsOf(p) = {}
<1>1. CASE Opens(p)
  <2>1. ASSUME NEW v \in Seq(Char), Tail(p) = Append(v, "quote")
        PROVE  Undoubled(v) = {}
    BY <1>1, <2>1 DEF Hopeless, Lost, CouldClose
  <2>. QED
    BY <1>1, <2>1, TextsAre
<1>2. CASE ~Opens(p)
  BY <1>2, TextsAre DEF Hopeless
<1>. QED
  BY <1>1, <1>2

\* ... and the one the scanner is in for the field it has, unless that is still open or
\* cannot be read.
LEMMA KnownTexts ==
    ASSUME quoteAware, NEW s \in ScanStates, NEW p \in Seq(Char), Knows(s, p)
    PROVE  TextsOf(p) = IF s.mode \in {"quoted", "error"} THEN {} ELSE {s.field}
<1>1. s.mode \in Modes
  BY DEF ScanStates
<1>2. CASE s.mode = "start"
  <2>1. p = <<>> /\ s.field = <<>>
    BY <1>2 DEF Knows
  <2>2. ~Opens(p) /\ ~HasDelim(p)
    BY <2>1 DEF Opens, HasDelim
  <2>. QED
    BY <1>2, <2>1, <2>2, TextsAre
<1>3. CASE s.mode = "bare"
  BY <1>3, TextsAre DEF Knows
<1>4. CASE s.mode = "quoted"
  <2>1. Opens(p) /\ Inside(Tail(p), s.field)
    BY <1>4 DEF Knows
  <2>2. ASSUME NEW v \in Seq(Char), Tail(p) = Append(v, "quote")
        PROVE  Undoubled(v) = {}
    BY <2>1, <2>2 DEF Inside, CouldClose
  <2>. QED
    BY <1>4, <2>1, <2>2, TextsAre
<1>5. CASE s.mode = "closed"
  <2>1. Opens(p) /\ Behind(Tail(p), s.field)
    BY <1>5 DEF Knows
  <2>2. PICK v \in Seq(Char) : Tail(p) = Append(v, "quote") /\ Undoubled(v) = {s.field}
    BY <2>1 DEF Behind
  <2>. QED
    BY <1>5, <2>1, <2>2, TextsAre
<1>6. CASE s.mode = "error"
  BY <1>6, HopelessTexts DEF Knows
<1>. QED
  BY <1>1, <1>2, <1>3, <1>4, <1>5, <1>6 DEF Modes

\* A piece stands for texts.
LEMMA TextsType ==
    ASSUME NEW p \in Seq(Char)
    PROVE  TextsOf(p) \subseteq Seq(Char)
<1>1. Len(p) \in Nat
  OBVIOUS
<1>2. ASSUME NEW t \in TextsOf(p)
      PROVE  t = p \/ (Len(p) >= 2 /\ t \in Texts(Len(p) - 2))
  BY <1>2 DEF TextsOf
<1>3. Len(p) >= 2 => Len(p) - 2 \in Nat
  BY <1>1
<1>. QED
  BY <1>2, <1>3, TextsUpTo

-----------------------------------------------------------------------------
(* What a line stands for. *)

\* Where the last piece of the first n characters may begin.
CutPoints(line, n) == {c \in 0 .. n : c > 0 => line[c] = "delim"}

\* The readings of what stands before the piece that begins at c, given those of the
\* shorter lines.
Heads(R, c) == IF c = 0 THEN {<<>>} ELSE R[c - 1]

Piece(line, c, n) == SubSeq(line, c + 1, n)

\* The readings of the first n characters whose last piece begins at c.
CutAt(R, line, c, n) == {Append(F, t) : F \in Heads(R, c), t \in TextsOf(Piece(line, c, n))}

\* R has the readings of the first n characters, for every n.
ReadingRun(R, line) ==
    \A n \in 0 .. Len(line) : R[n] = UNION {CutAt(R, line, c, n) : c \in CutPoints(line, n)}

\* Readings looks at one length of the line after the other.
LEMMA ReadingRuns ==
    ASSUME NEW line \in Seq(Char)
    PROVE  \E R : ReadingRun(R, line) /\ Readings(line) = R[Len(line)]
<1>. DEFINE N == Len(line)
            A == SUBSET Seq(Seq(Char))
            Rest(n, h) == UNION {CutAt(h, line, c, n) : c \in CutPoints(line, n)}
            G == [z \in (0 .. N) \X [0 .. N -> A] |-> Rest(z[1], z[2])]
            Of == CHOOSE f : f = [n \in 0 .. N |-> Rest(n, f)]
<1>0. N \in Nat
  OBVIOUS
<1>1. ASSUME NEW n \in 0 .. N, NEW h \in [0 .. N -> A]
      PROVE  Rest(n, h) \in A
  <2>1. ASSUME NEW c \in CutPoints(line, n), NEW F \in Heads(h, c),
               NEW t \in TextsOf(Piece(line, c, n))
        PROVE  Append(F, t) \in Seq(Seq(Char))
    <3>1. c \in 0 .. N /\ (c # 0 => c - 1 \in 0 .. N)
      BY <1>0 DEF CutPoints
    <3>2. F \in Seq(Seq(Char))
      <4>1. CASE c = 0
        <5>1. <<>> \in Seq(Seq(Char))
          OBVIOUS
        <5>. QED
          BY <4>1, <5>1 DEF Heads
      <4>2. CASE c # 0
        <5>1. h[c - 1] \in A
          BY <3>1, <4>2
        <5>. QED
          BY <4>2, <5>1 DEF Heads
      <4>. QED
        BY <4>1, <4>2
    <3>3. Piece(line, c, n) \in Seq(Char)
      <4>1. c + 1 \in Int /\ n \in Int /\ \A i \in c + 1 .. n : line[i] \in Char
        BY <3>1
      <4>. QED
        BY <4>1, SubSeqProperties DEF Piece
    <3>4. t \in Seq(Char)
      BY <3>3, TextsType
    <3>. QED
      BY <3>2, <3>4
  <2>2. ASSUME NEW c \in CutPoints(line, n), NEW x \in CutAt(h, line, c, n)
        PROVE  x \in Seq(Seq(Char))
    <3>1. PICK F \in Heads(h, c), t \in TextsOf(Piece(line, c, n)) : x = Append(F, t)
      BY DEF CutAt
    <3>2. Append(F, t) \in Seq(Seq(Char))
      BY <2>1
    <3>. QED
      BY <3>1, <3>2
  <2>. QED
    BY <2>2
<1>. HIDE DEF N
<1>2. ASSUME NEW n \in 0 .. N, NEW h \in [0 .. N -> A]
      PROVE  G[<<n, h>>] = Rest(n, h)
  <2>. HIDE DEF Rest, A
  <2>. QED
    OBVIOUS
<1>3. G \in [(0 .. N) \X [0 .. N -> A] -> A]
  <2>1. ASSUME NEW z \in (0 .. N) \X [0 .. N -> A]
        PROVE  Rest(z[1], z[2]) \in A
    <3>. HIDE DEF Rest, A
    <3>1. z[1] \in 0 .. N /\ z[2] \in [0 .. N -> A]
      OBVIOUS
    <3>. QED
      BY <1>1, <3>1
  <2>. HIDE DEF Rest, A
  <2>. QED
    BY <2>1
<1>4. ASSUME NEW n \in 0 .. N, NEW f, NEW h,
             \A j \in 0 .. n - 1 : f[j] = h[j]
      PROVE  Rest(n, f) = Rest(n, h)
  <2>1. ASSUME NEW c \in CutPoints(line, n)
        PROVE  CutAt(f, line, c, n) = CutAt(h, line, c, n)
    <3>1. Heads(f, c) = Heads(h, c)
      <4>1. c # 0 => c - 1 \in 0 .. n - 1
        BY <1>0 DEF CutPoints
      <4>. QED
        BY <1>4, <4>1 DEF Heads
    <3>. QED
      BY <3>1 DEF CutAt
  <2>. QED
    BY <2>1
<1>5. PICK h : FollowsUpto(h, N, G, N, A)
  <2>. HIDE DEF G, A, Rest
  <2>1. ASSUME NEW n \in 0 .. N, NEW f \in [0 .. N -> A], NEW h \in [0 .. N -> A],
               \A j \in 0 .. n - 1 : f[j] = h[j]
        PROVE  G[<<n, f>>] = G[<<n, h>>]
    <3>1. Rest(n, f) = Rest(n, h)
      BY <1>4, <2>1, Zenon
    <3>2. G[<<n, f>>] = Rest(n, f) /\ G[<<n, h>>] = Rest(n, h)
      BY <1>2, <2>1, Zenon
    <3>. QED
      BY <3>1, <3>2, Zenon
  <2>2. ComputesFromBefore(G, N, A)
    BY <1>3, <2>1 DEF ComputesFromBefore
  <2>3. A # {}
    BY DEF A
  <2>. QED
    BY <1>0, <2>2, <2>3, PositionRecursion
<1>6. h = [n \in 0 .. N |-> Rest(n, h)]
  <2>. HIDE DEF G, A, Rest
  <2>. QED
    BY <1>2, <1>5 DEF FollowsUpto
<1>7. Of = [n \in 0 .. N |-> Rest(n, Of)]
  <2>. HIDE DEF Rest
  <2>. QED
    BY <1>6
<1>8. Readings(line) = Of[N]
  BY DEF Readings, CutAt, CutPoints, Heads, Piece, N
<1>9. ReadingRun(Of, line)
  <2>. HIDE DEF Of
  <2>1. \A n \in 0 .. N : Of[n] = Rest(n, Of)
    <3>. HIDE DEF Rest
    <3>. QED
      BY <1>7
  <2>. QED
    BY <2>1 DEF ReadingRun, N
<1>. HIDE DEF Of
<1>. QED
  BY <1>8, <1>9 DEF N

\* A piece of a line, and the piece that is one character longer.
LEMMA PiecesAre ==
    ASSUME NEW line \in Seq(Char), NEW n \in 0 .. Len(line)
    PROVE  /\ Piece(line, n, n) = <<>>
           /\ \A c \in 0 .. n : Piece(line, c, n) \in Seq(Char)
           /\ n < Len(line) => /\ n + 1 \in 0 .. Len(line) /\ line[n + 1] \in Char
                               /\ \A c \in 0 .. n : Piece(line, c, n + 1)
                                                     = Append(Piece(line, c, n), line[n + 1])
<1>1. Len(line) \in Nat /\ \A i \in 1 .. Len(line) : line[i] \in Char
  OBVIOUS
<1>2. ASSUME NEW m \in 0 .. Len(line), NEW c \in 0 .. m
      PROVE  /\ Piece(line, c, m) \in Seq(Char) /\ Len(Piece(line, c, m)) = m - c
             /\ \A i \in 1 .. m - c : Piece(line, c, m)[i] = line[c + i]
  <2>1. c + 1 \in Int /\ m \in Int /\ \A i \in c + 1 .. m : line[i] \in Char
    BY <1>1
  <2>2. /\ Piece(line, c, m) \in Seq(Char)
        /\ Len(Piece(line, c, m)) = IF c + 1 <= m THEN m - (c + 1) + 1 ELSE 0
        /\ \A i \in 1 .. m - (c + 1) + 1 : Piece(line, c, m)[i] = line[(c + 1) + i - 1]
    BY <2>1, SubSeqProperties DEF Piece
  <2>3. (IF c + 1 <= m THEN m - (c + 1) + 1 ELSE 0) = m - c /\ m - (c + 1) + 1 = m - c
    OBVIOUS
  <2>4. \A i \in 1 .. m - c : (c + 1) + i - 1 = c + i
    OBVIOUS
  <2>. QED
    BY <2>2, <2>3, <2>4
<1>3. Piece(line, n, n) = <<>>
  <2>1. Piece(line, n, n) \in Seq(Char) /\ Len(Piece(line, n, n)) = 0
    BY <1>2
  <2>. QED
    BY <2>1
<1>4. ASSUME n < Len(line)
      PROVE  n + 1 \in 0 .. Len(line) /\ line[n + 1] \in Char
  BY <1>1, <1>4
<1>5. ASSUME n < Len(line), NEW c \in 0 .. n
      PROVE  Piece(line, c, n + 1) = Append(Piece(line, c, n), line[n + 1])
  <2>. DEFINE p == Piece(line, c, n)
              q == Piece(line, c, n + 1)
              d == line[n + 1]
  <2>1. c \in 0 .. n + 1 /\ n + 1 \in 0 .. Len(line) /\ d \in Char
    BY <1>4, <1>5
  <2>2. p \in Seq(Char) /\ Len(p) = n - c /\ \A i \in 1 .. n - c : p[i] = line[c + i]
    BY <1>2
  <2>3. /\ q \in Seq(Char) /\ Len(q) = (n + 1) - c
        /\ \A i \in 1 .. (n + 1) - c : q[i] = line[c + i]
    BY <1>2, <2>1
  <2>. HIDE DEF p, q
  <2>4. /\ Append(p, d) \in Seq(Char) /\ Len(Append(p, d)) = (n - c) + 1
        /\ \A i \in 1 .. n - c : Append(p, d)[i] = p[i]
        /\ Append(p, d)[(n - c) + 1] = d
    <3>. HIDE DEF d
    <3>. QED
      BY <2>1, <2>2, AppendProperties
  <2>5. (n + 1) - c = (n - c) + 1 /\ c + ((n - c) + 1) = n + 1
    OBVIOUS
  <2>6. ASSUME NEW i \in 1 .. (n - c) + 1
        PROVE  q[i] = Append(p, d)[i]
    <3>1. i \in 1 .. n - c \/ i = (n - c) + 1
      OBVIOUS
    <3>2. CASE i \in 1 .. n - c
      BY <2>2, <2>3, <2>4, <2>5, <3>2
    <3>3. CASE i = (n - c) + 1
      BY <2>3, <2>4, <2>5, <3>3
    <3>. QED
      BY <3>1, <3>2, <3>3
  <2>7. q = Append(p, d)
    <3>. HIDE DEF d
    <3>. QED
      BY <2>3, <2>4, <2>5, <2>6, SeqEqual
  <2>. QED
    BY <2>7 DEF p, q
<1>. QED
  BY <1>2, <1>3, <1>4, <1>5

\* The pieces in D stand for no text, and nor does what begins with them.
DeadEnds(D) ==
    \A p \in D : TextsOf(p) = {} /\ \A c \in Char : Append(p, c) \in D

\* The first n characters can only be read as the fields f and a last piece that begins
\* at b: from every other point where a piece may begin there is a dead end.
ReadFrom(R, line, n, b, f, D) ==
    /\ b \in CutPoints(line, n) /\ Heads(R, b) = {f}
    /\ \A c \in CutPoints(line, n) : c # b /\ Heads(R, c) # {} => Piece(line, c, n) \in D

\* Then the readings of these characters are those of the piece.
LEMMA ReadingsFrom ==
    ASSUME NEW line \in Seq(Char), NEW R, ReadingRun(R, line), NEW n \in 0 .. Len(line),
           NEW b, NEW f, NEW D, DeadEnds(D), ReadFrom(R, line, n, b, f, D)
    PROVE  R[n] = {Append(f, t) : t \in TextsOf(Piece(line, b, n))}
<1>1. CutAt(R, line, b, n) = {Append(f, t) : t \in TextsOf(Piece(line, b, n))}
  BY DEF CutAt, ReadFrom
<1>2. ASSUME NEW c \in CutPoints(line, n), c # b
      PROVE  CutAt(R, line, c, n) = {}
  BY <1>2 DEF CutAt, ReadFrom, DeadEnds
<1>3. R[n] = UNION {CutAt(R, line, c, n) : c \in CutPoints(line, n)}
  BY DEF ReadingRun
<1>4. b \in CutPoints(line, n)
  BY DEF ReadFrom
<1>5. R[n] = CutAt(R, line, b, n)
  <2>1. \A x : x \in R[n] <=> \E c \in CutPoints(line, n) : x \in CutAt(R, line, c, n)
    BY <1>3
  <2>2. \A x : x \in R[n] <=> x \in CutAt(R, line, b, n)
    BY <1>2, <1>4, <2>1
  <2>. QED
    BY <2>2
<1>. QED
  BY <1>1, <1>5

\* Where a longer line may be cut.
LEMMA CutPointsGrow ==
    ASSUME NEW line \in Seq(Char), NEW n \in 0 .. Len(line), n < Len(line)
    PROVE  \A c : c \in CutPoints(line, n + 1)
                    <=> c \in CutPoints(line, n) \/ (c = n + 1 /\ line[n + 1] = "delim")
<1>1. n + 1 > 0 /\ \A c : c \in 0 .. n + 1 <=> c \in 0 .. n \/ c = n + 1
  OBVIOUS
<1>2. \A m, c : c \in CutPoints(line, m) <=> c \in 0 .. m /\ (c > 0 => line[c] = "delim")
  BY DEF CutPoints
<1>3. ASSUME NEW c
      PROVE  c \in CutPoints(line, n + 1)
                <=> c \in CutPoints(line, n) \/ (c = n + 1 /\ line[n + 1] = "delim")
  <2>1. CASE c = n + 1
    <3>1. c \in 0 .. n + 1 /\ c > 0 /\ c \notin 0 .. n
      BY <2>1
    <3>. QED
      BY <1>2, <2>1, <3>1
  <2>2. CASE c # n + 1
    BY <1>1, <1>2, <2>2
  <2>. QED
    BY <2>1, <2>2
<1>. QED
  BY <1>3

\* The next character does not begin a piece: what could be read from elsewhere is still
\* a dead end.
LEMMA PieceGoesOn ==
    ASSUME NEW line \in Seq(Char), NEW R, NEW n \in 0 .. Len(line), n < Len(line),
           NEW b, NEW f, NEW D, DeadEnds(D), ReadFrom(R, line, n, b, f, D),
           line[n + 1] # "delim" \/ R[n] = {}
    PROVE  ReadFrom(R, line, n + 1, b, f, D)
<1>1. ASSUME NEW c \in CutPoints(line, n + 1), c # b, Heads(R, c) # {}
      PROVE  Piece(line, c, n + 1) \in D
  <2>1. c \in CutPoints(line, n)
    <3>1. CASE c = n + 1
      <4>1. line[n + 1] = "delim"
        BY <3>1 DEF CutPoints
      <4>2. Heads(R, c) = R[n]
        BY <3>1 DEF Heads
      <4>. QED
        BY <1>1, <4>1, <4>2
    <3>. QED
      BY <3>1, CutPointsGrow
  <2>2. Piece(line, c, n) \in D /\ c \in 0 .. n
    BY <1>1, <2>1 DEF ReadFrom, CutPoints
  <2>3. line[n + 1] \in Char /\ Piece(line, c, n + 1) = Append(Piece(line, c, n), line[n + 1])
    BY <2>2, PiecesAre
  <2>. QED
    BY <2>2, <2>3 DEF DeadEnds
<1>2. b \in CutPoints(line, n + 1)
  <2>1. b \in CutPoints(line, n)
    BY DEF ReadFrom
  <2>2. \A c : c \in CutPoints(line, n) => c \in CutPoints(line, n + 1)
    BY CutPointsGrow
  <2>. QED
    BY <2>1, <2>2
<1>. QED
  BY <1>1, <1>2 DEF ReadFrom

\* The next character ends the piece, for good: the one behind it is the only one left.
LEMMA PieceEnds ==
    ASSUME NEW line \in Seq(Char), NEW R, NEW n \in 0 .. Len(line), n < Len(line),
           NEW b, NEW f, NEW D, DeadEnds(D), ReadFrom(R, line, n, b, f, D),
           line[n + 1] = "delim", NEW g, R[n] = {g}, Piece(line, b, n + 1) \in D
    PROVE  ReadFrom(R, line, n + 1, n + 1, g, D)
<1>1. ASSUME NEW c \in CutPoints(line, n + 1), c # n + 1, Heads(R, c) # {}
      PROVE  Piece(line, c, n + 1) \in D
  <2>1. c \in CutPoints(line, n) /\ c \in 0 .. n
    BY <1>1, CutPointsGrow DEF CutPoints
  <2>2. CASE c # b
    <3>1. Piece(line, c, n) \in D
      BY <1>1, <2>1, <2>2 DEF ReadFrom
    <3>2. line[n + 1] \in Char /\ Piece(line, c, n + 1) = Append(Piece(line, c, n), line[n + 1])
      BY <2>1, PiecesAre
    <3>. QED
      BY <3>1, <3>2 DEF DeadEnds
  <2>. QED
    BY <2>2
<1>2. n + 1 \in CutPoints(line, n + 1)
  BY CutPointsGrow
<1>3. Heads(R, n + 1) = {g}
  <2>1. n + 1 # 0 /\ (n + 1) - 1 = n
    OBVIOUS
  <2>. QED
    BY <2>1 DEF Heads
<1>. QED
  BY <1>1, <1>2, <1>3 DEF ReadFrom

\* At the beginning there is nothing to cut.
LEMMA NothingCut ==
    ASSUME NEW line \in Seq(Char), NEW R, NEW D
    PROVE  ReadFrom(R, line, 0, 0, <<>>, D)
BY DEF ReadFrom, CutPoints, Heads

\* splitFieldsQuoted finds the fields the format declares, in every line, and an error
\* in a line that has none.
LEMMA QuotedReadings ==
    ASSUME quoteAware, NEW line \in Seq(Char)
    PROVE  Readings(line) = IF SplitFieldsQuoted(line) = NoFields THEN {}
                            ELSE {SplitFieldsQuoted(line)}
<1>. DEFINE N == Len(line)
            D == {p \in Seq(Char) : Hopeless(p)}
            Read1(s) == IF s.mode \in {"quoted", "error"} THEN {} ELSE {Append(s.fields, s.field)}
<1>1. PICK a : ScanRun(a, line) /\ SplitFieldsQuoted(line) = Outcome(a[N])
  BY ScanRuns
<1>2. PICK R : ReadingRun(R, line) /\ Readings(line) = R[N]
  BY ReadingRuns
<1>. DEFINE At(n) == \E b : ReadFrom(R, line, n, b, a[n].fields, D)
                            /\ Knows(a[n], Piece(line, b, n))
            Q == {n \in 0 .. N : At(n)}
<1>3. DeadEnds(D)
  BY HopelessTexts, HopelessStays, PieceGrows DEF DeadEnds
<1>. HIDE DEF D
<1>4. N \in Nat /\ \A n \in 0 .. N : a[n] \in ScanStates
  BY <1>1 DEF ScanRun
<1>5. ASSUME NEW n \in 0 .. N, At(n)
      PROVE  R[n] = Read1(a[n])
  <2>1. PICK b : ReadFrom(R, line, n, b, a[n].fields, D) /\ Knows(a[n], Piece(line, b, n))
    BY <1>5
  <2>2. b \in 0 .. n /\ Piece(line, b, n) \in Seq(Char)
    BY <2>1, PiecesAre DEF ReadFrom, CutPoints
  <2>3. R[n] = {Append(a[n].fields, t) : t \in TextsOf(Piece(line, b, n))}
    BY <1>2, <1>3, <2>1, ReadingsFrom
  <2>4. TextsOf(Piece(line, b, n)) = IF a[n].mode \in {"quoted", "error"} THEN {}
                                     ELSE {a[n].field}
    BY <1>4, <2>1, <2>2, KnownTexts
  <2>. QED
    BY <2>3, <2>4
<1>6. At(0)
  <2>1. a[0] = Started /\ 0 \in 0 .. N
    BY <1>1, <1>4 DEF ScanRun
  <2>2. Piece(line, 0, 0) = <<>>
    BY <2>1, PiecesAre
  <2>3. Knows(a[0], <<>>) /\ a[0].fields = <<>>
    BY <2>1 DEF Knows, Started
  <2>4. ReadFrom(R, line, 0, 0, a[0].fields, D)
    BY <2>3, NothingCut
  <2>. QED
    BY <2>2, <2>3, <2>4
<1>7. ASSUME NEW n \in 0 .. N - 1, At(n)
      PROVE  At(n + 1)
  <2>1. PICK b : ReadFrom(R, line, n, b, a[n].fields, D) /\ Knows(a[n], Piece(line, b, n))
    BY <1>7
  <2>. DEFINE p == Piece(line, b, n)
              c == line[n + 1]
  <2>2. /\ n \in 0 .. N /\ n < N /\ n + 1 \in 1 .. N /\ n + 1 \in 0 .. N /\ (n + 1) - 1 = n
        /\ b \in 0 .. n
    BY <1>4, <2>1 DEF ReadFrom, CutPoints
  <2>3. c \in Char /\ p \in Seq(Char) /\ Piece(line, b, n + 1) = Append(p, c)
    BY <2>2, PiecesAre
  <2>4. a[n + 1] = Scan(a[n], c) /\ a[n] \in ScanStates
    BY <1>1, <1>4, <2>2 DEF ScanRun
  <2>5. R[n] = Read1(a[n])
    BY <1>5, <1>7, <2>2
  <2>. HIDE DEF p, c, N
  <2>6. CASE Cuts(a[n], c)
    <3>1. /\ Hopeless(Append(p, c))
          /\ Knows(a[n + 1], <<>>) /\ a[n + 1].fields = Append(a[n].fields, a[n].field)
      BY <2>1, <2>3, <2>4, <2>6, ScanCuts DEF p
    <3>2. Piece(line, b, n + 1) \in D
      <4>1. Append(p, c) \in Seq(Char)
        BY <2>3, PieceGrows
      <4>. QED
        BY <2>3, <3>1, <4>1 DEF D
    <3>3. R[n] = {a[n + 1].fields} /\ line[n + 1] = "delim"
      BY <2>5, <2>6, <3>1 DEF Cuts, c
    <3>4. ReadFrom(R, line, n + 1, n + 1, a[n + 1].fields, D)
      BY <1>3, <2>1, <2>2, <3>2, <3>3, PieceEnds DEF N
    <3>5. Piece(line, n + 1, n + 1) = <<>>
      BY <2>2, PiecesAre DEF N
    <3>. QED
      BY <3>1, <3>4, <3>5
  <2>7. CASE ~Cuts(a[n], c)
    <3>1. Knows(a[n + 1], Append(p, c)) /\ a[n + 1].fields = a[n].fields
      BY <2>1, <2>3, <2>4, <2>7, ScanGrows DEF p
    <3>2. line[n + 1] # "delim" \/ R[n] = {}
      <4>1. a[n].mode \in Modes
        BY <2>4 DEF ScanStates
      <4>. QED
        BY <2>5, <2>7, <4>1 DEF Cuts, Modes, c
    <3>3. ReadFrom(R, line, n + 1, b, a[n + 1].fields, D)
      BY <1>3, <2>1, <2>2, <3>1, <3>2, PieceGoesOn DEF N
    <3>. QED
      BY <2>3, <3>1, <3>3
  <2>. QED
    BY <2>6, <2>7
<1>. HIDE DEF At, N
<1>8. \A n \in 0 .. N : n \in Q
  <2>1. 0 \in Q
    BY <1>4, <1>6
  <2>2. \A n \in 0 .. N - 1 : n \in 0 .. n /\ n + 1 \in 0 .. N
    BY <1>4
  <2>3. \A n \in 0 .. N - 1 : (\A j \in 0 .. n : j \in Q) => n + 1 \in Q
    BY <1>7, <2>2
  <2>. HIDE DEF Q
  <2>. QED
    BY <1>4, <2>1, <2>3, PositionsByInduction
<1>9. N \in 0 .. N /\ At(N)
  BY <1>4, <1>8
<1>10. Readings(line) = Read1(a[N])
  BY <1>2, <1>5, <1>9
<1>11. a[N].fields \in Seq(Seq(Char)) /\ a[N].field \in Seq(Char)
  BY <1>4, <1>9 DEF ScanStates
<1>12. Append(a[N].fields, a[N].field) # <<>>
  <2>. DEFINE f == a[N].fields
              t == a[N].field
  <2>. HIDE DEF f, t
  <2>1. f \in Seq(Seq(Char)) /\ t \in Seq(Char)
    BY <1>11 DEF f, t
  <2>2. Append(f, t) # <<>>
    BY <2>1, AppendProperties
  <2>. QED
    BY <2>2 DEF f, t
<1>. QED
  BY <1>1, <1>10, <1>12 DEF Outcome, NoFields

-----------------------------------------------------------------------------
(* splitFields. *)

Fields == {f \in Seq(Seq(Char)) : f # <<>>}

Taken(fields, c) ==
    IF c = "delim" THEN Append(fields, <<>>)
    ELSE [fields EXCEPT ![Len(fields)] = Append(@, c)]

\* A character begins a field or makes the last one longer.
LEMMA TakenIs ==
    ASSUME NEW f \in Seq(Seq(Char)), NEW p \in Seq(Char), NEW c \in Char
    PROVE  Taken(Append(f, p), c) = IF c = "delim" THEN Append(Append(f, p), <<>>)
                                    ELSE Append(f, Append(p, c))
<1>. DEFINE s == Append(f, p)
            t == [s EXCEPT ![Len(s)] = Append(@, c)]
            q == Append(p, c)
<1>1. q \in Seq(Char)
  BY AppendProperties
<1>. HIDE DEF q
<1>2. /\ s \in Seq(Seq(Char)) /\ Len(s) = Len(f) + 1 /\ Len(f) \in Nat
      /\ \A i \in 1 .. Len(f) : s[i] = f[i]
      /\ s[Len(f) + 1] = p
  BY AppendProperties
<1>3. /\ Append(f, q) \in Seq(Seq(Char)) /\ Len(Append(f, q)) = Len(f) + 1
      /\ \A i \in 1 .. Len(f) : Append(f, q)[i] = f[i]
      /\ Append(f, q)[Len(f) + 1] = q
  BY <1>1, AppendProperties
<1>. HIDE DEF s
<1>4. /\ DOMAIN s = 1 .. Len(s) /\ Len(s) \in 1 .. Len(s)
      /\ \A i \in 1 .. Len(s) : s[i] \in Seq(Char)
  BY <1>2
<1>5. /\ DOMAIN t = 1 .. Len(s) /\ t = [i \in 1 .. Len(s) |-> t[i]]
      /\ \A i \in 1 .. Len(s) : t[i] = IF i = Len(s) THEN q ELSE s[i]
  <2>1. t[Len(s)] = Append(s[Len(s)], c)
    BY <1>4
  <2>2. s[Len(s)] = p
    BY <1>2
  <2>. QED
    BY <1>4, <2>1, <2>2 DEF q
<1>. HIDE DEF t
<1>6. t \in Seq(Seq(Char)) /\ Len(t) = Len(s)
  <2>1. \A i \in 1 .. Len(s) : t[i] \in Seq(Char)
    BY <1>1, <1>4, <1>5
  <2>2. t \in [1 .. Len(s) -> Seq(Char)] /\ Len(s) \in Nat
    BY <1>2, <1>5, <2>1
  <2>. QED
    BY <2>2
<1>7. ASSUME NEW i \in 1 .. Len(s)
      PROVE  t[i] = Append(f, q)[i]
  <2>1. CASE i = Len(s)
    BY <1>2, <1>3, <1>5, <2>1
  <2>2. CASE i # Len(s)
    <3>1. i \in 1 .. Len(f)
      BY <1>2, <2>2
    <3>. QED
      BY <1>2, <1>3, <1>5, <2>2, <3>1
  <2>. QED
    BY <2>1, <2>2
<1>8. t = Append(f, q)
  BY <1>2, <1>3, <1>6, <1>7, SeqEqual
<1>. QED
  BY <1>8 DEF Taken, s, t, q

\* Fields are all but the last, and the last.
LEMMA LastField ==
    /\ \A f \in Seq(Seq(Char)), p \in Seq(Char) : Append(f, p) \in Fields
    /\ \A s \in Fields : \E f \in Seq(Seq(Char)), p \in Seq(Char) : s = Append(f, p)
<1>1. ASSUME NEW f \in Seq(Seq(Char)), NEW p \in Seq(Char)
      PROVE  Append(f, p) \in Fields
  BY AppendProperties DEF Fields
<1>2. ASSUME NEW s \in Fields
      PROVE  \E f \in Seq(Seq(Char)), p \in Seq(Char) : s = Append(f, p)
  <2>. DEFINE S == Seq(Char)
  <2>1. s \in Seq(S) /\ s # <<>>
    BY DEF Fields
  <2>. HIDE DEF S
  <2>2. SubSeq(s, 1, Len(s) - 1) \in Seq(S) /\ s[Len(s)] \in S
        /\ s = Append(SubSeq(s, 1, Len(s) - 1), s[Len(s)])
    BY <2>1
  <2>. QED
    BY <2>2 DEF S
<1>. QED
  BY <1>1, <1>2

\* A character keeps at least one field.
LEMMA TakenType ==
    ASSUME NEW s \in Fields, NEW c \in Char
    PROVE  Taken(s, c) \in Fields
<1>1. PICK f \in Seq(Seq(Char)), p \in Seq(Char) : s = Append(f, p)
  BY LastField
<1>2. <<>> \in Seq(Char) /\ Append(p, c) \in Seq(Char) /\ s \in Seq(Seq(Char))
  BY AppendProperties DEF Fields
<1>3. Taken(s, c) = Append(s, <<>>) \/ Taken(s, c) = Append(f, Append(p, c))
  BY <1>1, TakenIs
<1>. QED
  BY <1>2, <1>3, LastField

\* a is the run of splitFields over line.
SplitRun(a, line) ==
    /\ a[0] = <<<<>>>>
    /\ \A k \in 1 .. Len(line) : a[k] = Taken(a[k - 1], line[k])

\* splitFields takes one character after the other.
LEMMA SplitRuns ==
    ASSUME NEW line \in Seq(Char)
    PROVE  \E a : SplitRun(a, line) /\ SplitFields(line) = a[Len(line)]
<1>. DEFINE n == Len(line)
            g == [z \in Fields \X Char |-> Taken(z[1], z[2])]
            Rest(k, h) == IF k = 0 THEN <<<<>>>> ELSE Taken(h[k - 1], line[k])
            Upto == CHOOSE f : f = [k \in 0 .. n |-> Rest(k, f)]
<1>0. n \in Nat /\ \A k \in 1 .. n : line[k] \in Char
  OBVIOUS
<1>1. <<<<>>>> \in Fields
  BY DEF Fields
<1>3. PICK h \in [0 .. n -> Fields] : Follows(h, g, <<<<>>>>, line)
  <2>1. g \in [Fields \X Char -> Fields]
    <3>1. \A z \in Fields \X Char : Taken(z[1], z[2]) \in Fields
      BY TakenType
    <3>. QED
      BY <3>1
  <2>. HIDE DEF g
  <2>. QED
    BY <1>1, <2>1, MachineRuns
<1>4. ASSUME NEW k \in 0 .. n
      PROVE  h[k] = Rest(k, h)
  <2>1. CASE k # 0
    <3>1. k \in 1 .. n /\ k - 1 \in 0 .. n
      BY <2>1
    <3>2. h[k] = g[<<h[k - 1], line[k]>>] /\ <<h[k - 1], line[k]>> \in Fields \X Char
      BY <1>0, <1>3, <3>1 DEF Follows
    <3>. QED
      BY <2>1, <3>2
  <2>. QED
    BY <1>3, <2>1 DEF Follows
<1>5. Upto = [k \in 0 .. n |-> Rest(k, Upto)]
  <2>1. h = [k \in 0 .. n |-> Rest(k, h)]
    <3>. HIDE DEF Rest, n
    <3>. QED
      BY <1>4
  <2>. HIDE DEF Rest, n
  <2>. QED
    BY <2>1
<1>6. SplitFields(line) = Upto[n]
  BY DEF SplitFields, Taken
<1>. HIDE DEF Upto
<1>7. Upto[0] = <<<<>>>> /\ \A k \in 1 .. n : Upto[k] = Taken(Upto[k - 1], line[k])
  <2>1. 0 \in 0 .. n /\ \A k \in 1 .. n : k \in 0 .. n /\ k # 0
    BY <1>0
  <2>. HIDE DEF n
  <2>. QED
    BY <1>5, <2>1
<1>. QED
  BY <1>6, <1>7 DEF SplitRun

\* Without quotes every piece that has no delimiter is a text.
LEMMA PlainTexts ==
    ASSUME ~quoteAware, NEW p \in Seq(Char)
    PROVE  TextsOf(p) = IF HasDelim(p) THEN {} ELSE {p}
BY DEF TextsOf, HasDelim

\* A line has at least one field.
LEMMA SplitFieldsType ==
    ASSUME NEW line \in Seq(Char)
    PROVE  SplitFields(line) \in Fields
<1>. DEFINE N == Len(line)
<1>1. PICK a : SplitRun(a, line) /\ SplitFields(line) = a[N]
  BY SplitRuns
<1>. DEFINE Q == {k \in 0 .. N : a[k] \in Fields}
<1>2. N \in Nat /\ \A k \in 1 .. N : line[k] \in Char
  OBVIOUS
<1>3. 0 \in Q
  <2>1. <<<<>>>> \in Fields /\ 0 \in 0 .. N
    BY <1>2 DEF Fields
  <2>2. a[0] = <<<<>>>>
    BY <1>1 DEF SplitRun
  <2>. HIDE DEF N
  <2>. QED
    BY <2>1, <2>2
<1>4. ASSUME NEW k \in 0 .. N - 1, \A j \in 0 .. k : j \in Q
      PROVE  k + 1 \in Q
  <2>1. k \in 0 .. k /\ k + 1 \in 1 .. N /\ k + 1 \in 0 .. N /\ (k + 1) - 1 = k
    BY <1>2
  <2>2. a[k] \in Fields /\ a[k + 1] = Taken(a[k], line[k + 1]) /\ line[k + 1] \in Char
    BY <1>1, <1>2, <1>4, <2>1 DEF SplitRun
  <2>. QED
    BY <2>1, <2>2, TakenType
<1>5. \A k \in 0 .. N : k \in Q
  <2>. HIDE DEF Q, N
  <2>. QED
    BY <1>2, <1>3, <1>4, PositionsByInduction
<1>. QED
  BY <1>1, <1>2, <1>5

\* splitFields finds the fields the format declares, in every line.
LEMMA PlainReadings ==
    ASSUME ~quoteAware, NEW line \in Seq(Char)
    PROVE  Readings(line) = {SplitFields(line)}
<1>. DEFINE N == Len(line)
            D == {p \in Seq(Char) : HasDelim(p)}
<1>1. PICK a : SplitRun(a, line) /\ SplitFields(line) = a[N]
  BY SplitRuns
<1>2. PICK R : ReadingRun(R, line) /\ Readings(line) = R[N]
  BY ReadingRuns
<1>. DEFINE Split1(n, b, f) == /\ ReadFrom(R, line, n, b, f, D) /\ f \in Seq(Seq(Char))
                               /\ ~HasDelim(Piece(line, b, n))
                               /\ a[n] = Append(f, Piece(line, b, n))
            At(n) == \E b, f : Split1(n, b, f)
            Q == {n \in 0 .. N : At(n)}
<1>3. DeadEnds(D)
  <2>1. \A p \in D : p \in Seq(Char) /\ HasDelim(p)
    OBVIOUS
  <2>2. \A p \in Seq(Char) : HasDelim(p) => p \in D
    OBVIOUS
  <2>. HIDE DEF D
  <2>. QED
    BY <2>1, <2>2, PlainTexts, PieceGrows DEF DeadEnds
<1>. HIDE DEF D
<1>4. N \in Nat
  OBVIOUS
<1>5. ASSUME NEW n \in 0 .. N, NEW b, NEW f, Split1(n, b, f)
      PROVE  R[n] = {a[n]} /\ b \in 0 .. n /\ Piece(line, b, n) \in Seq(Char)
  <2>1. b \in 0 .. n /\ Piece(line, b, n) \in Seq(Char)
    BY <1>5, PiecesAre DEF ReadFrom, CutPoints
  <2>2. R[n] = {Append(f, t) : t \in TextsOf(Piece(line, b, n))}
    BY <1>2, <1>3, <1>5, ReadingsFrom
  <2>3. TextsOf(Piece(line, b, n)) = {Piece(line, b, n)}
    BY <1>5, <2>1, PlainTexts
  <2>. QED
    BY <1>5, <2>1, <2>2, <2>3
<1>6. At(0)
  <2>1. Piece(line, 0, 0) = <<>> /\ 0 \in 0 .. N
    BY <1>4, PiecesAre
  <2>2. ReadFrom(R, line, 0, 0, <<>>, D)
    BY NothingCut
  <2>3. a[0] = Append(<<>>, <<>>) /\ <<>> \in Seq(Seq(Char)) /\ ~HasDelim(<<>>)
    BY <1>1 DEF SplitRun, HasDelim
  <2>4. Split1(0, 0, <<>>)
    BY <2>1, <2>2, <2>3
  <2>. HIDE DEF Split1
  <2>. QED
    BY <2>4
<1>7. ASSUME NEW n \in 0 .. N - 1, At(n)
      PROVE  At(n + 1)
  <2>1. PICK b, f : Split1(n, b, f)
    BY <1>7
  <2>. DEFINE p == Piece(line, b, n)
              c == line[n + 1]
  <2>2. n \in 0 .. N /\ n < N /\ n + 1 \in 1 .. N /\ n + 1 \in 0 .. N /\ (n + 1) - 1 = n
    BY <1>4
  <2>3. R[n] = {a[n]} /\ b \in 0 .. n /\ p \in Seq(Char)
    BY <1>5, <2>1, <2>2
  <2>4. c \in Char /\ Piece(line, b, n + 1) = Append(p, c)
    BY <2>2, <2>3, PiecesAre
  <2>5. a[n + 1] = Taken(a[n], c) /\ f \in Seq(Seq(Char)) /\ a[n] = Append(f, p)
    BY <1>1, <2>1, <2>2 DEF SplitRun
  <2>6. ~HasDelim(p) /\ ReadFrom(R, line, n, b, f, D)
    BY <2>1
  <2>. HIDE DEF p, c, N, Split1
  <2>7. CASE c = "delim"
    <3>1. a[n + 1] = Append(a[n], <<>>) /\ a[n] \in Seq(Seq(Char))
      BY <2>3, <2>4, <2>5, <2>7, TakenIs, LastField, SMTT(30) DEF Fields
    <3>2. Piece(line, b, n + 1) \in D
      <4>1. Append(p, c) \in Seq(Char) /\ HasDelim(Append(p, c))
        BY <2>3, <2>4, <2>7, PieceGrows
      <4>. QED
        BY <2>4, <4>1 DEF D
    <3>3. ReadFrom(R, line, n + 1, n + 1, a[n], D)
      BY <1>3, <2>2, <2>3, <2>6, <2>7, <3>2, PieceEnds DEF N, c
    <3>4. Piece(line, n + 1, n + 1) = <<>> /\ ~HasDelim(<<>>)
      BY <2>2, PiecesAre DEF N, HasDelim
    <3>5. Split1(n + 1, n + 1, a[n])
      BY <3>1, <3>3, <3>4 DEF Split1
    <3>. QED
      BY <3>5
  <2>8. CASE c # "delim"
    <3>1. a[n + 1] = Append(f, Append(p, c))
      BY <2>3, <2>4, <2>5, <2>8, TakenIs
    <3>2. ~HasDelim(Append(p, c))
      BY <2>3, <2>4, <2>6, <2>8, PieceGrows
    <3>3. ReadFrom(R, line, n + 1, b, f, D)
      BY <1>3, <2>2, <2>6, <2>8, PieceGoesOn DEF N, c
    <3>4. Split1(n + 1, b, f)
      BY <2>4, <2>5, <3>1, <3>2, <3>3 DEF Split1
    <3>. QED
      BY <3>4
  <2>. QED
    BY <2>7, <2>8
<1>8. \A n \in 0 .. N : n \in Q
  <2>. HIDE DEF At, N
  <2>1. 0 \in Q
    BY <1>4, <1>6
  <2>2. \A n \in 0 .. N - 1 : n \in 0 .. n /\ n + 1 \in 0 .. N
    BY <1>4
  <2>3. \A n \in 0 .. N - 1 : (\A j \in 0 .. n : j \in Q) => n + 1 \in Q
    BY <1>7, <2>2
  <2>. HIDE DEF Q
  <2>. QED
    BY <1>4, <2>1, <2>3, PositionsByInduction
<1>9. PICK b, f : Split1(N, b, f)
  <2>1. At(N)
    <3>. HIDE DEF At, N
    <3>. QED
      BY <1>4, <1>8
  <2>. QED
    BY <2>1
<1>10. R[N] = {a[N]} /\ Piece(line, b, N) \in Seq(Char)
  <2>1. N \in 0 .. N
    BY <1>4
  <2>. HIDE DEF Split1, N
  <2>. QED
    BY <1>5, <1>9, <2>1
<1>. QED
  BY <1>1, <1>2, <1>10

-----------------------------------------------------------------------------
(* What a line is split into. *)

\* splitFieldsQuoted refuses a line or finds at least one field.
LEMMA SplitFieldsQuotedType ==
    ASSUME NEW line \in Seq(Char), SplitFieldsQuoted(line) # NoFields
    PROVE  SplitFieldsQuoted(line) \in Fields
<1>1. PICK a : ScanRun(a, line) /\ SplitFieldsQuoted(line) = Outcome(a[Len(line)])
  BY ScanRuns
<1>2. a[Len(line)] \in ScanStates
  <2>1. Len(line) \in 0 .. Len(line)
    OBVIOUS
  <2>. QED
    BY <1>1, <2>1 DEF ScanRun
<1>. DEFINE s == a[Len(line)]
<1>3. SplitFieldsQuoted(line) = Append(s.fields, s.field)
  BY <1>1 DEF Outcome
<1>4. s.fields \in Seq(Seq(Char)) /\ s.field \in Seq(Char)
  BY <1>2 DEF ScanStates
<1>. HIDE DEF s
<1>. QED
  BY <1>3, <1>4, LastField

\* The parser splits a line into the fields the format declares, quote-aware or not: it
\* refuses the lines that have no reading, and every other line has exactly one, with
\* every quote undoubled and no delimiter taken for text or the other way round
\* (parser.go:60-129).
THEOREM SplitReads ==
    ASSUME NEW line \in Seq(Char)
    PROVE  /\ Readings(line) = IF Split(line) = NoFields THEN {} ELSE {Split(line)}
           /\ Split(line) # NoFields => Split(line) \in Fields
<1>1. CASE quoteAware
  BY <1>1, QuotedReadings, SplitFieldsQuotedType DEF Split
<1>2. CASE ~quoteAware
  <2>1. Split(line) \in Fields
    BY <1>2, SplitFieldsType DEF Split
  <2>2. Split(line) # NoFields
    BY <2>1 DEF Fields, NoFields
  <2>. QED
    BY <1>2, <2>1, <2>2, PlainReadings DEF Split
<1>. QED
  BY <1>1, <1>2

-----------------------------------------------------------------------------
(* The inductive invariant. *)

IsSequence(s) == \E X : s \in Seq(X)

Increasing(s) == \A i, j \in DOMAIN s : i < j => s[i] < s[j]

\* Data line i is a row of the schema.
Good(i) == Fits(Split(lines[FirstData + i]))

\* Where the reader stands in the file.
Position ==
    /\ pc \in {"resolve", "header"} => at = 0 /\ lineNo = 0 /\ reported = <<>>
    /\ lineNo > 0 \/ (pc = "rows" /\ at < Len(lines)) => at = FirstData + lineNo

\* Every column has grown by a value per row.
Filled == \A c \in DOMAIN cols : IsSequence(cols[c]) /\ Len(cols[c]) = numRows

\* Row r is what data line src[r] was split into, and src lists the good lines in order.
RowsFrom(src) ==
    /\ src \in [1 .. numRows -> 1 .. lineNo]
    /\ Increasing(src)
    /\ \A i \in 1 .. lineNo : Good(i) <=> \E r \in 1 .. numRows : src[r] = i
    /\ \A r \in 1 .. numRows : \A c \in DOMAIN cols :
          cols[c][r] = Split(lines[FirstData + src[r]])[c]

\* Every data line read is a row of the batch, or was reported under the policy that
\* skips, or has ended the run under the policy that fails: exactly one of these, and
\* rows and reports are in the order of the file.
Accounted ==
    /\ \E src : RowsFrom(src)
    /\ policy = "skip" => /\ Increasing(reported)
                          /\ \A i \in 1 .. lineNo :
                                ~Good(i) <=> \E n \in DOMAIN reported : reported[n] = i
    /\ policy = "fail" => /\ reported = <<>>
                          /\ \A i \in 1 .. lineNo : ~Good(i) => i = lineNo /\ pc = "failed"

IInv ==
    /\ TypeOK /\ lines \in Seq(Seq(Char)) /\ policy \in {"skip", "fail"} /\ IsSequence(reported)
    /\ Position /\ Filled /\ Accounted

-----------------------------------------------------------------------------
\* What a sequence is after an Append.
LEMMA AppendIs ==
    ASSUME NEW s, IsSequence(s), NEW x
    PROVE  /\ IsSequence(Append(s, x)) /\ Len(s) \in Nat /\ Len(Append(s, x)) = Len(s) + 1
           /\ DOMAIN s = 1 .. Len(s) /\ DOMAIN Append(s, x) = 1 .. Len(s) + 1
           /\ \A i \in 1 .. Len(s) : Append(s, x)[i] = s[i]
           /\ Append(s, x)[Len(s) + 1] = x
<1>1. PICK X : s \in Seq(X)
  BY DEF IsSequence
<1>2. s \in Seq(X \cup {x}) /\ x \in X \cup {x}
  BY <1>1
<1>3. Append(s, x) \in Seq(X \cup {x})
  BY <1>2
<1>. QED
  BY <1>2, <1>3 DEF IsSequence

\* The empty sequence is one.
LEMMA EmptyIs == IsSequence(<<>>) /\ Len(<<>>) = 0 /\ DOMAIN <<>> = {}
<1>1. <<>> \in Seq({})
  OBVIOUS
<1>. QED
  BY <1>1 DEF IsSequence

\* Nothing is read before the schema is resolved and the header handled: an empty batch
\* of any columns will do.
LEMMA NothingRead ==
    ASSUME lineNo = 0, numRows = 0, reported = <<>>
    PROVE  Accounted
<1>1. RowsFrom([r \in 1 .. 0 |-> 0])
  BY DEF RowsFrom, Increasing
<1>2. Increasing(reported) /\ DOMAIN reported = {}
  BY EmptyIs DEF Increasing
<1>. QED
  BY <1>1, <1>2 DEF Accounted

\* Nothing has been read.
LEMMA InitIs == Init => IInv
<1>. SUFFICES ASSUME Init PROVE IInv
  OBVIOUS
<1>1. lines \in Seq(Seq(Char)) /\ Len(lines) \in Nat
  BY RowParserAssumption DEF Init
<1>2. TypeOK
  BY <1>1, EmptyIs DEF Init, TypeOK
<1>3. Position /\ Filled
  BY EmptyIs DEF Init, Position, Filled
<1>4. Accounted
  BY NothingRead DEF Init
<1>. QED
  BY <1>1, <1>2, <1>3, <1>4, EmptyIs DEF Init, IInv

\* resolveSchema and handleHeader.
LEMMA BeforeRowsIs ==
    ASSUME IInv, ResolveGiven \/ ResolveInferred \/ ResolveFails \/ HandleHeader
    PROVE  IInv'
<1>1. /\ pc \in {"resolve", "header"} /\ at = 0 /\ lineNo = 0 /\ numRows = 0 /\ reported = <<>>
      /\ UNCHANGED <<config, lineNo, numRows, reported>>
  BY DEF IInv, TypeOK, Position, ResolveGiven, ResolveInferred, ResolveFails, HandleHeader
<1>2. lines' = lines /\ policy' = policy /\ skipHeader' = skipHeader
  BY <1>1 DEF config
<1>3. /\ lines \in Seq(Seq(Char)) /\ Len(lines) \in Nat
      /\ lines # <<>> => Len(lines) >= 1
  BY DEF IInv
<1>4. /\ DOMAIN cols' = DOMAIN types'
      /\ \A c \in DOMAIN cols' : cols'[c] = <<>>
  <2>1. \/ UNCHANGED <<types, cols>>
        \/ \E t : types' = t /\ cols' = [i \in DOMAIN t |-> <<>>]
    BY DEF ResolveGiven, ResolveInferred, ResolveFails, HandleHeader, Columns
  <2>2. CASE UNCHANGED <<types, cols>>
    <3>1. \A c \in DOMAIN cols : IsSequence(cols[c]) /\ Len(cols[c]) = 0
      BY <1>1 DEF IInv, Filled
    <3>2. ASSUME NEW q, IsSequence(q), Len(q) = 0 PROVE q = <<>>
      <4>1. PICK X : q \in Seq(X)
        BY <3>2 DEF IsSequence
      <4>. QED
        BY <3>2, <4>1
    <3>. QED
      BY <2>2, <3>1, <3>2 DEF IInv, TypeOK
  <2>3. CASE \E t : types' = t /\ cols' = [i \in DOMAIN t |-> <<>>]
    BY <2>3
  <2>. QED
    BY <2>1, <2>2, <2>3
<1>5. /\ pc' \in {"header", "rows", "eof", "failed"}
      /\ at' \in 0 .. Len(lines)
      /\ pc' = "header" => at' = 0
      /\ pc' = "rows" /\ at' < Len(lines) => at' = FirstData
  BY <1>1, <1>3 DEF ResolveGiven, ResolveInferred, ResolveFails, HandleHeader, FirstData
<1>6. TypeOK'
  BY <1>1, <1>2, <1>4, <1>5, EmptyIs DEF TypeOK
<1>7. Position'
  BY <1>1, <1>2, <1>3, <1>5 DEF Position, FirstData
<1>8. Filled'
  BY <1>1, <1>4, EmptyIs DEF Filled
<1>9. Accounted'
  <2>1. RowsFrom([r \in 1 .. 0 |-> 0])'
    BY <1>1 DEF RowsFrom, Increasing
  <2>2. Increasing(reported') /\ DOMAIN reported' = {}
    BY <1>1, EmptyIs DEF Increasing
  <2>. QED
    BY <1>1, <2>1, <2>2 DEF Accounted
<1>. QED
  BY <1>1, <1>2, <1>6, <1>7, <1>8, <1>9 DEF IInv

\* What reading a data line changes, and what it does not.
LEMMA ReadIs ==
    ASSUME IInv, NEW F, Read(F), UNCHANGED <<config, types>>
    PROVE  /\ lines' = lines /\ policy' = policy /\ lines \in Seq(Seq(Char))
           /\ at \in Nat /\ lineNo \in Nat /\ numRows \in 0 .. lineNo
           /\ pc = "rows" /\ at' = at + 1 /\ lineNo' = lineNo + 1 /\ lineNo < at' /\ at' <= Len(lines)
           /\ F = Split(lines[FirstData + lineNo'])
           /\ Good(lineNo') <=> Fits(F)
           /\ \A i : Good(i)' <=> Good(i)
           /\ FirstData' = FirstData /\ \A l : Split(l)' = Split(l)
           /\ at' = FirstData' + lineNo'
<1>1. /\ lines' = lines /\ policy' = policy /\ skipHeader' = skipHeader /\ quoteAware' = quoteAware
      /\ types' = types
  BY DEF config
<1>2. /\ lines \in Seq(Seq(Char)) /\ Len(lines) \in Nat
      /\ at \in Nat /\ lineNo \in Nat /\ numRows \in 0 .. lineNo /\ lineNo <= at
  BY DEF IInv, TypeOK
<1>3. FirstData \in Nat /\ at = FirstData + lineNo
  BY DEF IInv, Position, Read, FirstData
<1>4. FirstData' = FirstData /\ \A l : Split(l)' = Split(l)
  BY <1>1 DEF FirstData, Split
<1>5. at + 1 = FirstData + (lineNo + 1)
  BY <1>2, <1>3
<1>6. F = Split(lines[FirstData + lineNo'])
  BY <1>5 DEF Read
<1>7. Good(lineNo') <=> Fits(F)
  BY <1>6 DEF Good
<1>8. \A i : Good(i)' <=> Good(i)
  BY <1>1, <1>4 DEF Good, Fits
<1>. QED
  BY <1>1, <1>2, <1>3, <1>4, <1>5, <1>6, <1>7, <1>8 DEF Read

\* A good line becomes the next row.
LEMMA NextOKIs ==
    ASSUME IInv, NextOK
    PROVE  IInv'
<1>. DEFINE F == Split(lines[at + 1])
            n == numRows + 1
<1>1. /\ Read(F) /\ Fits(F)
      /\ cols' = [i \in DOMAIN cols |-> Append(cols[i], F[i])]
      /\ numRows' = n
      /\ UNCHANGED <<config, pc, types, reported>>
  BY DEF NextOK
<1>. HIDE DEF F
<1>2. /\ lines' = lines /\ policy' = policy /\ lines \in Seq(Seq(Char)) /\ Len(lines) \in Nat
      /\ at \in Nat /\ lineNo \in Nat /\ numRows \in 0 .. lineNo
      /\ pc = "rows" /\ at' = at + 1 /\ lineNo' = lineNo + 1 /\ lineNo < at' /\ at' <= Len(lines)
      /\ F = Split(lines[FirstData + lineNo'])
      /\ Good(lineNo')
      /\ \A i : Good(i)' <=> Good(i)
      /\ FirstData' = FirstData /\ \A l : Split(l)' = Split(l)
      /\ at' = FirstData' + lineNo'
  BY <1>1, ReadIs
<1>3. ASSUME NEW c \in DOMAIN cols
      PROVE  /\ IsSequence(cols'[c]) /\ Len(cols'[c]) = n /\ DOMAIN cols'[c] = 1 .. n
             /\ \A r \in 1 .. numRows : cols'[c][r] = cols[c][r]
             /\ cols'[c][n] = F[c]
             /\ DOMAIN cols[c] = 1 .. numRows
  <2>1. IsSequence(cols[c]) /\ Len(cols[c]) = numRows /\ cols'[c] = Append(cols[c], F[c])
    BY <1>1 DEF IInv, Filled
  <2>. QED
    BY <2>1, AppendIs
<1>4. DOMAIN cols' = DOMAIN cols /\ DOMAIN cols = DOMAIN types /\ types' = types
  BY <1>1 DEF IInv, TypeOK
<1>5. TypeOK'
  <2>1. ASSUME NEW c \in DOMAIN cols, NEW r \in DOMAIN cols'[c]
        PROVE  Parses(types[c], cols'[c][r])
    <3>1. CASE r \in 1 .. numRows
      BY <1>3, <2>1, <3>1 DEF IInv, TypeOK
    <3>2. CASE r = n
      BY <1>1, <1>3, <1>4, <2>1, <3>2 DEF Fits
    <3>. QED
      BY <1>2, <1>3, <2>1, <3>1, <3>2
  <2>2. /\ pc' \in {"resolve", "header", "rows", "eof", "failed"}
        /\ at' \in 0 .. Len(lines) /\ lineNo' \in 0 .. at' /\ numRows' \in 0 .. lineNo'
    BY <1>1, <1>2
  <2>3. \A i \in DOMAIN reported : reported[i] \in 1 .. lineNo'
    BY <1>2 DEF IInv, TypeOK
  <2>. QED
    BY <1>1, <1>2, <1>4, <2>1, <2>2, <2>3 DEF TypeOK
<1>6. Position'
  BY <1>1, <1>2 DEF Position
<1>7. Filled'
  BY <1>1, <1>3, <1>4 DEF Filled
<1>8. PICK src : RowsFrom(src)
  BY DEF IInv, Accounted
<1>9. ASSUME NEW src2, src2 = [r \in 1 .. n |-> IF r = n THEN lineNo' ELSE src[r]]
      PROVE  RowsFrom(src2)'
  <2>1. /\ src \in [1 .. numRows -> 1 .. lineNo]
        /\ \A i, j \in 1 .. numRows : i < j => src[i] < src[j]
        /\ \A i \in 1 .. lineNo : Good(i) <=> \E r \in 1 .. numRows : src[r] = i
        /\ \A r \in 1 .. numRows : \A c \in DOMAIN cols :
              cols[c][r] = Split(lines[FirstData + src[r]])[c]
    BY <1>8 DEF RowsFrom, Increasing
  <2>2. /\ DOMAIN src2 = 1 .. n /\ src2[n] = lineNo'
        /\ \A r \in 1 .. numRows : src2[r] = src[r] /\ r \in 1 .. n
        /\ \A r \in 1 .. n : r # n => r \in 1 .. numRows
        /\ src2 \in [1 .. n -> 1 .. lineNo']
    BY <1>2, <1>9, <2>1, SMTT(30)
  <2>3. ASSUME NEW i \in 1 .. n, NEW j \in 1 .. n, i < j
        PROVE  src2[i] < src2[j]
    <3>1. i \in 1 .. numRows /\ src2[i] = src[i] /\ src[i] \in 1 .. lineNo
      BY <1>2, <2>1, <2>2, <2>3
    <3>2. CASE j = n
      BY <1>2, <2>2, <3>1, <3>2
    <3>3. CASE j # n
      BY <2>1, <2>2, <2>3, <3>1, <3>3
    <3>. QED
      BY <3>2, <3>3
  <2>4. ASSUME NEW i \in 1 .. lineNo'
        PROVE  Good(i) <=> \E r \in 1 .. n : src2[r] = i
    <3>1. CASE i = lineNo'
      BY <1>2, <2>2, <3>1
    <3>2. CASE i \in 1 .. lineNo
      BY <1>2, <2>1, <2>2, <3>2
    <3>. QED
      BY <1>2, <3>1, <3>2
  <2>5. ASSUME NEW r \in 1 .. n, NEW c \in DOMAIN cols
        PROVE  cols'[c][r] = Split(lines[FirstData + src2[r]])[c]
    <3>1. CASE r = n
      BY <1>2, <1>3, <2>2, <2>5, <3>1
    <3>2. CASE r # n
      BY <1>3, <2>1, <2>2, <2>5, <3>2
    <3>. QED
      BY <3>1, <3>2
  <2>. HIDE DEF n
  <2>. QED
    BY <1>1, <1>2, <1>4, <2>2, <2>3, <2>4, <2>5, ZenonT(30) DEF RowsFrom, Increasing
<1>10. Accounted'
  <2>1. policy = "skip" => /\ Increasing(reported)
                           /\ \A i \in 1 .. lineNo' :
                                 ~Good(i) <=> \E m \in DOMAIN reported : reported[m] = i
    <3>1. policy = "skip" => /\ Increasing(reported)
                             /\ \A i \in 1 .. lineNo :
                                   ~Good(i) <=> \E m \in DOMAIN reported : reported[m] = i
      BY DEF IInv, Accounted
    <3>2. \A m \in DOMAIN reported : reported[m] # lineNo'
      BY <1>2 DEF IInv, TypeOK
    <3>3. \A i \in 1 .. lineNo' : i = lineNo' \/ i \in 1 .. lineNo
      BY <1>2
    <3>. QED
      BY <1>2, <3>1, <3>2, <3>3
  <2>2. policy = "fail" => reported = <<>> /\ \A i \in 1 .. lineNo' : Good(i)
    <3>1. \A i \in 1 .. lineNo' : i = lineNo' \/ i \in 1 .. lineNo
      BY <1>2
    <3>. QED
      BY <1>2, <3>1 DEF IInv, Accounted
  <2>3. Increasing(reported)' <=> Increasing(reported)
    BY <1>1 DEF Increasing
  <2>. QED
    BY <1>1, <1>2, <1>9, <2>1, <2>2, <2>3 DEF Accounted
<1>. QED
  BY <1>1, <1>2, <1>5, <1>6, <1>7, <1>10 DEF IInv

\* A bad line leaves the batch alone.
LEMMA BatchStays ==
    ASSUME IInv, NEW F, Read(F), ~Fits(F), UNCHANGED <<config, types, cols, numRows>>,
           pc' \in {"rows", "failed"}
    PROVE  Filled' /\ Position' /\ \E src : RowsFrom(src)'
<1>1. /\ lines' = lines /\ at \in Nat /\ lineNo \in Nat /\ numRows \in 0 .. lineNo
      /\ pc = "rows" /\ lineNo' = lineNo + 1
      /\ ~Good(lineNo')
      /\ \A i : Good(i)' <=> Good(i)
      /\ FirstData' = FirstData /\ \A l : Split(l)' = Split(l)
      /\ at' = FirstData' + lineNo'
  BY ReadIs
<1>2. PICK src : RowsFrom(src)
  BY DEF IInv, Accounted
<1>3. /\ src \in [1 .. numRows -> 1 .. lineNo]
      /\ Increasing(src)
      /\ \A i \in 1 .. lineNo : Good(i) <=> \E r \in 1 .. numRows : src[r] = i
      /\ \A r \in 1 .. numRows : \A c \in DOMAIN cols :
            cols[c][r] = Split(lines[FirstData + src[r]])[c]
  BY <1>2 DEF RowsFrom
<1>4. src \in [1 .. numRows -> 1 .. lineNo']
  BY <1>1, <1>3
<1>5. \A i \in 1 .. lineNo' : Good(i) <=> \E r \in 1 .. numRows : src[r] = i
  <2>1. \A i \in 1 .. lineNo' : i = lineNo' \/ i \in 1 .. lineNo
    BY <1>1
  <2>2. \A r \in 1 .. numRows : src[r] # lineNo'
    BY <1>1, <1>3
  <2>. QED
    BY <1>1, <1>3, <2>1, <2>2
<1>6. RowsFrom(src)'
  BY <1>1, <1>3, <1>4, <1>5 DEF RowsFrom, Increasing
<1>7. Filled'
  BY DEF IInv, Filled
<1>8. Position'
  BY <1>1 DEF Position
<1>. QED
  BY <1>6, <1>7, <1>8

\* handleRowError under the policy that skips.
LEMMA NextSkippedIs ==
    ASSUME IInv, NextSkipped
    PROVE  IInv'
<1>. DEFINE F == Split(lines[at + 1])
            more == Append(reported, lineNo')
            m == Len(reported)
<1>1. /\ Read(F) /\ ~Fits(F) /\ policy = "skip" /\ reported' = more
      /\ UNCHANGED <<config, pc, types, cols, numRows>>
  BY DEF NextSkipped
<1>. HIDE DEF F
<1>2. /\ lines' = lines /\ policy' = policy /\ lines \in Seq(Seq(Char)) /\ Len(lines) \in Nat
      /\ at \in Nat /\ lineNo \in Nat /\ numRows \in 0 .. lineNo
      /\ pc = "rows" /\ at' = at + 1 /\ lineNo' = lineNo + 1 /\ lineNo < at' /\ at' <= Len(lines)
      /\ ~Good(lineNo')
      /\ \A i : Good(i)' <=> Good(i)
  BY <1>1, ReadIs
<1>3. Filled' /\ Position' /\ \E src : RowsFrom(src)'
  BY <1>1, <1>2, BatchStays
<1>4. /\ IsSequence(reported) /\ IsSequence(more) /\ m \in Nat
      /\ DOMAIN reported = 1 .. m /\ DOMAIN more = 1 .. m + 1
      /\ \A i \in 1 .. m : more[i] = reported[i] /\ reported[i] \in 1 .. lineNo
      /\ more[m + 1] = lineNo'
  BY AppendIs DEF IInv, TypeOK
<1>. HIDE DEF more, m
<1>5. TypeOK'
  <2>1. \A i \in DOMAIN more : more[i] \in 1 .. lineNo'
    BY <1>2, <1>4, SMTT(30)
  <2>. QED
    BY <1>1, <1>2, <2>1 DEF IInv, TypeOK
<1>6. Accounted'
  <2>1. Increasing(more)
    <3>. SUFFICES ASSUME NEW i \in 1 .. m + 1, NEW j \in 1 .. m + 1, i < j
                  PROVE  more[i] < more[j]
      BY <1>4 DEF Increasing
    <3>1. i \in 1 .. m /\ more[i] = reported[i] /\ reported[i] \in 1 .. lineNo
      BY <1>4
    <3>2. CASE j = m + 1
      BY <1>2, <1>4, <3>1, <3>2
    <3>3. CASE j \in 1 .. m
      BY <1>1, <1>4, <3>1, <3>3 DEF IInv, Accounted, Increasing
    <3>. QED
      BY <1>4, <3>2, <3>3
  <2>2. ASSUME NEW i \in 1 .. lineNo'
        PROVE  ~Good(i) <=> \E n \in DOMAIN more : more[n] = i
    <3>1. CASE i = lineNo'
      <4>1. m + 1 \in DOMAIN more /\ more[m + 1] = i
        BY <1>4, <3>1
      <4>. QED
        BY <1>2, <3>1, <4>1
    <3>2. CASE i \in 1 .. lineNo
      <4>1. ~Good(i) <=> \E n \in DOMAIN reported : reported[n] = i
        BY <1>1, <3>2 DEF IInv, Accounted
      <4>2. i # lineNo'
        BY <1>2, <3>2
      <4>3. \A n \in DOMAIN more : n = m + 1 \/ n \in DOMAIN reported
        BY <1>4
      <4>. QED
        BY <1>4, <4>1, <4>2, <4>3
    <3>. QED
      BY <1>2, <3>1, <3>2
  <2>. QED
    BY <1>1, <1>2, <1>3, <2>1, <2>2 DEF Accounted, Increasing
<1>. QED
  BY <1>1, <1>2, <1>3, <1>4, <1>5, <1>6 DEF IInv

\* handleRowError under the policy that fails.
LEMMA NextFailsIs ==
    ASSUME IInv, NextFails
    PROVE  IInv'
<1>. DEFINE F == Split(lines[at + 1])
<1>1. /\ Read(F) /\ ~Fits(F) /\ policy = "fail" /\ pc' = "failed"
      /\ UNCHANGED <<config, types, cols, numRows, reported>>
  BY DEF NextFails
<1>. HIDE DEF F
<1>2. /\ lines' = lines /\ policy' = policy /\ lines \in Seq(Seq(Char)) /\ Len(lines) \in Nat
      /\ at \in Nat /\ lineNo \in Nat /\ numRows \in 0 .. lineNo
      /\ pc = "rows" /\ at' = at + 1 /\ lineNo' = lineNo + 1 /\ lineNo < at' /\ at' <= Len(lines)
      /\ ~Good(lineNo')
      /\ \A i : Good(i)' <=> Good(i)
  BY <1>1, ReadIs
<1>3. Filled' /\ Position' /\ \E src : RowsFrom(src)'
  BY <1>1, <1>2, BatchStays
<1>4. TypeOK'
  <2>1. \A i \in DOMAIN reported : reported[i] \in 1 .. lineNo'
    BY <1>2 DEF IInv, TypeOK
  <2>. QED
    BY <1>1, <1>2, <2>1 DEF IInv, TypeOK
<1>5. Accounted'
  <2>1. reported = <<>> /\ \A i \in 1 .. lineNo : Good(i)
    BY <1>1, <1>2 DEF IInv, Accounted
  <2>2. \A i \in 1 .. lineNo' : i = lineNo' \/ i \in 1 .. lineNo
    BY <1>2
  <2>. QED
    BY <1>1, <1>2, <1>3, <2>1, <2>2 DEF Accounted
<1>. QED
  BY <1>1, <1>2, <1>3, <1>4, <1>5 DEF IInv

\* The reader is at the end: the batch is as it was.
LEMMA NextEOFIs ==
    ASSUME IInv, NextEOF
    PROVE  IInv'
<1>1. /\ lines' = lines /\ policy' = policy /\ skipHeader' = skipHeader /\ quoteAware' = quoteAware
      /\ pc = "rows" /\ pc' = "eof" /\ policy \in {"skip", "fail"}
      /\ UNCHANGED <<config, types, at, lineNo, cols, numRows, reported>>
  BY DEF NextEOF, config, IInv
<1>2. FirstData' = FirstData /\ \A l : Split(l)' = Split(l)
  BY <1>1 DEF FirstData, Split
<1>3. \A i : Good(i)' <=> Good(i)
  BY <1>1, <1>2 DEF Good, Fits
<1>4. TypeOK'
  BY <1>1 DEF IInv, TypeOK
<1>5. Position' /\ Filled'
  BY <1>1, <1>2 DEF IInv, Position, Filled
<1>6. Accounted'
  <2>1. PICK src : RowsFrom(src)
    BY DEF IInv, Accounted
  <2>2. RowsFrom(src)'
    BY <1>1, <1>2, <1>3, <2>1 DEF RowsFrom, Increasing
  <2>. QED
    BY <1>1, <1>3, <2>2 DEF IInv, Accounted, Increasing
<1>. QED
  BY <1>1, <1>4, <1>5, <1>6 DEF IInv

-----------------------------------------------------------------------------
(* The theorems. *)

\* However resolveSchema, handleHeader and next follow each other, the inductive
\* invariant holds.
THEOREM Invariance == Spec => []IInv
<1>1. IInv /\ [Next]_vars => IInv'
  <2>. SUFFICES ASSUME IInv, [Next]_vars PROVE IInv'
    OBVIOUS
  <2>1. CASE ResolveGiven \/ ResolveInferred \/ ResolveFails \/ HandleHeader
    BY <2>1, BeforeRowsIs
  <2>2. CASE NextOK
    BY <2>2, NextOKIs
  <2>3. CASE NextSkipped
    BY <2>3, NextSkippedIs
  <2>4. CASE NextFails
    BY <2>4, NextFailsIs
  <2>5. CASE NextEOF
    BY <2>5, NextEOFIs
  <2>6. CASE UNCHANGED vars
    <3>1. UNCHANGED <<lines, quoteAware, explicit, skipHeader, policy, pc, types, at, lineNo,
                      cols, numRows, reported>>
      BY <2>6 DEF vars
    <3>2. FirstData' = FirstData /\ \A l : Split(l)' = Split(l)
      BY <3>1 DEF FirstData, Split
    <3>3. \A i : Good(i)' <=> Good(i)
      BY <3>1, <3>2 DEF Good, Fits
    <3>4. TypeOK' /\ Position' /\ Filled'
      BY <3>1, <3>2 DEF IInv, TypeOK, Position, Filled
    <3>5. Accounted'
      <4>1. PICK src : RowsFrom(src)
        BY DEF IInv, Accounted
      <4>2. RowsFrom(src)'
        BY <3>1, <3>2, <3>3, <4>1 DEF RowsFrom, Increasing
      <4>. QED
        BY <3>1, <3>3, <4>2 DEF IInv, Accounted, Increasing
    <3>. QED
      BY <3>1, <3>4, <3>5 DEF IInv
  <2>. QED
    BY <2>1, <2>2, <2>3, <2>4, <2>5, <2>6 DEF Next
<1>. QED
  BY <1>1, InitIs, PTL DEF Spec

\* A batch has a column per column of the schema, every value of it parses as the
\* column's type, and no line number is reported that was not read.
THEOREM TypeCorrect == Spec => []TypeOK
<1>1. IInv => TypeOK
  BY DEF IInv
<1>. QED
  BY <1>1, Invariance, PTL

\* A line dropped half-way leaves no value behind: row r of the batch is row r of each
\* of its columns (parser.go:281-284).
THEOREM ColumnsAligned == Spec => []Aligned
<1>1. IInv => Aligned
  BY DEF IInv, Filled, Aligned
<1>. QED
  BY <1>1, Invariance, PTL

\* No data line is lost and none counts twice: each is a row, a report or the end of the
\* run, and the rows and reports are in the order of the file (parser.go:244-249).
THEOREM LinesAccounted == Spec => []Accounted
<1>1. IInv => Accounted
  BY DEF IInv
<1>. QED
  BY <1>1, Invariance, PTL

-----------------------------------------------------------------------------
(* The places of the rows and of the reports. *)

\* s lists the numbers of a set in order: its length is how many there are, and the place
\* of a number in it is the place in the set.
LEMMA PlacesAre ==
    ASSUME NEW m \in Nat, NEW n \in Nat, NEW s \in [1 .. m -> 1 .. n], Increasing(s),
           NEW S, \A x : x \in S <=> \E r \in 1 .. m : s[r] = x
    PROVE  Cardinality(S) = m /\ \A r \in 1 .. m : PlaceIn(S, s[r]) = r
<1>. DEFINE First(k) == {s[r] : r \in 1 .. k}
<1>1. ASSUME NEW k \in 0 .. m
      PROVE  Cardinality(First(k)) = k
  <2>. DEFINE f == [r \in 1 .. k |-> s[r]]
              T == First(k)
  <2>1. \A r \in 1 .. k : r \in 1 .. m /\ s[r] \in T
    OBVIOUS
  <2>2. \A q, r \in 1 .. m : s[q] = s[r] => q = r
    <3>1. \A q, r \in 1 .. m : q < r => s[q] < s[r]
      BY DEF Increasing
    <3>2. \A q \in 1 .. m : s[q] \in Int
      OBVIOUS
    <3>. QED
      BY <3>1, <3>2
  <2>3. f \in [1 .. k -> T] /\ \A r \in 1 .. k : f[r] = s[r]
    BY <2>1
  <2>4. \A t \in T : \E r \in 1 .. k : f[r] = t
    BY <2>3
  <2>. HIDE DEF f, T
  <2>5. \A q, r \in 1 .. k : f[q] = f[r] => q = r
    BY <2>1, <2>2, <2>3
  <2>6. ExistsBijection(1 .. k, T)
    <3>1. f \in Bijection(1 .. k, T)
      BY <2>3, <2>4, <2>5, Fun_IsBij
    <3>. QED
      BY <3>1 DEF ExistsBijection
  <2>7. IsFiniteSet(1 .. k) /\ Cardinality(1 .. k) = k
    <3>1. 1 \in Int /\ k \in Int /\ k >= 0
      OBVIOUS
    <3>2. IsFiniteSet(1 .. k) /\ Cardinality(1 .. k) = IF 1 > k THEN 0 ELSE k - 1 + 1
      BY <3>1, FS_Interval
    <3>. QED
      BY <3>1, <3>2
  <2>8. Cardinality(T) = k
    BY <2>6, <2>7, FS_Bijection
  <2>. QED
    BY <2>8 DEF T
<1>2. S = First(m) /\ m \in 0 .. m
  OBVIOUS
<1>3. ASSUME NEW r \in 1 .. m
      PROVE  PlaceIn(S, s[r]) = r
  <2>1. ASSUME NEW q \in 1 .. m
        PROVE  s[q] <= s[r] <=> q <= r
    <3>1. s[q] \in Int /\ s[r] \in Int
      OBVIOUS
    <3>2. (q < r => s[q] < s[r]) /\ (r < q => s[r] < s[q])
      BY DEF Increasing
    <3>3. q \in Int /\ r \in Int /\ (q = r => s[q] = s[r])
      OBVIOUS
    <3>. QED
      BY <3>1, <3>2, <3>3
  <2>2. {j \in S : j <= s[r]} = First(r)
    <3>1. \A q \in 1 .. r : q \in 1 .. m /\ q <= r
      OBVIOUS
    <3>2. \A q \in 1 .. m : q <= r => q \in 1 .. r
      OBVIOUS
    <3>. QED
      BY <2>1, <3>1, <3>2
  <2>3. r \in 0 .. m
    OBVIOUS
  <2>. HIDE DEF First
  <2>. QED
    BY <1>1, <2>2, <2>3 DEF PlaceIn
<1>. HIDE DEF First
<1>. QED
  BY <1>1, <1>2, <1>3

-----------------------------------------------------------------------------
(* The rows are the lines. *)

\* The schema in use, and why a run that skips lines fails.
Settled ==
    /\ explicit \in Tables /\ types \in Seq({"string", "number"})
    /\ policy = "skip" /\ pc = "failed" => explicit = <<>>

\* The columns are given, or a header line has fields.
LEMMA SettledStays ==
    ASSUME IInv, Settled, [Next]_vars
    PROVE  Settled'
<1>. DEFINE T == {"string", "number"}
<1>1. explicit \in Seq(T) /\ <<>> \in Seq(T) /\ lines \in Seq(Seq(Char))
  BY RowParserAssumption DEF Settled, IInv
<1>2. explicit' = explicit /\ policy' = policy
  BY DEF Next, vars, config, ResolveGiven, ResolveInferred, ResolveFails, HandleHeader,
         NextOK, NextSkipped, NextFails, NextEOF
<1>3. types' \in Seq(T)
  <2>1. CASE ResolveGiven
    BY <1>1, <2>1 DEF ResolveGiven, Columns
  <2>2. CASE ResolveInferred
    <3>1. CASE lines = <<>>
      BY <1>1, <2>2, <3>1 DEF ResolveInferred, Columns
    <3>2. CASE lines # <<>>
      <4>. DEFINE F == SplitFields(lines[1])
      <4>1. lines[1] \in Seq(Char)
        BY <1>1, <3>2
      <4>2. F \in Seq(Seq(Char))
        BY <4>1, SplitFieldsType DEF Fields
      <4>3. types' = [i \in DOMAIN F |-> "string"]
        BY <2>2, <3>2 DEF ResolveInferred, Columns
      <4>. HIDE DEF F
      <4>4. DOMAIN F = 1 .. Len(F) /\ Len(F) \in Nat
        BY <4>2
      <4>5. types' \in [1 .. Len(F) -> T]
        BY <4>3, <4>4
      <4>. QED
        BY <4>4, <4>5, SeqDef
    <3>. QED
      BY <3>1, <3>2
  <2>3. CASE types' = types
    BY <2>3 DEF Settled
  <2>. QED
    BY <2>1, <2>2, <2>3 DEF Next, vars, ResolveFails, HandleHeader, NextOK, NextSkipped,
                            NextFails, NextEOF
<1>4. policy = "skip" /\ pc' = "failed" => explicit = <<>>
  BY DEF Settled, Next, vars, ResolveGiven, ResolveInferred, ResolveFails, HandleHeader,
         NextOK, NextSkipped, NextFails, NextEOF
<1>. QED
  BY <1>2, <1>3, <1>4 DEF Settled

\* A data line that was read.
LEMMA LineIs ==
    ASSUME IInv, NEW i \in 1 .. lineNo
    PROVE  lines[FirstData + i] \in Seq(Char)
<1>1. /\ lines \in Seq(Seq(Char)) /\ lineNo \in Nat /\ FirstData \in Nat /\ at \in 0 .. Len(lines)
  BY DEF IInv, TypeOK, FirstData
<1>2. at = FirstData + lineNo
  BY <1>1 DEF IInv, Position
<1>3. FirstData + i \in 1 .. Len(lines)
  BY <1>1, <1>2
<1>. QED
  BY <1>1, <1>3

\* The lines that join the batch are those with a reading that fits the columns.
LEMMA RowIsGood ==
    ASSUME IInv, Settled, NEW i \in 1 .. lineNo
    PROVE  IsRow(i) <=> Good(i)
<1>. DEFINE line == lines[FirstData + i]
            F == Split(line)
<1>1. /\ Readings(line) = IF F = NoFields THEN {} ELSE {F}
      /\ F # NoFields => F \in Fields
  BY LineIs, SplitReads
<1>2. DOMAIN types = 1 .. Len(types)
  BY DEF Settled
<1>3. IsRow(i) <=> \E G \in Readings(line) :
                      Len(G) = Len(types) /\ \A c \in DOMAIN G : Parses(types[c], G[c])
  BY DEF IsRow
<1>4. Good(i) <=> /\ F # NoFields
                  /\ Len(F) = Len(types)
                  /\ \A c \in DOMAIN types : Parses(types[c], F[c])
  BY DEF Good, Fits
<1>. HIDE DEF F, line
<1>5. CASE F = NoFields
  BY <1>1, <1>3, <1>4, <1>5
<1>6. CASE F # NoFields
  <2>1. Readings(line) = {F} /\ DOMAIN F = 1 .. Len(F)
    BY <1>1, <1>6 DEF Fields
  <2>. QED
    BY <1>2, <1>3, <1>4, <1>6, <2>1
<1>. QED
  BY <1>5, <1>6

\* The numbers of the rows, and of the reports, tell which lines these are.
LEMMA RowsAre ==
    ASSUME IInv, Settled
    PROVE  RowsAreTheLines
<1>. DEFINE good == {i \in 1 .. lineNo : IsRow(i)}
            bad  == 1 .. lineNo \ good
<1>1. lineNo \in Nat /\ numRows \in Nat /\ DOMAIN cols = DOMAIN types
  BY DEF IInv, TypeOK
<1>2. \A i \in 1 .. lineNo : i \in good <=> Good(i)
  BY RowIsGood
<1>3. good \subseteq 1 .. lineNo /\ \A i : i \in bad <=> i \in 1 .. lineNo /\ ~Good(i)
  BY <1>2
<1>. HIDE DEF good
<1>4. PICK src : RowsFrom(src)
  BY DEF IInv, Accounted
<1>5. /\ src \in [1 .. numRows -> 1 .. lineNo]
      /\ Increasing(src)
      /\ \A i \in 1 .. lineNo : Good(i) <=> \E r \in 1 .. numRows : src[r] = i
      /\ \A r \in 1 .. numRows : \A c \in DOMAIN cols :
            cols[c][r] = Split(lines[FirstData + src[r]])[c]
  BY <1>4 DEF RowsFrom
<1>6. \A x : x \in good <=> \E r \in 1 .. numRows : src[r] = x
  <2>1. \A r \in 1 .. numRows : src[r] \in 1 .. lineNo
    BY <1>5
  <2>. QED
    BY <1>2, <1>3, <1>5, <2>1
<1>7. Cardinality(good) = numRows /\ \A r \in 1 .. numRows : PlaceIn(good, src[r]) = r
  BY <1>1, <1>5, <1>6, PlacesAre
<1>8. ASSUME NEW i \in good
      PROVE  Readings(lines[FirstData + i])
                = {[c \in DOMAIN cols |-> cols[c][PlaceIn(good, i)]]}
  <2>. DEFINE line == lines[FirstData + i]
              F == Split(line)
              row == [c \in DOMAIN cols |-> cols[c][PlaceIn(good, i)]]
  <2>1. i \in 1 .. lineNo /\ Good(i)
    BY <1>2, <1>3
  <2>2. F # NoFields /\ Len(F) = Len(types)
    BY <2>1 DEF Good, Fits
  <2>3. Readings(line) = {F} /\ F \in Seq(Seq(Char))
    BY <2>1, <2>2, LineIs, SplitReads DEF Fields
  <2>4. PICK r \in 1 .. numRows : src[r] = i
    BY <1>5, <2>1
  <2>5. PlaceIn(good, i) = r /\ \A c \in DOMAIN cols : cols[c][r] = F[c]
    BY <1>5, <1>7, <2>4
  <2>6. DOMAIN cols = 1 .. Len(F)
    BY <1>1, <2>2 DEF Settled
  <2>. HIDE DEF F
  <2>7. DOMAIN F = 1 .. Len(F) /\ F = [c \in DOMAIN F |-> F[c]]
    BY <2>3
  <2>8. row = F
    BY <2>5, <2>6, <2>7
  <2>. QED
    BY <2>3, <2>8
<1>9. ASSUME policy = "skip"
      PROVE  /\ Len(reported) = Cardinality(bad)
             /\ \A i \in bad : reported[PlaceIn(bad, i)] = i
             /\ pc = "failed" => explicit = <<>>
  <2>. DEFINE m == Len(reported)
  <2>1. IsSequence(reported) /\ \A i \in DOMAIN reported : reported[i] \in 1 .. lineNo
    BY DEF IInv, TypeOK
  <2>2. m \in Nat /\ reported \in [1 .. m -> 1 .. lineNo]
    <3>1. PICK X : reported \in Seq(X)
      BY <2>1 DEF IsSequence
    <3>2. m \in Nat /\ DOMAIN reported = 1 .. m /\ reported \in [1 .. m -> X]
      BY <3>1
    <3>. QED
      BY <2>1, <3>2
  <2>3. /\ Increasing(reported)
        /\ \A i \in 1 .. lineNo : ~Good(i) <=> \E n \in DOMAIN reported : reported[n] = i
    BY <1>9 DEF IInv, Accounted
  <2>. HIDE DEF m, bad
  <2>4. \A x : x \in bad <=> \E n \in 1 .. m : reported[n] = x
    <3>1. \A n \in 1 .. m : reported[n] \in 1 .. lineNo
      BY <2>2
    <3>2. DOMAIN reported = 1 .. m
      BY <2>2
    <3>. QED
      BY <1>3, <2>3, <3>1, <3>2
  <2>5. Cardinality(bad) = m /\ \A n \in 1 .. m : PlaceIn(bad, reported[n]) = n
    BY <1>1, <2>2, <2>3, <2>4, PlacesAre
  <2>6. \A i \in bad : reported[PlaceIn(bad, i)] = i
    BY <2>4, <2>5
  <2>. QED
    BY <1>9, <2>5, <2>6 DEF m, Settled
<1>10. ASSUME policy = "fail"
       PROVE  reported = <<>> /\ \A i \in bad : i = lineNo /\ pc = "failed"
  BY <1>3, <1>10 DEF IInv, Accounted
<1>11. Aligned
  BY DEF IInv, Filled, Aligned
<1>. QED
  BY <1>7, <1>8, <1>9, <1>10, <1>11 DEF RowsAreTheLines, good

\* The rows of the batch are, in order, the data lines that are well-formed rows of the
\* schema, with the texts they stand for; every other line is reported once, in order, or
\* ends the run, with nothing left of it in any column (parser.go:259-319).
THEOREM RowsCorrect == Spec => []RowsAreTheLines
<1>1. Init => Settled
  <2>1. <<>> \in Seq({"string", "number"})
    OBVIOUS
  <2>. QED
    BY <2>1 DEF Init, Settled
<1>2. IInv /\ Settled /\ [Next]_vars => Settled'
  BY SettledStays
<1>3. IInv /\ Settled => RowsAreTheLines
  BY RowsAre
<1>. QED
  BY <1>1, <1>2, <1>3, Invariance, PTL DEF Spec
=============================================================================
