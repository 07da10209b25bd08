------------------------------- MODULE TDigest -------------------------------
(***************************************************************************)
(* The t-digests behind percentile measures: each worker feeds one per     *)
(* group, RunParallel merges them pairwise, and Result reads quantiles off *)
(* the last.  Values wait in a buffer; compress folds the buffer and the   *)
(* centroids together whenever it is full, and before every read or merge, *)
(* so that when it runs depends on who reads and merges when.              *)
(*                                                                         *)
(* Values are integers, and a centroid is the sum and the number of its    *)
(* points, so that means are exact: rounding and infinities are left out.  *)
(* The scale function is a table over the fractions that can occur.        *)
(***************************************************************************)
EXTENDS Integers, Sequences, FiniteSets, FiniteSetsExt, SequencesExt, Functions

CONSTANTS
    Digests,    \* one digest per worker
    Vals,       \* values of the measure column
    NaN,
    BufferCap,  \* tdigestBufferCap
    MaxPoints,  \* bound: values taken to all digests together
    Scale,      \* Scale[n][i] is tdigestScale(i / n, compression), in steps of 1 / Unit
    Unit,
    Ranks       \* the quantiles read, in steps of 1 / RankUnit
RankUnit == 4

ASSUME TDigestAssumption ==
    /\ IsFiniteSet(Digests)
    /\ IsFiniteSet(Vals) /\ Vals \subseteq Int \cup {NaN}
    /\ BufferCap \in Nat \ {0} /\ MaxPoints \in Nat /\ Unit \in Nat \ {0}
    /\ Ranks \subseteq 0 .. RankUnit
    /\ \A n \in 1 .. MaxPoints :
          /\ \A i \in 0 .. n : Scale[n][i] \in Int
          /\ \A i, j \in 0 .. n : i < j => Scale[n][i] < Scale[n][j]

VARIABLES
    dig,    \* per digest: centroids, buffer and extremes
    live,   \* digests that were not merged into another
    taken     \* history: per digest, how often it was given each value

digestVars == <<dig, live, taken>>

Numbers == Vals \ {NaN}

NewTDigest == [centroids |-> <<>>, buffer |-> <<>>, min |-> 0, max |-> 0,
               haveMinMax |-> FALSE]

DigestInit ==
    /\ dig = [d \in Digests |-> NewTDigest]
    /\ live = Digests
    /\ taken = [d \in Digests |-> [v \in Numbers |-> 0]]

-----------------------------------------------------------------------------
(* Weighted points. *)

Point(v) == [sum |-> v, weight |-> 1]

\* The mean of p is less than, or at most, the mean of q.
Below(p, q) == p.sum * q.weight < q.sum * p.weight
AtMost(p, q) == ~Below(q, p)

Join(p, q) == [sum |-> p.sum + q.sum, weight |-> p.weight + q.weight]

Weight(s) == SumFunction([i \in DOMAIN s |-> s[i].weight])
Sum(s) == SumFunction([i \in DOMAIN s |-> s[i].sum])

\* Every order sort.Slice may leave the points in: it is not stable, and points of
\* the same mean may differ in weight.
Sorted(s) ==
    LET Orders[I \in SUBSET DOMAIN s] ==
            IF I = {} THEN {<<>>}
            ELSE LET first == {i \in I : \A j \in I : AtMost(s[i], s[j])}
                 IN UNION {{<<s[i]>> \o t : t \in Orders[I \ {i}]} :
                             i \in {i \in first : \A j \in first : s[j] = s[i] => i <= j}}
    IN Orders[DOMAIN s]

-----------------------------------------------------------------------------
(* compress. *)

\* Does a centroid from rank i up to rank j (of n) stay within one step of the
\* scale?
Within(n, i, j) == Scale[n][j] - Scale[n][i] <= Unit

\* The centroids finished, the current one, the rank it starts at and the points
\* taken so far.
Begin(p) == [done |-> <<>>, cur |-> p, start |-> 0, seen |-> p.weight]

\* Mutated form of Take: the baseline moves along with every point.
TakeDrifting(n, acc, p) ==
    IF Within(n, acc.seen, acc.seen + p.weight)
    THEN [acc EXCEPT !.cur = Join(@, p), !.seen = @ + p.weight]
    ELSE [done |-> Append(acc.done, acc.cur), cur |-> p,
          start |-> acc.seen, seen |-> acc.seen + p.weight]

\* The current centroid takes the next of n points unless it would span more than
\* one step of the scale since its own start.
Take(n, acc, p) ==
    IF Within(n, acc.start, acc.seen + p.weight)
    THEN [acc EXCEPT !.cur = Join(@, p), !.seen = @ + p.weight]
    ELSE [done |-> Append(acc.done, acc.cur), cur |-> p,
          start |-> acc.seen, seen |-> acc.seen + p.weight]

\* Mutated form of Finished: the last centroid is not kept.
Unfinished(acc) == IF acc.done = <<>> THEN <<acc.cur>> ELSE acc.done

Finished(acc) == Append(acc.done, acc.cur)

\* The greedy pass over sorted points.
Gather(s) ==
    LET n == Weight(s)
    IN Finished(FoldLeft(LAMBDA acc, p : Take(n, acc, p), Begin(Head(s)), Tail(s)))

\* The centroids, and a point for each buffered value.
Singles(b) == [i \in DOMAIN b |-> Point(b[i])]
PointsOf(t) == t.centroids \o Singles(t.buffer)

\* The digests compress may leave.
Compressed(t) ==
    {[t EXCEPT !.centroids = IF s = <<>> THEN s ELSE Gather(s), !.buffer = <<>>] :
        s \in Sorted(PointsOf(t))}

FlushPending(t) == IF t.buffer = <<>> THEN {t} ELSE Compressed(t)

-----------------------------------------------------------------------------
(* Add, Quantile and Merge. *)

\* Mutated form: the buffer is compressed one value late.
BufferedLate(t) == IF Len(t.buffer) > BufferCap THEN Compressed(t) ELSE {t}

\* What becomes of a digest that got a value.
Buffered(t) == IF Len(t.buffer) >= BufferCap THEN Compressed(t) ELSE {t}

Extended(t, lo, hi) ==
    [t EXCEPT !.min = IF t.haveMinMax THEN Min({@, lo}) ELSE lo,
              !.max = IF t.haveMinMax THEN Max({@, hi}) ELSE hi,
              !.haveMinMax = TRUE]

\* A NaN is not taken in.
Add(d, v) ==
    /\ d \in live
    /\ SumFunction([e \in live |-> SumFunction(taken[e])]) < MaxPoints
    /\ IF v = NaN
       THEN UNCHANGED <<dig, taken>>
       ELSE /\ \E t \in Buffered([Extended(dig[d], v, v) EXCEPT !.buffer = Append(@, v)]) :
                  dig' = [dig EXCEPT ![d] = t]
            /\ taken' = [taken EXCEPT ![d][v] = @ + 1]
    /\ UNCHANGED live

\* The effect of Quantile on the digest it reads.
Read(d) ==
    /\ d \in live
    /\ dig[d].buffer # <<>>
    /\ \E t \in FlushPending(dig[d]) : dig' = [dig EXCEPT ![d] = t]
    /\ UNCHANGED <<live, taken>>

\* Mutated form: the extremes of the other digest are lost.
MergedCentroids(t, u) == [t EXCEPT !.centroids = @ \o u.centroids]

\* The points and the extremes of both, before they are compressed.
Merged(t, u) ==
    [(IF u.haveMinMax THEN Extended(t, u.min, u.max) ELSE t)
        EXCEPT !.centroids = @ \o u.centroids]

\* o is merged into d and not used again.
Merge(d, o) ==
    /\ {d, o} \subseteq live /\ d # o
    /\ \E t \in FlushPending(dig[d]), u \in FlushPending(dig[o]) :
          \E m \in Compressed(Merged(t, u)) : dig' = [dig EXCEPT ![d] = m, ![o] = u]
    /\ live' = live \ {o}
    /\ taken' = [taken EXCEPT ![d] = [v \in Numbers |-> @[v] + taken[o][v]]]

DigestNext ==
    \/ \E d \in Digests, v \in Vals : Add(d, v)
    \/ \E d \in Digests : Read(d)
    \/ \E d, o \in Digests : Merge(d, o)

DigestSpec == DigestInit /\ [][DigestNext]_digestVars

-----------------------------------------------------------------------------
(* The value Quantile returns for a flushed digest, as a fraction. *)

Fraction(n, d) == [num |-> n, den |-> d]

Leq(x, y) == x.num * y.den <= y.num * x.den

\* x + f (y - x)
Between(x, y, f) ==
    Fraction(x.num * y.den * f.den + f.num * (y.num * x.den - x.num * y.den),
             x.den * y.den * f.den)

\* The curve that is interpolated: the minimum at rank 0, each mean in the middle
\* of its centroid, the maximum at the end.  Ranks are doubled.
Knots(t) ==
    LET c == t.centroids
    IN <<[at |-> 0, val |-> Fraction(t.min, 1)]>>
       \o [i \in DOMAIN c |-> [at  |-> 2 * Weight(SubSeq(c, 1, i - 1)) + c[i].weight,
                               val |-> Fraction(c[i].sum, c[i].weight)]]
       \o <<[at |-> 2 * Weight(c), val |-> Fraction(t.max, 1)]>>

Quantile(t, r) ==
    LET k == Knots(t)
        rank == 2 * r * Weight(t.centroids)     \* in steps of 1 / RankUnit
        i == Min({j \in 2 .. Len(k) : rank <= RankUnit * k[j].at})
    IN IF Len(t.centroids) = 1 THEN k[2].val
       ELSE Between(k[i - 1].val, k[i].val,
                    Fraction(rank - RankUnit * k[i - 1].at,
                             RankUnit * (k[i].at - k[i - 1].at)))

-----------------------------------------------------------------------------
(* Properties. *)

DigestTypeOK ==
    /\ live \subseteq Digests
    /\ taken \in [Digests -> [Numbers -> 0 .. MaxPoints]]
    /\ \A d \in Digests :
          /\ dig[d].centroids \in Seq([sum : Int, weight : Nat \ {0}])
          /\ dig[d].buffer \in Seq(Numbers) /\ Len(dig[d].buffer) < BufferCap
          /\ {dig[d].min, dig[d].max} \subseteq Numbers \cup {0}
          /\ dig[d].haveMinMax \in BOOLEAN

\* However values are buffered, folded, read and merged, a digest stands for all of
\* the values it was given: their number, their sum and their extremes.
Conserved ==
    \A d \in live :
        LET t == dig[d]
            given == {v \in Numbers : taken[d][v] > 0}
        IN /\ Weight(t.centroids) + Len(t.buffer) = SumFunction(taken[d])
           /\ Sum(t.centroids) + SumFunction(t.buffer)
                 = SumFunction([v \in Numbers |-> v * taken[d][v]])
           /\ t.haveMinMax = (given # {})
           /\ given # {} => t.min = Min(given) /\ t.max = Max(given)

\* Whatever order the sort left: quantiles lie between the extremes and do not
\* decrease from one rank to a higher one.
Quantiles ==
    \A d \in live : \A t \in FlushPending(dig[d]) :
        t.haveMinMax =>
            \A r \in Ranks :
                LET x == Quantile(t, r)
                IN /\ Leq(Fraction(t.min, 1), x) /\ Leq(x, Fraction(t.max, 1))
                   /\ \A s \in Ranks : s >= r => Leq(x, Quantile(t, s))

\* The points the next compress may start from, besides single values.
Clusters == UNION {Range(t.centroids) :
                t \in UNION {FlushPending(dig[d]) \cup {dig[d]} : d \in live}}

\* A centroid of c is a single point, one of old, or spans at most one step of the
\* scale, and no two neighbours would.
Resolved(c, old) ==
    LET Start(i) == Weight(SubSeq(c, 1, i - 1))
        End(i) == Weight(SubSeq(c, 1, i))
    IN /\ \A i \in 1 .. Len(c) :
             c[i].weight = 1 \/ c[i] \in old \/ Within(Weight(c), Start(i), End(i))
       /\ \A i \in 1 .. Len(c) - 1 : ~Within(Weight(c), Start(i), End(i + 1))

\* Resolution and memory: a centroid that was put together from several points
\* spans at most one step of the scale, and compress leaves no two neighbours
\* that would.
Clustered == [][\A d \in live' : Resolved(dig'[d].centroids, Clusters)]_dig
=============================================================================
