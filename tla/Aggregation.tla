---------------------------- MODULE Aggregation ----------------------------
(***************************************************************************)
(* Aggregators: rows folded into per-group accumulators, aggregators of    *)
(* parallel workers merged in process, and group states exported by one    *)
(* process and merged by another.  One measure column of type colType;     *)
(* the measures of an aggregator do not interact.                          *)
(*                                                                         *)
(* HyperLogLog registers are the one part of an accumulator that lives     *)
(* behind a pointer, so they are kept in a heap of sketches and copying    *)
(* is visible.  Hash tables are maps here (module GroupTable shows that).  *)
(***************************************************************************)
EXTENDS Integers, FiniteSets, FiniteSetsExt, Functions

CONSTANTS
    Aggs,       \* aggregators: one per worker, or one per process
    Snaps,      \* exported states, each as it travels to the coordinator
    Calls,      \* calls of MergeState: one per goroutine that may be in one
    Rows,       \* rows of the input, each read once
    Keys,       \* group-by keys
    Vals,       \* column type |-> values the measure column may have
    Distinct,   \* is the distinct count of the column wanted?
    HalfRange,  \* int64 ranges over -HalfRange .. HalfRange - 1
    NaN, NegInf, PosInf,
    Regs,       \* HyperLogLog registers
    Hash,       \* value |-> [reg, rho]: register index and run length
    NSketches,  \* size of the heap of sketches
    None

NotFinite == {NaN, NegInf, PosInf}

ASSUME AggregationAssumption ==
    /\ IsFiniteSet(Aggs) /\ IsFiniteSet(Snaps) /\ IsFiniteSet(Rows) /\ IsFiniteSet(Keys)
    /\ IsFiniteSet(Calls)
    /\ Aggs \cap Snaps = {} /\ Calls \cap (Aggs \cup Snaps) = {} /\ None \notin Aggs
    /\ Distinct \in BOOLEAN
    /\ HalfRange \in Nat \ {0}
    /\ Cardinality(NotFinite) = 3 /\ NotFinite \cap Int = {}
    /\ DOMAIN Vals \subseteq {"int64", "float64", "string"}
    /\ "int64" \in DOMAIN Vals => Vals["int64"] \subseteq -HalfRange .. HalfRange - 1
    /\ "float64" \in DOMAIN Vals => Vals["float64"] \subseteq Int \cup NotFinite
    /\ "string" \in DOMAIN Vals => Distinct
    /\ Hash \in [UNION Range(Vals) -> [reg : Regs, rho : Nat \ {0}]]

\* There is always memory for one more sketch of every group.
ASSUME HeapAssumption ==
    /\ NSketches \in Nat
    /\ NSketches >= (Cardinality(Aggs) + Cardinality(Snaps) + Cardinality(Calls) + 1)
                        * Cardinality(Keys)
    /\ None \notin 1 .. NSketches

VARIABLES
    colType, \* type of the measure column
    data,    \* row |-> [key, val]
    unread,  \* rows no aggregator has been given yet
    groups,  \* aggregator |-> its groups, by key
    heap,    \* sketch |-> registers
    live,    \* aggregators that no Merge has moved into another
    snap,    \* exported state |-> [status, groups, bad]: bad groups have a wrong shape
    call,    \* MergeState: its aggregator and state, the groups to validate, the accums
    fed,     \* history: aggregator |-> the rows in it
    taken,   \* history: exported state |-> the rows in it
    before   \* history: call |-> what its aggregator was when it began

vars == <<colType, data, unread, groups, heap, live, snap, call, fed, taken, before>>

-----------------------------------------------------------------------------
(* Arithmetic of the two column types. *)

\* Mutated form: a sum wider than its column.
WrapNot(n) == n

\* Two's complement.
Wrap(n) == ((n + HalfRange) % (2 * HalfRange)) - HalfRange

\* Finite floats are integers, small enough for sums to be exact.
FloatPlus(x, y) ==
    CASE NaN \in {x, y} \/ {x, y} = {NegInf, PosInf} -> NaN
      [] NaN \notin {x, y} /\ NegInf \in {x, y} /\ PosInf \notin {x, y} -> NegInf
      [] NaN \notin {x, y} /\ PosInf \in {x, y} /\ NegInf \notin {x, y} -> PosInf
      [] OTHER -> x + y

\* math.Min and math.Max: the infinity on their own side wins over a NaN.
FloatLeast(S) ==
    CASE NegInf \in S -> NegInf
      [] NegInf \notin S /\ NaN \in S -> NaN
      [] S = {PosInf} -> PosInf
      [] OTHER -> Min(S \ {PosInf})

FloatGreatest(S) ==
    CASE PosInf \in S -> PosInf
      [] PosInf \notin S /\ NaN \in S -> NaN
      [] S = {NegInf} -> NegInf
      [] OTHER -> Max(S \ {NegInf})

Plus(x, y) == IF colType = "int64" THEN Wrap(x + y) ELSE FloatPlus(x, y)
Least(S) == IF colType = "int64" THEN Min(S) ELSE FloatLeast(S)
Greatest(S) == IF colType = "int64" THEN Max(S) ELSE FloatGreatest(S)

-----------------------------------------------------------------------------
(* One accumulator.  A string column is only counted and sketched. *)

Numbers == IF colType = "int64" THEN -HalfRange .. HalfRange - 1
           ELSE Int \cup {NaN, NegInf, PosInf}

Fields == [count : Nat, sum : Numbers, min : Numbers, max : Numbers,
           haveMinMax : BOOLEAN, hll : 1 .. NSketches \cup {None}]

NewAccum(id) == [count |-> 0, sum |-> 0, min |-> 0, max |-> 0,
                 haveMinMax |-> FALSE, hll |-> id]

AddValue(g, v) ==
    LET counted == [g EXCEPT !.count = @ + 1]
    IN IF colType = "string" THEN counted
       ELSE [counted EXCEPT
               !.sum = Plus(@, v),
               !.min = IF g.haveMinMax THEN Least({@, v}) ELSE v,
               !.max = IF g.haveMinMax THEN Greatest({@, v}) ELSE v,
               !.haveMinMax = TRUE]

\* Mutated form: the extremes of the other accumulator are used only when this one
\* has none.
MergeAccumOwnExtremes(g, h, id) ==
    [count |-> g.count + h.count,
     sum |-> IF colType = "string" THEN 0 ELSE Plus(g.sum, h.sum),
     min |-> IF g.haveMinMax THEN g.min ELSE h.min,
     max |-> IF g.haveMinMax THEN g.max ELSE h.max,
     haveMinMax |-> g.haveMinMax \/ h.haveMinMax,
     hll |-> id]

\* The registers the merged accumulator points to are the caller's to fill.
MergeAccum(g, h, id) ==
    [count |-> g.count + h.count,
     sum |-> IF colType = "string" THEN 0 ELSE Plus(g.sum, h.sum),
     min |-> CASE g.haveMinMax /\ h.haveMinMax -> Least({g.min, h.min})
               [] g.haveMinMax /\ ~h.haveMinMax -> g.min
               [] OTHER -> h.min,
     max |-> CASE g.haveMinMax /\ h.haveMinMax -> Greatest({g.max, h.max})
               [] g.haveMinMax /\ ~h.haveMinMax -> g.max
               [] OTHER -> h.max,
     haveMinMax |-> g.haveMinMax \/ h.haveMinMax,
     hll |-> id]

Empty == [i \in Regs |-> 0]

HllAdd(regs, v) == [regs EXCEPT ![Hash[v].reg] = Max({@, Hash[v].rho})]

HllMerge(r1, r2) == [i \in Regs |-> Max({r1[i], r2[i]})]

-----------------------------------------------------------------------------
(* The heap of sketches. *)

Held(S) == {S[k].hll : k \in DOMAIN S} \ {None}

InUse == (UNION {Held(groups[a]) : a \in live})
            \cup (UNION {Held(snap[s].groups) : s \in Snaps})
            \cup (UNION {Held(call[c].accums) : c \in Calls})

\* A new sketch for every key of S, or none when no distinct count is wanted.
Fresh(S) ==
    IF Distinct
    THEN CHOOSE f \in Injection(S, 1 .. NSketches \ InUse) : TRUE
    ELSE [k \in S |-> None]

\* The heap after sketch f[k] got the contents new[k].
Filled(f, new) ==
    IF Distinct
    THEN [i \in 1 .. NSketches |->
            IF i \in Range(f) THEN new[CHOOSE k \in DOMAIN f : f[k] = i] ELSE heap[i]]
    ELSE heap

RegsIn(S, k) == IF Distinct THEN heap[S[k].hll] ELSE Empty

-----------------------------------------------------------------------------
NoGroups == [k \in {} |-> None]

Idle == [agg |-> None, snap |-> None, todo |-> {}, accums |-> NoGroups]

\* The goroutine that owns aggregator a is in a call of MergeState.
Busy(a) == \E c \in Calls : call[c].agg = a

RowsWith(R, k) == {r \in R : data[r].key = k}

\* All there is to see of an aggregator, and the rows that made it so.
Contents(a) == [groups |-> groups[a],
                regs |-> [k \in DOMAIN groups[a] |-> RegsIn(groups[a], k)],
                rows |-> fed[a]]

Init ==
    /\ colType \in DOMAIN Vals
    /\ data \in [Rows -> [key : Keys, val : Vals[colType]]]
    /\ unread = Rows
    /\ groups = [a \in Aggs |-> NoGroups]
    /\ heap = [i \in 1 .. NSketches |-> Empty]
    /\ live = Aggs
    /\ snap = [s \in Snaps |-> [status |-> "none", groups |-> NoGroups, bad |-> {}]]
    /\ call = [c \in Calls |-> Idle]
    /\ fed = [a \in Aggs |-> {}]
    /\ taken = [s \in Snaps |-> {}]
    /\ before = [c \in Calls |-> None]

Feed(a, r) ==
    /\ a \in live /\ ~Busy(a)
    /\ r \in unread
    /\ unread' = unread \ {r}
    /\ fed' = [fed EXCEPT ![a] = @ \cup {r}]

\* The loop body of Add for a row whose group exists.
AddToGroup(a, r) ==
    LET k == data[r].key
        v == data[r].val
    IN /\ k \in DOMAIN groups[a]
       /\ Feed(a, r)
       /\ groups' = [groups EXCEPT ![a][k] = AddValue(@, v)]
       /\ heap' = IF Distinct THEN [heap EXCEPT ![groups[a][k].hll] = HllAdd(@, v)]
                  ELSE heap
       /\ UNCHANGED <<colType, data, live, snap, call, taken, before>>

\* The loop body of Add for the first row of a group.
AddNewGroup(a, r) ==
    LET k == data[r].key
        v == data[r].val
        f == Fresh({k})
        g == AddValue(NewAccum(f[k]), v)
    IN /\ k \notin DOMAIN groups[a]
       /\ Feed(a, r)
       /\ groups' = [groups EXCEPT ![a] = [j \in DOMAIN @ \cup {k} |->
                                             IF j = k THEN g ELSE @[j]]]
       /\ heap' = Filled(f, [j \in {k} |-> HllAdd(Empty, v)])
       /\ UNCHANGED <<colType, data, live, snap, call, taken, before>>

\* Merge(other): groups that a has, too, are combined, the others move with
\* their sketches.  other must not be used again, and is not.  The aggregators of a
\* pipeline share its rows out, so no row is in both.
Merge(a, other) ==
    LET both == DOMAIN groups[a] \cap DOMAIN groups[other]
        f == Fresh(both)
    IN /\ {a, other} \subseteq live
       /\ a # other /\ ~Busy(a) /\ ~Busy(other)
       /\ fed[a] \cap fed[other] = {}
       /\ groups' = [groups EXCEPT
             ![a] = [k \in DOMAIN @ \cup DOMAIN groups[other] |->
                        CASE k \in both -> MergeAccum(@[k], groups[other][k], f[k])
                          [] k \in DOMAIN @ \ both -> @[k]
                          [] OTHER -> groups[other][k]],
             ![other] = NoGroups]
       /\ heap' = Filled(f, [k \in both |-> HllMerge(RegsIn(groups[a], k),
                                                     RegsIn(groups[other], k))])
       /\ live' = live \ {other}
       /\ fed' = [fed EXCEPT ![a] = @ \cup fed[other], ![other] = {}]
       /\ UNCHANGED <<colType, data, unread, snap, call, taken, before>>

\* Mutated form: the register slice is not copied.
ExportStateAliased(a, s) ==
    /\ a \in live /\ ~Busy(a)
    /\ snap[s].status = "none"
    /\ snap' = [snap EXCEPT ![s] = [status |-> "sent", groups |-> groups[a], bad |-> {}]]
    /\ taken' = [taken EXCEPT ![s] = fed[a]]
    /\ UNCHANGED <<colType, data, unread, groups, heap, live, call, fed, before>>

\* A copy of an accumulator, but for its registers.
Copy(g, id) == [g EXCEPT !.hll = id]

\* ExportState copies every group, its registers included.
ExportState(a, s) ==
    LET f == Fresh(DOMAIN groups[a])
    IN /\ a \in live /\ ~Busy(a)
       /\ snap[s].status = "none"
       /\ snap' = [snap EXCEPT ![s] =
                     [status |-> "sent",
                      groups |-> [k \in DOMAIN groups[a] |-> Copy(groups[a][k], f[k])],
                      bad |-> {}]]
       /\ heap' = Filled(f, [k \in DOMAIN groups[a] |-> RegsIn(groups[a], k)])
       /\ taken' = [taken EXCEPT ![s] = fed[a]]
       /\ UNCHANGED <<colType, data, unread, groups, live, call, fed, before>>

\* Environment: what arrives was written by a process that resolved another
\* schema, or the groups of B were not written as they are.
Misshape(s) ==
    /\ snap[s].status = "sent"
    /\ snap[s].bad = {}
    /\ \E B \in SUBSET DOMAIN snap[s].groups : B # {} /\ snap' = [snap EXCEPT ![s].bad = B]
    /\ UNCHANGED <<colType, data, unread, groups, heap, live, call, fed, taken, before>>

\* MergeState is called.  The coordinator gives it every shard's state once, and no
\* row is in two shards.
BeginMergeState(c, a, s) ==
    /\ call[c].agg = None
    /\ a \in live /\ ~Busy(a)
    /\ snap[s].status = "sent"
    /\ fed[a] \cap taken[s] = {}
    /\ snap' = [snap EXCEPT ![s].status = "merging"]
    /\ call' = [call EXCEPT ![c] = [agg |-> a, snap |-> s, todo |-> DOMAIN snap[s].groups,
                                    accums |-> NoGroups]]
    /\ before' = [before EXCEPT ![c] = Contents(a)]
    /\ UNCHANGED <<colType, data, unread, groups, heap, live, fed, taken>>

\* Mutated form: one loop that validates a state and applies it.
StateToGroupAccumApplied(c, k) ==
    LET s == call[c].snap
        a == call[c].agg
        f == Fresh({k})
    IN /\ a # None
       /\ k \in call[c].todo \ (snap[s].bad \cup DOMAIN groups[a])
       /\ call' = [call EXCEPT ![c].todo = @ \ {k}]
       /\ groups' = [groups EXCEPT ![a] = [j \in DOMAIN @ \cup {k} |->
                        IF j = k THEN Copy(snap[s].groups[k], f[k]) ELSE @[j]]]
       /\ heap' = Filled(f, [j \in {k} |-> RegsIn(snap[s].groups, k)])
       /\ fed' = [fed EXCEPT ![a] = @ \cup RowsWith(taken[s], k)]
       /\ UNCHANGED <<colType, data, unread, live, snap, taken, before>>

\* First loop: one state validated, and an accumulator of its own built from it.
StateToGroupAccum(c, k) ==
    LET s == call[c].snap
        f == Fresh({k})
    IN /\ call[c].agg # None
       /\ k \in call[c].todo \ snap[s].bad
       /\ call' = [call EXCEPT
             ![c].todo = @ \ {k},
             ![c].accums = [j \in DOMAIN @ \cup {k} |->
                              IF j = k THEN Copy(snap[s].groups[k], f[k]) ELSE @[j]]]
       /\ heap' = Filled(f, [j \in {k} |-> RegsIn(snap[s].groups, k)])
       /\ UNCHANGED <<colType, data, unread, groups, live, snap, fed, taken, before>>

\* MergeState returns, and its states are what st says.
Return(c, st) ==
    /\ snap' = [snap EXCEPT ![call[c].snap].status = st]
    /\ call' = [call EXCEPT ![c] = Idle]
    /\ UNCHANGED <<colType, data, unread, groups, heap, live, fed, taken, before>>

\* A state of the wrong shape: the accumulators built so far are dropped.
MergeStateFails(c) ==
    /\ call[c].agg # None
    /\ call[c].todo \cap snap[call[c].snap].bad # {}
    /\ Return(c, "refused")

\* Second loop: the accumulator of key k leaves the list, and its rows are in a.
Apply(c, k) ==
    /\ call[c].agg # None
    /\ call[c].todo = {}
    /\ k \in DOMAIN call[c].accums
    /\ call' = [call EXCEPT ![c].accums = Restrict(@, DOMAIN @ \ {k})]
    /\ fed' = [fed EXCEPT ![call[c].agg] = @ \cup RowsWith(taken[call[c].snap], k)]
    /\ UNCHANGED <<colType, data, unread, live, snap, taken, before>>

\* findByKey finds the group: merge.
MergeIntoGroup(c, k) ==
    LET a == call[c].agg
        new == call[c].accums
        f == Fresh({k})
    IN /\ Apply(c, k)
       /\ k \in DOMAIN groups[a]
       /\ groups' = [groups EXCEPT ![a][k] = MergeAccum(@, new[k], f[k])]
       /\ heap' = Filled(f, [j \in {k} |-> HllMerge(RegsIn(groups[a], k), RegsIn(new, k))])

\* findByKey does not: insertNew takes the accumulator itself, with its registers.
InsertGroup(c, k) ==
    LET a == call[c].agg
    IN /\ Apply(c, k)
       /\ k \notin DOMAIN groups[a]
       /\ groups' = [groups EXCEPT ![a] = [j \in DOMAIN @ \cup {k} |->
                                             IF j = k THEN call[c].accums[k] ELSE @[j]]]
       /\ UNCHANGED heap

EndMergeState(c) ==
    /\ call[c].agg # None
    /\ call[c].todo = {} /\ call[c].accums = NoGroups
    /\ Return(c, "merged")

Next ==
    \/ \E a \in Aggs, r \in Rows : AddToGroup(a, r) \/ AddNewGroup(a, r)
    \/ \E a, other \in Aggs : Merge(a, other)
    \/ \E a \in Aggs, s \in Snaps : ExportState(a, s)
    \/ \E s \in Snaps : Misshape(s)
    \/ \E c \in Calls, a \in Aggs, s \in Snaps : BeginMergeState(c, a, s)
    \/ \E c \in Calls, k \in Keys : StateToGroupAccum(c, k)
    \/ \E c \in Calls, k \in Keys : MergeIntoGroup(c, k) \/ InsertGroup(c, k)
    \/ \E c \in Calls : MergeStateFails(c) \/ EndMergeState(c)

Spec == Init /\ [][Next]_vars

-----------------------------------------------------------------------------
(* What the accumulators of a set of rows must be, whoever was given which   *)
(* row, in which order, and whatever was merged with what.                   *)

ValsOf(R) == {data[r].val : r \in R}

\* Of integers: the units the values are above zero, less those they are below.
Units(R, sign) == UNION {{r} \X (1 .. sign * data[r].val) : r \in R}
TrueSum(R) == Cardinality(Units(R, 1)) - Cardinality(Units(R, -1))

SumOf(R) ==
    LET V == ValsOf(R)
    IN CASE colType = "string" -> 0
         [] colType = "int64" -> Wrap(TrueSum(R))
         [] colType = "float64" /\ (NaN \in V \/ {NegInf, PosInf} \subseteq V) -> NaN
         [] colType = "float64" /\ V \cap {NaN, PosInf} = {} /\ NegInf \in V -> NegInf
         [] colType = "float64" /\ V \cap {NaN, NegInf} = {} /\ PosInf \in V -> PosInf
         [] OTHER -> TrueSum(R)

RegsOf(R) == [i \in Regs |-> Max({0} \cup {Hash[v].rho : v \in {w \in ValsOf(R) : Hash[w].reg = i}})]

IsTotalOf(S, R) ==
    /\ DOMAIN S = {data[r].key : r \in R}
    /\ \A k \in DOMAIN S :
          LET Rk == RowsWith(R, k)
          IN /\ S[k].count = Cardinality(Rk)
             /\ S[k].sum = SumOf(Rk)
             /\ S[k].haveMinMax = (colType # "string")
             /\ S[k].haveMinMax => /\ S[k].min = Least(ValsOf(Rk))
                                   /\ S[k].max = Greatest(ValsOf(Rk))
             /\ Distinct => heap[S[k].hll] = RegsOf(Rk)

-----------------------------------------------------------------------------
\* The shape of the state.
TypeOK ==
    /\ unread \subseteq Rows
    /\ live \subseteq Aggs
    /\ \A a \in Aggs : DOMAIN groups[a] \subseteq Keys /\ Range(groups[a]) \subseteq Fields
    /\ \A s \in Snaps : /\ snap[s].status \in {"none", "sent", "merging", "merged", "refused"}
                        /\ DOMAIN snap[s].groups \subseteq Keys
                        /\ Range(snap[s].groups) \subseteq Fields
    /\ \A c \in Calls : /\ call[c].agg \in live \cup {None}
                        /\ call[c].todo \cap DOMAIN call[c].accums = {}
                        /\ call[c].todo \cup DOMAIN call[c].accums \subseteq Keys
                        /\ Range(call[c].accums) \subseteq Fields
    /\ heap \in [1 .. NSketches -> [Regs -> Nat]]

\* Whatever rows an aggregator was given, by Add, Merge and MergeState in any
\* order, its groups are those of one pass over the rows (accumulator.go:94-96,
\* hyperloglog.go:108-110), and an exported state stays the one of the rows
\* that were in it when it was taken (state.go:16-18).
Exact ==
    /\ \A a \in live : IsTotalOf(groups[a], fed[a])
    /\ \A s \in Snaps : snap[s].status # "none" => IsTotalOf(snap[s].groups, taken[s])

\* No two accumulators in use share their registers: not two groups, not two
\* aggregators after a Merge moved groups, not an exported state and its
\* source (state.go:49-50), the accumulators a MergeState has built from it
\* (state.go:172) or its destination (state.go:94-95).
Unshared ==
    LET Holders == live \cup Snaps \cup Calls
        HeldBy(b) == CASE b \in live  -> groups[b]
                       [] b \in Snaps -> snap[b].groups
                       [] OTHER       -> call[b].accums
    IN Distinct => \A b, d \in Holders : \A k \in DOMAIN HeldBy(b), l \in DOMAIN HeldBy(d) :
                      HeldBy(b)[k].hll = HeldBy(d)[l].hll => b = d /\ k = l

\* A MergeState that returns has either refused its states, one of which had a wrong
\* shape, and its aggregator is what it was when the call began, its registers too
\* (state.go:97-99); or they all fit, and every row of theirs is in, once.
MergedOrUntouched ==
    [][\A c \in Calls, a \in Aggs, s \in Snaps :
          call[c].agg = a /\ call[c].snap = s /\ call'[c].agg = None =>
             \/ /\ snap'[s].status = "refused" /\ snap[s].bad # {}
                /\ Contents(a)' = before[c]
             \/ /\ snap'[s].status = "merged" /\ snap[s].bad = {}
                /\ before[c].rows \cap taken[s] = {}
                /\ fed'[a] = before[c].rows \cup taken[s]]_vars

\* A NaN poisons the minimum and the maximum of its group, whenever it arrives
\* (accumulator.go:15-18).
NaNPoisons ==
    \A a \in live : \A k \in DOMAIN groups[a] :
        NaN \in ValsOf(RowsWith(fed[a], k)) => groups[a][k].min = NaN /\ groups[a][k].max = NaN
=============================================================================
