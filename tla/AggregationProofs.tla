------------------------- MODULE AggregationProofs --------------------------
(***************************************************************************)
(* Proofs about Aggregation, for any number of aggregators, exported       *)
(* states, rows, keys and registers and any values.                        *)
(***************************************************************************)
EXTENDS Aggregation, TLAPS, FiniteSetTheorems, FunctionTheorems

-----------------------------------------------------------------------------
(* The extremes of a set of values, by what they are instead of by how they  *)
(* are chosen: so that the extreme of a union comes from those of its parts. *)

IsMin(x, V) == x \in V /\ \A y \in V : x <= y
IsMax(x, V) == x \in V /\ \A y \in V : x >= y

IsLeast(type, x, V) ==
    IF type = "int64" THEN IsMin(x, V)
    ELSE \/ NegInf \in V /\ x = NegInf
         \/ NegInf \notin V /\ NaN \in V /\ x = NaN
         \/ V = {PosInf} /\ x = PosInf
         \/ V \cap {NegInf, NaN} = {} /\ IsMin(x, V \ {PosInf})

IsGreatest(type, x, V) ==
    IF type = "int64" THEN IsMax(x, V)
    ELSE \/ PosInf \in V /\ x = PosInf
         \/ PosInf \notin V /\ NaN \in V /\ x = NaN
         \/ V = {NegInf} /\ x = NegInf
         \/ V \cap {PosInf, NaN} = {} /\ IsMax(x, V \ {NegInf})

\* Min chooses the only element that none is below.
LEMMA MinIs ==
    ASSUME NEW V \in SUBSET Int, NEW x, IsMin(x, V)
    PROVE  Min(V) = x
<1>1. \A y \in V : (\A z \in V : y =< z) => y = x
  BY DEF IsMin
<1>. QED
  BY <1>1 DEF Min, IsMin

\* Max chooses the only element that none is above.
LEMMA MaxIs ==
    ASSUME NEW V \in SUBSET Int, NEW x, IsMax(x, V)
    PROVE  Max(V) = x
<1>1. \A y \in V : (\A z \in V : y >= z) => y = x
  BY DEF IsMax
<1>. QED
  BY <1>1 DEF Max, IsMax

\* The least of two sets' least elements is that of their union.
LEMMA MinOfUnion ==
    ASSUME NEW V \in SUBSET Int, NEW W \in SUBSET Int, NEW x, NEW y, IsMin(x, V), IsMin(y, W)
    PROVE  IsMin(Min({x, y}), V \cup W)
<1>1. PICK z \in {x, y} : IsMin(z, {x, y})
  BY DEF IsMin
<1>2. Min({x, y}) = z
  BY <1>1, MinIs DEF IsMin
<1>. QED
  BY <1>1, <1>2 DEF IsMin

\* The greatest of two sets' greatest elements is that of their union.
LEMMA MaxOfUnion ==
    ASSUME NEW V \in SUBSET Int, NEW W \in SUBSET Int, NEW x, NEW y, IsMax(x, V), IsMax(y, W)
    PROVE  IsMax(Max({x, y}), V \cup W)
<1>1. PICK z \in {x, y} : IsMax(z, {x, y})
  BY DEF IsMax
<1>2. Max({x, y}) = z
  BY <1>1, MaxIs DEF IsMax
<1>. QED
  BY <1>1, <1>2 DEF IsMax

-----------------------------------------------------------------------------

\* The three values that are not finite are three, and none is an integer.
LEMMA FloatsApart ==
    /\ NaN # NegInf /\ NaN # PosInf /\ NegInf # PosInf
    /\ NaN \notin Int /\ NegInf \notin Int /\ PosInf \notin Int
<1>1. \A a, b : IsFiniteSet({a, b}) /\ Cardinality({a, b}) <= 2
  <2>. TAKE a, b
  <2>1. IsFiniteSet({a}) /\ Cardinality({a}) = 1
    BY FS_Singleton
  <2>2. {a, b} = {a} \cup {b}
    OBVIOUS
  <2>. QED
    BY <2>1, <2>2, FS_AddElement
<1>2. Cardinality({NaN, NegInf, PosInf}) = 3
  BY AggregationAssumption DEF NotFinite
<1>3. ~(Cardinality({NaN, NegInf, PosInf}) <= 2)
  BY <1>2
<1>4. {NaN, NegInf, PosInf} # {NaN, PosInf} /\ {NaN, NegInf, PosInf} # {NaN, NegInf}
  BY <1>1, <1>3
<1>. QED
  BY <1>4, AggregationAssumption DEF NotFinite

\* The relation determines Least, the infinities and NaN included (math.Min).
LEMMA LeastIs ==
    ASSUME NEW V \in SUBSET Numbers, NEW x, IsLeast(colType, x, V)
    PROVE  Least(V) = x
<1>1. CASE colType = "int64"
  BY <1>1, MinIs, AggregationAssumption DEF Least, IsLeast, Numbers
<1>2. CASE colType # "int64"
  <2>. USE FloatsApart
  <2>1. CASE V \cap {NegInf, NaN} = {} /\ IsMin(x, V \ {PosInf})
    <3>1. V \ {PosInf} \in SUBSET Int
      BY <1>2, <2>1 DEF Numbers
    <3>2. V # {PosInf}
      BY <2>1 DEF IsMin
    <3>. QED
      BY <1>2, <2>1, <3>1, <3>2, MinIs DEF Least, FloatLeast
  <2>. QED
    BY <1>2, <2>1 DEF Least, FloatLeast, IsLeast
<1>. QED
  BY <1>1, <1>2

\* The relation determines Greatest (math.Max).
LEMMA GreatestIs ==
    ASSUME NEW V \in SUBSET Numbers, NEW x, IsGreatest(colType, x, V)
    PROVE  Greatest(V) = x
<1>1. CASE colType = "int64"
  BY <1>1, MaxIs, AggregationAssumption DEF Greatest, IsGreatest, Numbers
<1>2. CASE colType # "int64"
  <2>. USE FloatsApart
  <2>1. CASE V \cap {PosInf, NaN} = {} /\ IsMax(x, V \ {NegInf})
    <3>1. V \ {NegInf} \in SUBSET Int
      BY <1>2, <2>1 DEF Numbers
    <3>2. V # {NegInf}
      BY <2>1 DEF IsMax
    <3>. QED
      BY <1>2, <2>1, <3>1, <3>2, MaxIs DEF Greatest, FloatGreatest
  <2>. QED
    BY <1>2, <2>1 DEF Greatest, FloatGreatest, IsGreatest
<1>. QED
  BY <1>1, <1>2

\* A value alone is its own extreme.
LEMMA OwnExtreme ==
    ASSUME NEW v \in Numbers
    PROVE  IsLeast(colType, v, {v}) /\ IsGreatest(colType, v, {v})
<1>1. CASE colType = "int64"
  BY <1>1, AggregationAssumption DEF IsLeast, IsGreatest, IsMin, IsMax, Numbers
<1>2. CASE colType # "int64" /\ v \in Int
  <2>1. {v} \ {PosInf} = {v} /\ {v} \ {NegInf} = {v} /\ {v} \cap {NegInf, PosInf, NaN} = {}
    BY <1>2, FloatsApart
  <2>. QED
    BY <1>2, <2>1 DEF IsLeast, IsGreatest, IsMin, IsMax
<1>3. CASE colType # "int64" /\ v \in {NaN, NegInf, PosInf}
  BY <1>3, FloatsApart DEF IsLeast, IsGreatest
<1>. QED
  BY <1>1, <1>2, <1>3 DEF Numbers

\* What math.Min, or the comparison of integers, makes of the least values of two sets
\* is the least value of both.
LEMMA LeastOfUnion ==
    ASSUME NEW V \in SUBSET Numbers, NEW W \in SUBSET Numbers, NEW x, NEW y,
           IsLeast(colType, x, V), IsLeast(colType, y, W)
    PROVE  IsLeast(colType, Least({x, y}), V \cup W)
<1>1. CASE colType = "int64"
  BY <1>1, MinOfUnion, AggregationAssumption DEF IsLeast, Least, Numbers
<1>2. CASE colType # "int64"
  <2>. USE FloatsApart
  <2>. DEFINE F(S, z) == S \cap {NegInf, NaN} = {} /\ IsMin(z, S \ {PosInf})
  <2>1. CASE F(V, x) /\ F(W, y)
    <3>1. V \ {PosInf} \in SUBSET Int /\ W \ {PosInf} \in SUBSET Int
      BY <1>2, <2>1 DEF Numbers
    <3>2. IsMin(Min({x, y}), (V \ {PosInf}) \cup (W \ {PosInf}))
      BY <2>1, <3>1, MinOfUnion
    <3>3. x \in Int /\ y \in Int /\ {x, y} \ {PosInf} = {x, y} /\ {x, y} # {PosInf}
      BY <2>1, <3>1 DEF IsMin
    <3>4. Least({x, y}) = Min({x, y})
      BY <1>2, <3>3 DEF Least, FloatLeast
    <3>5. (V \ {PosInf}) \cup (W \ {PosInf}) = (V \cup W) \ {PosInf}
      OBVIOUS
    <3>. QED
      BY <1>2, <2>1, <3>2, <3>4, <3>5 DEF IsLeast
  <2>2. CASE F(V, x) /\ W = {PosInf} /\ y = PosInf
    <3>1. x \in V \ {PosInf} /\ x \in Int /\ \A z \in V \ {PosInf} : x <= z
      BY <1>2, <2>2 DEF IsMin, Numbers
    <3>2. {x, y} \ {PosInf} = {x} /\ {x, y} # {PosInf}
      BY <2>2, <3>1
    <3>3. Least({x, y}) = Min({x})
      BY <1>2, <2>2, <3>1, <3>2 DEF Least, FloatLeast
    <3>4. Min({x}) = x
      BY <3>1, MinIs DEF IsMin
    <3>5. (V \cup W) \ {PosInf} = V \ {PosInf}
      BY <2>2
    <3>. QED
      BY <1>2, <2>2, <3>3, <3>4, <3>5 DEF IsLeast
  <2>3. CASE F(W, y) /\ V = {PosInf} /\ x = PosInf
    <3>1. y \in W \ {PosInf} /\ y \in Int /\ \A z \in W \ {PosInf} : y <= z
      BY <1>2, <2>3 DEF IsMin, Numbers
    <3>2. {x, y} \ {PosInf} = {y} /\ {x, y} # {PosInf}
      BY <2>3, <3>1
    <3>3. Least({x, y}) = Min({y})
      BY <1>2, <2>3, <3>1, <3>2 DEF Least, FloatLeast
    <3>4. Min({y}) = y
      BY <3>1, MinIs DEF IsMin
    <3>5. (V \cup W) \ {PosInf} = W \ {PosInf}
      BY <2>3
    <3>. QED
      BY <1>2, <2>3, <3>3, <3>4, <3>5 DEF IsLeast
  <2>4. CASE x = PosInf /\ V = {PosInf} /\ y = PosInf /\ W = {PosInf}
    BY <1>2, <2>4 DEF IsLeast, Least, FloatLeast
  <2>5. CASE NegInf \in V \cup W
    <3>1. NegInf \in {x, y}
      BY <1>2, <2>5 DEF IsLeast, IsMin
    <3>. QED
      BY <1>2, <2>5, <3>1 DEF IsLeast, Least, FloatLeast
  <2>6. CASE NegInf \notin V \cup W /\ NaN \in V \cup W
    <3>1. NaN \in {x, y}
      BY <1>2, <2>6 DEF IsLeast
    <3>2. x # NegInf /\ y # NegInf
      BY <1>2, <2>6 DEF IsLeast, IsMin
    <3>. QED
      BY <1>2, <2>6, <3>1, <3>2 DEF IsLeast, Least, FloatLeast
  <2>. QED
    BY <1>2, <2>1, <2>2, <2>3, <2>4, <2>5, <2>6 DEF IsLeast
<1>. QED
  BY <1>1, <1>2

\* The same for the greatest.
LEMMA GreatestOfUnion ==
    ASSUME NEW V \in SUBSET Numbers, NEW W \in SUBSET Numbers, NEW x, NEW y,
           IsGreatest(colType, x, V), IsGreatest(colType, y, W)
    PROVE  IsGreatest(colType, Greatest({x, y}), V \cup W)
<1>1. CASE colType = "int64"
  BY <1>1, MaxOfUnion, AggregationAssumption DEF IsGreatest, Greatest, Numbers
<1>2. CASE colType # "int64"
  <2>. USE FloatsApart
  <2>. DEFINE F(S, z) == S \cap {PosInf, NaN} = {} /\ IsMax(z, S \ {NegInf})
  <2>1. CASE F(V, x) /\ F(W, y)
    <3>1. V \ {NegInf} \in SUBSET Int /\ W \ {NegInf} \in SUBSET Int
      BY <1>2, <2>1 DEF Numbers
    <3>2. IsMax(Max({x, y}), (V \ {NegInf}) \cup (W \ {NegInf}))
      BY <2>1, <3>1, MaxOfUnion
    <3>3. x \in Int /\ y \in Int /\ {x, y} \ {NegInf} = {x, y} /\ {x, y} # {NegInf}
      BY <2>1, <3>1 DEF IsMax
    <3>4. Greatest({x, y}) = Max({x, y})
      BY <1>2, <3>3 DEF Greatest, FloatGreatest
    <3>5. (V \ {NegInf}) \cup (W \ {NegInf}) = (V \cup W) \ {NegInf}
      OBVIOUS
    <3>. QED
      BY <1>2, <2>1, <3>2, <3>4, <3>5 DEF IsGreatest
  <2>2. CASE F(V, x) /\ W = {NegInf} /\ y = NegInf
    <3>1. x \in V \ {NegInf} /\ x \in Int /\ \A z \in V \ {NegInf} : x >= z
      BY <1>2, <2>2 DEF IsMax, Numbers
    <3>2. {x, y} \ {NegInf} = {x} /\ {x, y} # {NegInf}
      BY <2>2, <3>1
    <3>3. Greatest({x, y}) = Max({x})
      BY <1>2, <2>2, <3>1, <3>2 DEF Greatest, FloatGreatest
    <3>4. Max({x}) = x
      BY <3>1, MaxIs DEF IsMax
    <3>5. (V \cup W) \ {NegInf} = V \ {NegInf}
      BY <2>2
    <3>. QED
      BY <1>2, <2>2, <3>3, <3>4, <3>5 DEF IsGreatest
  <2>3. CASE F(W, y) /\ V = {NegInf} /\ x = NegInf
    <3>1. y \in W \ {NegInf} /\ y \in Int /\ \A z \in W \ {NegInf} : y >= z
      BY <1>2, <2>3 DEF IsMax, Numbers
    <3>2. {x, y} \ {NegInf} = {y} /\ {x, y} # {NegInf}
      BY <2>3, <3>1
    <3>3. Greatest({x, y}) = Max({y})
      BY <1>2, <2>3, <3>1, <3>2 DEF Greatest, FloatGreatest
    <3>4. Max({y}) = y
      BY <3>1, MaxIs DEF IsMax
    <3>5. (V \cup W) \ {NegInf} = W \ {NegInf}
      BY <2>3
    <3>. QED
      BY <1>2, <2>3, <3>3, <3>4, <3>5 DEF IsGreatest
  <2>4. CASE x = NegInf /\ V = {NegInf} /\ y = NegInf /\ W = {NegInf}
    BY <1>2, <2>4 DEF IsGreatest, Greatest, FloatGreatest
  <2>5. CASE PosInf \in V \cup W
    <3>1. PosInf \in {x, y}
      BY <1>2, <2>5 DEF IsGreatest, IsMax
    <3>. QED
      BY <1>2, <2>5, <3>1 DEF IsGreatest, Greatest, FloatGreatest
  <2>6. CASE PosInf \notin V \cup W /\ NaN \in V \cup W
    <3>1. NaN \in {x, y}
      BY <1>2, <2>6 DEF IsGreatest
    <3>2. x # PosInf /\ y # PosInf
      BY <1>2, <2>6 DEF IsGreatest, IsMax
    <3>. QED
      BY <1>2, <2>6, <3>1, <3>2 DEF IsGreatest, Greatest, FloatGreatest
  <2>. QED
    BY <1>2, <2>1, <2>2, <2>3, <2>4, <2>5, <2>6 DEF IsGreatest
<1>. QED
  BY <1>1, <1>2

\* Arithmetic stays within the column's type.
LEMMA NumbersClosed ==
    ASSUME NEW x \in Numbers, NEW y \in Numbers
    PROVE  Plus(x, y) \in Numbers /\ Least({x, y}) \in Numbers /\ Greatest({x, y}) \in Numbers
<1>1. IsLeast(colType, Least({x, y}), {x} \cup {y})
  BY OwnExtreme, LeastOfUnion
<1>2. IsGreatest(colType, Greatest({x, y}), {x} \cup {y})
  BY OwnExtreme, GreatestOfUnion
<1>3. Least({x, y}) \in {x, y} /\ Greatest({x, y}) \in {x, y}
  BY <1>1, <1>2 DEF IsLeast, IsGreatest, IsMin, IsMax
<1>4. Plus(x, y) \in Numbers
  <2>1. CASE colType = "int64"
    <3>1. x + y + HalfRange \in Int /\ 2 * HalfRange \in Nat \ {0}
      BY <2>1, AggregationAssumption DEF Numbers
    <3>2. (x + y + HalfRange) % (2 * HalfRange) \in 0 .. (2 * HalfRange - 1)
      <4>. DEFINE n == x + y + HalfRange
                  m == 2 * HalfRange
      <4>. HIDE DEF n, m
      <4>1. ASSUME n \in Int, m \in Nat \ {0} PROVE n % m \in 0 .. (m - 1)
        BY <4>1
      <4>. QED
        BY <3>1, <4>1 DEF n, m
    <3>. QED
      BY <2>1, <3>2, AggregationAssumption DEF Plus, Wrap, Numbers
  <2>2. CASE colType # "int64"
    BY <2>2, FloatsApart DEF Plus, FloatPlus, Numbers
  <2>. QED
    BY <2>1, <2>2
<1>. QED
  BY <1>3, <1>4

-----------------------------------------------------------------------------
(* Sums, by what they are.  Two's complement first: the sums of the parts,   *)
(* wrapped, and wrapped again, are the sum of all, wrapped once.             *)

\* Wrap brings an integer into the range of int64, by a multiple of its width ...
LEMMA WrapIs ==
    ASSUME NEW n \in Int
    PROVE  /\ Wrap(n) \in -HalfRange .. HalfRange - 1
           /\ \E q \in Int : n = Wrap(n) + (2 * HalfRange) * q
<1>. DEFINE m == 2 * HalfRange
            k == n + HalfRange
<1>1. m \in Nat \ {0} /\ k \in Int /\ HalfRange \in Nat
  BY AggregationAssumption
<1>. HIDE DEF m, k
<1>2. k % m \in 0 .. m - 1 /\ k \div m \in Int /\ k = m * (k \div m) + (k % m)
  BY <1>1
<1>3. Wrap(n) = (k % m) - HalfRange
  BY DEF Wrap, m, k
<1>4. m = HalfRange + HalfRange /\ n = k - HalfRange
  BY <1>1 DEF m, k
<1>5. Wrap(n) \in -HalfRange .. HalfRange - 1
  <2>. DEFINE w == k % m
  <2>1. w \in 0 .. m - 1
    BY <1>2
  <2>. HIDE DEF w
  <2>2. w - HalfRange \in -HalfRange .. HalfRange - 1
    BY <1>1, <1>4, <2>1
  <2>. QED
    BY <1>3, <2>2 DEF w
<1>6. n = Wrap(n) + m * (k \div m)
  <2>. DEFINE w == k % m
              p == m * (k \div m)
  <2>1. k = p + w /\ p \in Int /\ w \in Int
    BY <1>1, <1>2
  <2>. HIDE DEF w, p
  <2>2. n = (w - HalfRange) + p
    BY <1>1, <1>4, <2>1
  <2>. QED
    BY <1>3, <2>2 DEF w, p
<1>. QED
  BY <1>2, <1>5, <1>6 DEF m

\* A multiple of the width is nothing or at least the width ...
LEMMA NoMultiple ==
    ASSUME NEW m \in Nat, NEW q \in Int, q # 0
    PROVE  m * q >= m \/ m * q <= -m
<1>1. CASE q >= 1
  BY <1>1
<1>2. CASE q <= -1
  BY <1>2
<1>. QED
  BY <1>1, <1>2

\* ... so only one number of the range differs from an integer by a multiple.
LEMMA WrapUnique ==
    ASSUME NEW x \in -HalfRange .. HalfRange - 1, NEW y \in -HalfRange .. HalfRange - 1,
           NEW q \in Int, x = y + (2 * HalfRange) * q
    PROVE  x = y
<1>. DEFINE m == 2 * HalfRange
<1>1. HalfRange \in Nat \ {0} /\ m \in Nat
  BY AggregationAssumption
<1>2. q # 0 => m * q >= m \/ m * q <= -m
  BY <1>1, NoMultiple
<1>3. m * q \in Int /\ m * 0 = 0
  BY <1>1
<1>4. x - y < m /\ x - y > -m
  BY <1>1
<1>5. x = y + m * q
  OBVIOUS
<1>. HIDE DEF m
<1>6. q = 0
  BY <1>1, <1>2, <1>3, <1>4, <1>5
<1>. QED
  BY <1>1, <1>3, <1>5, <1>6

\* The sum of the values of the rows R of d, where it is one of integers.
UnitsAt(d, R, sign) == UNION {{r} \X (1 .. sign * d[r].val) : r \in R}
TrueAt(d, R) == Cardinality(UnitsAt(d, R, 1)) - Cardinality(UnitsAt(d, R, -1))

IsSum(type, x, d, R) ==
    LET V == {d[r].val : r \in R}
    IN CASE type = "string" -> x = 0
         [] type = "int64"  -> /\ x \in -HalfRange .. HalfRange - 1
                               /\ \E q \in Int : TrueAt(d, R) = x + (2 * HalfRange) * q
         [] OTHER -> \/ (NaN \in V \/ {NegInf, PosInf} \subseteq V) /\ x = NaN
                     \/ V \cap {NaN, PosInf} = {} /\ NegInf \in V /\ x = NegInf
                     \/ V \cap {NaN, NegInf} = {} /\ PosInf \in V /\ x = PosInf
                     \/ V \cap NotFinite = {} /\ x = TrueAt(d, R)

\* The units of finitely many rows are finitely many.
LEMMA UnitsAre ==
    ASSUME NEW R, IsFiniteSet(R), NEW d, \A r \in R : d[r].val \in Int, NEW sign \in {1, -1}
    PROVE  IsFiniteSet(UnitsAt(d, R, sign))
<1>. DEFINE U(r) == {r} \X (1 .. sign * d[r].val)
            f == [r \in R |-> U(r)]
            T == {U(r) : r \in R}
<1>1. ASSUME NEW r \in R PROVE IsFiniteSet(U(r))
  <2>1. sign * d[r].val \in Int
    OBVIOUS
  <2>2. IsFiniteSet(1 .. sign * d[r].val)
    BY <2>1, FS_Interval
  <2>3. IsFiniteSet({r})
    BY FS_Singleton
  <2>. QED
    BY <2>2, <2>3, FS_Product
<1>2. f \in Surjection(R, T)
  BY DEF Surjection
<1>3. IsFiniteSet(T)
  BY <1>2, FS_Surjection DEF ExistsSurjection
<1>4. \A u \in T : IsFiniteSet(u)
  BY <1>1
<1>. QED
  BY <1>3, <1>4, FS_UNION DEF UnitsAt

\* The integer sums of disjoint sets of rows add up.
LEMMA TrueOfUnion ==
    ASSUME NEW R, IsFiniteSet(R), NEW Q, IsFiniteSet(Q), R \cap Q = {},
           NEW d, \A r \in R \cup Q : d[r].val \in Int
    PROVE  /\ TrueAt(d, R) \in Int /\ TrueAt(d, Q) \in Int
           /\ TrueAt(d, R \cup Q) = TrueAt(d, R) + TrueAt(d, Q)
<1>1. ASSUME NEW sign \in {1, -1}
      PROVE  /\ Cardinality(UnitsAt(d, R, sign)) \in Nat
             /\ Cardinality(UnitsAt(d, Q, sign)) \in Nat
             /\ Cardinality(UnitsAt(d, R \cup Q, sign))
                  = Cardinality(UnitsAt(d, R, sign)) + Cardinality(UnitsAt(d, Q, sign))
  <2>. DEFINE A == UnitsAt(d, R, sign)
              B == UnitsAt(d, Q, sign)
  <2>1. IsFiniteSet(A) /\ IsFiniteSet(B)
    BY UnitsAre
  <2>2. UnitsAt(d, R \cup Q, sign) = A \cup B
    BY DEF UnitsAt
  <2>3. A \cap B = {}
    <3>1. (\A u \in A : u[1] \in R) /\ (\A u \in B : u[1] \in Q)
      BY DEF UnitsAt
    <3>. QED
      BY <3>1
  <2>. HIDE DEF A, B
  <2>4. /\ Cardinality(A \cup B) = Cardinality(A) + Cardinality(B) - Cardinality(A \cap B)
        /\ Cardinality(A) \in Nat /\ Cardinality(B) \in Nat /\ Cardinality(A \cap B) = 0
    BY <2>1, <2>3, FS_Union, FS_CardinalityType, FS_EmptySet
  <2>5. Cardinality(A \cup B) = Cardinality(A) + Cardinality(B)
    BY <2>4
  <2>. QED
    BY <2>2, <2>4, <2>5 DEF A, B
<1>. QED
  BY <1>1 DEF TrueAt

\* The integer sum of one row is its value.
LEMMA TrueOfOne ==
    ASSUME NEW r, NEW d, d[r].val \in Int
    PROVE  TrueAt(d, {r}) = d[r].val
<1>. DEFINE v == d[r].val
<1>1. ASSUME NEW sign \in {1, -1}
      PROVE  Cardinality(UnitsAt(d, {r}, sign)) = IF sign * v > 0 THEN sign * v ELSE 0
  <2>1. sign * v \in Int
    OBVIOUS
  <2>2. UnitsAt(d, {r}, sign) = {r} \X (1 .. sign * v)
    BY DEF UnitsAt
  <2>3. ASSUME NEW n \in Int
        PROVE  Cardinality({r} \X (1 .. n)) = IF n > 0 THEN n ELSE 0
    <3>1. IsFiniteSet({r}) /\ Cardinality({r}) = 1
      BY FS_Singleton
    <3>2. IsFiniteSet(1 .. n) /\ Cardinality(1 .. n) = IF n > 0 THEN n ELSE 0
      BY FS_Interval
    <3>3. Cardinality({r} \X (1 .. n)) = Cardinality({r}) * Cardinality(1 .. n)
      BY <3>1, <3>2, FS_Product
    <3>. QED
      BY <3>1, <3>2, <3>3
  <2>. QED
    BY <2>1, <2>2, <2>3
<1>2. Cardinality(UnitsAt(d, {r}, 1)) = IF v > 0 THEN v ELSE 0
  <2>1. 1 * v = v
    OBVIOUS
  <2>. QED
    BY <1>1, <2>1
<1>3. Cardinality(UnitsAt(d, {r}, -1)) = IF v < 0 THEN -v ELSE 0
  <2>1. -1 * v = -v
    OBVIOUS
  <2>. QED
    BY <1>1, <2>1
<1>. QED
  BY <1>2, <1>3 DEF TrueAt

\* A value is the sum of its own row ...
LEMMA SumOfOne ==
    ASSUME NEW r, NEW d, d[r].val \in Numbers, colType # "string"
    PROVE  IsSum(colType, d[r].val, d, {r})
<1>. DEFINE v == d[r].val
            V == {d[q].val : q \in {r}}
<1>1. V = {v}
  OBVIOUS
<1>2. v \in Int => TrueAt(d, {r}) = v
  BY TrueOfOne
<1>3. CASE colType = "int64"
  <2>1. v \in -HalfRange .. HalfRange - 1 /\ v \in Int /\ HalfRange \in Nat
    BY <1>3, AggregationAssumption DEF Numbers
  <2>2. TrueAt(d, {r}) = v + (2 * HalfRange) * 0
    BY <1>2, <2>1
  <2>. QED
    BY <1>3, <2>1, <2>2 DEF IsSum
<1>4. CASE colType # "int64"
  <2>1. v \in Int \cup {NaN, NegInf, PosInf}
    BY <1>4 DEF Numbers
  <2>. HIDE DEF v, V
  <2>2. \/ (NaN \in V \/ {NegInf, PosInf} \subseteq V) /\ v = NaN
        \/ V \cap {NaN, PosInf} = {} /\ NegInf \in V /\ v = NegInf
        \/ V \cap {NaN, NegInf} = {} /\ PosInf \in V /\ v = PosInf
        \/ V \cap NotFinite = {} /\ v = TrueAt(d, {r})
    BY <1>1, <1>2, <2>1, FloatsApart DEF NotFinite
  <2>. QED
    BY <1>4, <2>2 DEF IsSum, v, V
<1>. QED
  BY <1>3, <1>4

\* ... and Plus makes the sum of two sets of rows from the sums of each.
LEMMA SumOfUnion ==
    ASSUME NEW R, IsFiniteSet(R), NEW Q, IsFiniteSet(Q), R \cap Q = {},
           NEW d, \A r \in R \cup Q : d[r].val \in Numbers, colType # "string",
           NEW x, NEW y, IsSum(colType, x, d, R), IsSum(colType, y, d, Q)
    PROVE  IsSum(colType, Plus(x, y), d, R \cup Q)
<1>1. CASE colType = "int64"
  <2>1. \A r \in R \cup Q : d[r].val \in Int
    BY <1>1, AggregationAssumption DEF Numbers
  <2>. DEFINE m == 2 * HalfRange
              a == TrueAt(d, R)
              b == TrueAt(d, Q)
  <2>2. a \in Int /\ b \in Int /\ TrueAt(d, R \cup Q) = a + b /\ m \in Nat
    BY <2>1, TrueOfUnion, AggregationAssumption
  <2>3. /\ x \in -HalfRange .. HalfRange - 1 /\ \E q \in Int : a = x + m * q
        /\ y \in -HalfRange .. HalfRange - 1 /\ \E q \in Int : b = y + m * q
    BY <1>1 DEF IsSum
  <2>4. x \in Int /\ y \in Int
    BY <2>3, AggregationAssumption
  <2>5. /\ Wrap(x + y) \in -HalfRange .. HalfRange - 1
        /\ \E q \in Int : x + y = Wrap(x + y) + m * q
    BY <2>4, WrapIs
  <2>. HIDE DEF m, a, b
  <2>6. PICK p \in Int : a = x + m * p
    BY <2>3
  <2>7. PICK q \in Int : b = y + m * q
    BY <2>3
  <2>8. PICK r \in Int : x + y = Wrap(x + y) + m * r
    BY <2>5
  <2>9. Wrap(x + y) \in Int
    BY <2>5, AggregationAssumption
  <2>10. a + b = Wrap(x + y) + m * (p + q + r) /\ p + q + r \in Int
    <3>1. m * (p + q + r) = m * p + m * q + m * r /\ m * p \in Int /\ m * q \in Int /\ m * r \in Int
      BY <2>2
    <3>. QED
      BY <2>2, <2>4, <2>6, <2>7, <2>8, <2>9, <3>1
  <2>11. TrueAt(d, R \cup Q) = Wrap(x + y) + m * (p + q + r)
    BY <2>2, <2>10
  <2>. QED
    BY <1>1, <2>5, <2>10, <2>11 DEF IsSum, Plus, m
<1>2. CASE colType # "int64"
  <2>. DEFINE V == {d[r].val : r \in R}
              W == {d[r].val : r \in Q}
              U == {d[r].val : r \in R \cup Q}
  <2>1. U = V \cup W
    OBVIOUS
  <2>2. V \subseteq Int \cup NotFinite /\ W \subseteq Int \cup NotFinite
    BY <1>2 DEF Numbers, NotFinite
  <2>3. U \cap NotFinite = {} =>
           /\ TrueAt(d, R) \in Int /\ TrueAt(d, Q) \in Int
           /\ TrueAt(d, R \cup Q) = TrueAt(d, R) + TrueAt(d, Q)
    <3>. SUFFICES ASSUME U \cap NotFinite = {} PROVE \A r \in R \cup Q : d[r].val \in Int
      BY TrueOfUnion
    <3>1. \A r \in R \cup Q : d[r].val \in V \/ d[r].val \in W
      OBVIOUS
    <3>. QED
      BY <2>1, <2>2, <3>1
  <2>4. /\ \/ (NaN \in V \/ {NegInf, PosInf} \subseteq V) /\ x = NaN
           \/ V \cap {NaN, PosInf} = {} /\ NegInf \in V /\ x = NegInf
           \/ V \cap {NaN, NegInf} = {} /\ PosInf \in V /\ x = PosInf
           \/ V \cap NotFinite = {} /\ x = TrueAt(d, R)
        /\ \/ (NaN \in W \/ {NegInf, PosInf} \subseteq W) /\ y = NaN
           \/ W \cap {NaN, PosInf} = {} /\ NegInf \in W /\ y = NegInf
           \/ W \cap {NaN, NegInf} = {} /\ PosInf \in W /\ y = PosInf
           \/ W \cap NotFinite = {} /\ y = TrueAt(d, Q)
    BY <1>2 DEF IsSum
  <2>. HIDE DEF V, W, U
  <2>5. /\ V \cap NotFinite = {} => TrueAt(d, R) \in Int
        /\ W \cap NotFinite = {} => TrueAt(d, Q) \in Int
    <3>1. /\ V \cap NotFinite = {} => \A r \in R : d[r].val \in Int
          /\ W \cap NotFinite = {} => \A r \in Q : d[r].val \in Int
      BY <2>2 DEF V, W
    <3>2. IsFiniteSet({}) /\ R \cap {} = {} /\ Q \cap {} = {} /\ R \cup {} = R /\ Q \cup {} = Q
      BY FS_EmptySet
    <3>. QED
      BY <3>1, <3>2, TrueOfUnion
  <2>6. LET z == FloatPlus(x, y)
        IN \/ (NaN \in U \/ {NegInf, PosInf} \subseteq U) /\ z = NaN
           \/ U \cap {NaN, PosInf} = {} /\ NegInf \in U /\ z = NegInf
           \/ U \cap {NaN, NegInf} = {} /\ PosInf \in U /\ z = PosInf
           \/ U \cap NotFinite = {} /\ z = TrueAt(d, R \cup Q)
    BY <2>1, <2>2, <2>3, <2>4, <2>5, FloatsApart DEF FloatPlus, NotFinite
  <2>. QED
    BY <1>2, <2>6 DEF IsSum, Plus, U
<1>. QED
  BY <1>1, <1>2

\* What is the sum is what SumOf makes of the rows.
LEMMA SumIs ==
    ASSUME NEW R, IsFiniteSet(R), colType \in {"int64", "float64", "string"},
           colType # "string" => \A r \in R : data[r].val \in Numbers,
           NEW x, IsSum(colType, x, data, R)
    PROVE  x = SumOf(R)
<1>. DEFINE V == {data[r].val : r \in R}
<1>1. TrueSum(R) = TrueAt(data, R) /\ ValsOf(R) = V
  BY DEF TrueSum, TrueAt, Units, UnitsAt, ValsOf
<1>2. CASE colType = "string"
  BY <1>2 DEF IsSum, SumOf
<1>3. CASE colType = "int64"
  <2>1. \A r \in R : data[r].val \in Int
    BY <1>3, AggregationAssumption DEF Numbers
  <2>2. TrueAt(data, R) \in Int
    <3>1. IsFiniteSet({}) /\ R \cap {} = {} /\ R \cup {} = R
      BY FS_EmptySet
    <3>. QED
      BY <2>1, <3>1, TrueOfUnion
  <2>. DEFINE n == TrueAt(data, R)
              m == 2 * HalfRange
  <2>3. /\ Wrap(n) \in -HalfRange .. HalfRange - 1
        /\ \E q \in Int : n = Wrap(n) + m * q
    BY <2>2, WrapIs
  <2>4. x \in -HalfRange .. HalfRange - 1 /\ \E q \in Int : n = x + m * q
    BY <1>3 DEF IsSum
  <2>. HIDE DEF n, m
  <2>5. PICK p \in Int : n = Wrap(n) + m * p
    BY <2>3
  <2>6. PICK q \in Int : n = x + m * q
    BY <2>4
  <2>7. x = Wrap(n) + m * (p - q) /\ p - q \in Int
    <3>1. m \in Int /\ x \in Int /\ Wrap(n) \in Int /\ m * (p - q) = m * p - m * q
      BY <2>3, <2>4, AggregationAssumption DEF m
    <3>. QED
      BY <2>5, <2>6, <3>1
  <2>8. x = Wrap(n)
    BY <2>3, <2>4, <2>7, WrapUnique DEF m
  <2>. QED
    BY <1>1, <1>3, <2>8 DEF SumOf, n
<1>4. CASE colType = "float64"
  <2>1. \/ (NaN \in V \/ {NegInf, PosInf} \subseteq V) /\ x = NaN
        \/ V \cap {NaN, PosInf} = {} /\ NegInf \in V /\ x = NegInf
        \/ V \cap {NaN, NegInf} = {} /\ PosInf \in V /\ x = PosInf
        \/ V \cap NotFinite = {} /\ x = TrueAt(data, R)
    BY <1>4 DEF IsSum
  <2>. HIDE DEF V
  <2>. QED
    BY <1>1, <1>4, <2>1, FloatsApart DEF SumOf, NotFinite
<1>. QED
  BY <1>2, <1>3, <1>4

-----------------------------------------------------------------------------
(* The state.  Aggregators, exported states and calls of MergeState, with    *)
(* the accumulators they have built, are looked at alike: each of the boxes  *)
(* has groups, and holds the totals of some rows.                            *)

GroupMaps == UNION {[K -> Fields] : K \in SUBSET Keys}

SnapType == [status : {"none", "sent", "merging", "merged", "refused"},
             groups : GroupMaps, bad : SUBSET Keys]

CallType == [agg : Aggs \cup {None}, snap : Snaps \cup {None},
             todo : SUBSET Keys, accums : GroupMaps]

Typed ==
    /\ colType \in DOMAIN Vals
    /\ data \in [Rows -> [key : Keys, val : Vals[colType]]]
    /\ unread \subseteq Rows
    /\ live \subseteq Aggs
    /\ groups \in [Aggs -> GroupMaps]
    /\ heap \in [1 .. NSketches -> [Regs -> Nat]]
    /\ snap \in [Snaps -> SnapType]
    /\ call \in [Calls -> CallType]
    /\ fed \in [Aggs -> SUBSET Rows]
    /\ taken \in [Snaps -> SUBSET Rows]
    /\ before = [c \in Calls |-> before[c]]

Box == live \cup Snaps \cup Calls

Has == [b \in Aggs \cup Snaps \cup Calls |->
          IF b \in Aggs THEN groups[b] ELSE IF b \in Snaps THEN snap[b].groups
          ELSE call[b].accums]

\* The rows of the accumulators the call c has built and not yet applied.
Built(c) == {r \in Rows : r \in taken[call[c].snap] /\ data[r].key \in DOMAIN call[c].accums}

Of == [b \in Aggs \cup Snaps \cup Calls |->
         IF b \in Aggs THEN fed[b] ELSE IF b \in Snaps THEN taken[b] ELSE Built(b)]

\* A member of GroupMaps, by its domain and its values.
LEMMA GroupMapIs ==
    ASSUME NEW S
    PROVE  S \in GroupMaps <=> /\ S = [k \in DOMAIN S |-> S[k]]
                               /\ DOMAIN S \subseteq Keys
                               /\ \A k \in DOMAIN S : S[k] \in Fields
BY DEF GroupMaps

\* What a box has and holds, for an aggregator and for an exported state.
LEMMA TypedHas ==
    ASSUME Typed
    PROVE  /\ \A b \in Box : Has[b] \in GroupMaps /\ Of[b] \in SUBSET Rows
           /\ \A a \in live : Has[a] = groups[a] /\ Of[a] = fed[a]
           /\ \A s \in Snaps : Has[s] = snap[s].groups /\ Of[s] = taken[s]
           /\ \A c \in Calls : Has[c] = call[c].accums /\ Of[c] = Built(c)
<1>1. (\A s \in Snaps : s \notin Aggs) /\ (\A c \in Calls : c \notin Aggs /\ c \notin Snaps)
  BY AggregationAssumption
<1>2. \A s \in Snaps : snap[s].groups \in GroupMaps
  BY DEF Typed, SnapType
<1>3. \A c \in Calls : call[c].accums \in GroupMaps /\ Built(c) \in SUBSET Rows
  BY DEF Typed, CallType, Built
<1>. QED
  BY <1>1, <1>2, <1>3 DEF Typed, Box, Has, Of

-----------------------------------------------------------------------------
(* Allocation. *)

\* Every sketch in use is held by a group of one of the boxes.
LEMMA InUseIs ==
    ASSUME Typed
    PROVE  /\ \A b \in Box : \A k \in DOMAIN Has[b] :
                 Has[b][k].hll \in 1 .. NSketches => Has[b][k].hll \in InUse
           /\ \A i \in InUse : \E b \in Box : \E k \in DOMAIN Has[b] : i = Has[b][k].hll
<1>1. /\ \A a \in live : Has[a] = groups[a]
      /\ \A s \in Snaps : Has[s] = snap[s].groups
      /\ \A c \in Calls : Has[c] = call[c].accums
  BY TypedHas
<1>2. \A n : n \in InUse <=> \E b \in Box : n \in Held(Has[b])
  <2>1. /\ \A a \in live : Held(Has[a]) = Held(groups[a])
        /\ \A s \in Snaps : Held(Has[s]) = Held(snap[s].groups)
        /\ \A c \in Calls : Held(Has[c]) = Held(call[c].accums)
    BY <1>1
  <2>2. \A n : n \in InUse <=> \/ \E a \in live : n \in Held(groups[a])
                               \/ \E s \in Snaps : n \in Held(snap[s].groups)
                               \/ \E c \in Calls : n \in Held(call[c].accums)
    <3>. DEFINE L == UNION {Held(groups[a]) : a \in live}
                S == UNION {Held(snap[s].groups) : s \in Snaps}
                C == UNION {Held(call[c].accums) : c \in Calls}
    <3>1. \A n : n \in L <=> \E a \in live : n \in Held(groups[a])
      BY Zenon
    <3>2. \A n : n \in S <=> \E s \in Snaps : n \in Held(snap[s].groups)
      BY Zenon
    <3>3. \A n : n \in C <=> \E c \in Calls : n \in Held(call[c].accums)
      BY Zenon
    <3>4. InUse = L \cup S \cup C
      BY Zenon DEF InUse
    <3>. HIDE DEF L, S, C
    <3>. QED
      BY <3>1, <3>2, <3>3, <3>4
  <2>3. \A n, b : n \in Held(Has[b]) /\ b \in Box <=>
                    n \in Held(Has[b]) /\ (b \in live \/ b \in Snaps \/ b \in Calls)
    BY DEF Box
  <2>. QED
    BY <2>1, <2>2, <2>3, Zenon
<1>. QED
  BY <1>2, HeapAssumption DEF Held

\* There are as many free sketches as keys.
LEMMA FreeSketches ==
    ASSUME Typed
    PROVE  LET free == 1 .. NSketches \ InUse
           IN  IsFiniteSet(free) /\ Cardinality(free) >= Cardinality(Keys)
<1>. DEFINE P == {p \in Box \X Keys : p[2] \in DOMAIN Has[p[1]]}
            F == [p \in P |-> Has[p[1]][p[2]].hll]
            A == Cardinality(Aggs)
            B == Cardinality(Snaps) + Cardinality(Calls)
            K == Cardinality(Keys)
<1>1. /\ IsFiniteSet(Aggs) /\ IsFiniteSet(Snaps) /\ IsFiniteSet(Calls) /\ IsFiniteSet(Keys)
      /\ Cardinality(Snaps) \in Nat /\ Cardinality(Calls) \in Nat
      /\ A \in Nat /\ B \in Nat /\ K \in Nat
  BY AggregationAssumption, FS_CardinalityType
<1>2. IsFiniteSet(Box) /\ Cardinality(Box) \in Nat /\ Cardinality(Box) <= A + B
  <2>1. IsFiniteSet(live) /\ Cardinality(live) <= A /\ Cardinality(live) \in Nat
    BY <1>1, FS_Subset, FS_CardinalityType DEF Typed
  <2>2. ASSUME NEW S, NEW T, IsFiniteSet(S), IsFiniteSet(T)
        PROVE  /\ IsFiniteSet(S \cup T) /\ Cardinality(S \cup T) \in Nat
               /\ Cardinality(S \cup T) <= Cardinality(S) + Cardinality(T)
    <3>1. /\ IsFiniteSet(S \cup T)
          /\ Cardinality(S \cup T) = Cardinality(S) + Cardinality(T) - Cardinality(S \cap T)
      BY <2>2, FS_Union
    <3>2. /\ Cardinality(S) \in Nat /\ Cardinality(T) \in Nat
          /\ Cardinality(S \cap T) \in Nat /\ Cardinality(S \cup T) \in Nat
      BY <2>2, <3>1, FS_Intersection, FS_CardinalityType
    <3>. QED
      BY <3>1, <3>2
  <2>3. /\ IsFiniteSet(live \cup Snaps) /\ Cardinality(live \cup Snaps) \in Nat
        /\ Cardinality(live \cup Snaps) <= Cardinality(live) + Cardinality(Snaps)
    BY <1>1, <2>1, <2>2
  <2>4. /\ IsFiniteSet(Box) /\ Cardinality(Box) \in Nat
        /\ Cardinality(Box) <= Cardinality(live \cup Snaps) + Cardinality(Calls)
    BY <1>1, <2>2, <2>3 DEF Box
  <2>. QED
    BY <1>1, <2>1, <2>3, <2>4
<1>3. IsFiniteSet(P) /\ Cardinality(P) \in Nat /\ Cardinality(P) <= Cardinality(Box) * K
  <2>1. IsFiniteSet(Box \X Keys) /\ Cardinality(Box \X Keys) = Cardinality(Box) * K
    BY <1>1, <1>2, FS_Product
  <2>2. P \in SUBSET (Box \X Keys)
    OBVIOUS
  <2>3. IsFiniteSet(P) /\ Cardinality(P) <= Cardinality(Box \X Keys)
    BY <2>1, <2>2, FS_Subset
  <2>. QED
    BY <2>1, <2>3, FS_CardinalityType
<1>4. IsFiniteSet(Range(F)) /\ Cardinality(Range(F)) \in Nat /\ Cardinality(Range(F)) <= Cardinality(P)
  <2>1. F \in [P -> Range(F)]
    BY DEF Range
  <2>2. F \in Surjection(P, Range(F))
    BY <2>1, Fun_RangeProperties
  <2>. QED
    BY <1>3, <2>2, FS_Surjection, FS_CardinalityType
<1>5. InUse \subseteq Range(F)
  <2>. SUFFICES ASSUME NEW n \in InUse
                PROVE  n \in Range(F)
    OBVIOUS
  <2>1. PICK b \in Box : \E k \in DOMAIN Has[b] : n = Has[b][k].hll
    BY InUseIs
  <2>2. PICK k \in DOMAIN Has[b] : n = Has[b][k].hll
    BY <2>1
  <2>3. k \in Keys
    BY <2>2, TypedHas, GroupMapIs
  <2>4. <<b, k>> \in P /\ F[<<b, k>>] = n
    BY <2>2, <2>3
  <2>. QED
    BY <2>4 DEF Range
<1>6. /\ IsFiniteSet(1 .. NSketches \ InUse)
      /\ Cardinality(1 .. NSketches \ InUse) >= NSketches - Cardinality(Range(F))
  <2>. DEFINE used == (1 .. NSketches) \cap InUse
  <2>1. IsFiniteSet(1 .. NSketches) /\ Cardinality(1 .. NSketches) = NSketches
    BY FS_Interval, HeapAssumption
  <2>2. IsFiniteSet(used) /\ Cardinality(used) <= Cardinality(Range(F)) /\ Cardinality(used) \in Nat
    <3>1. used \in SUBSET Range(F)
      BY <1>5
    <3>. QED
      BY <1>4, <3>1, FS_Subset, FS_CardinalityType
  <2>3. /\ IsFiniteSet(1 .. NSketches \ InUse)
        /\ Cardinality(1 .. NSketches \ InUse) = NSketches - Cardinality(used)
    BY <2>1, FS_Difference
  <2>. QED
    BY <1>4, <2>2, <2>3, HeapAssumption
<1>7. Cardinality(Box) * K <= (A + B) * K
  <2>. HIDE DEF A, B, K
  <2>1. \A x, y, z \in Nat : x <= y => x * z <= y * z
    OBVIOUS
  <2>. QED
    BY <1>1, <1>2, <2>1
<1>8. (A + B + 1) * K = (A + B) * K + K
  BY <1>1
<1>9. Cardinality(Range(F)) <= (A + B) * K /\ (A + B) * K \in Nat
  BY <1>1, <1>2, <1>3, <1>4, <1>7
<1>10. Cardinality(1 .. NSketches \ InUse) \in Nat
  BY <1>6, FS_CardinalityType
<1>. DEFINE G == Cardinality(1 .. NSketches \ InUse)
            R == Cardinality(Range(F))
            AB == (A + B) * K
<1>11. G >= K
  <2>1. G \in Nat /\ R \in Nat /\ AB \in Nat /\ K \in Nat /\ NSketches \in Nat
    BY <1>1, <1>4, <1>9, <1>10, HeapAssumption
  <2>2. NSketches >= AB + K /\ R <= AB /\ G >= NSketches - R
    <3>1. A + Cardinality(Snaps) + Cardinality(Calls) + 1 = A + B + 1
      BY <1>1
    <3>. QED
      BY <1>6, <1>8, <1>9, <3>1, HeapAssumption
  <2>. QED
    BY <2>1, <2>2
<1>. QED
  BY <1>6, <1>11

\* So Fresh finds a free sketch for every key, and no sketch for two keys.
LEMMA FreshIs ==
    ASSUME Typed, NEW S \in SUBSET Keys
    PROVE  /\ DOMAIN Fresh(S) = S
           /\ Distinct => /\ Fresh(S) \in [S -> 1 .. NSketches \ InUse]
                          /\ \A k, l \in S : Fresh(S)[k] = Fresh(S)[l] => k = l
           /\ ~Distinct => \A k \in S : Fresh(S)[k] = None
<1>. DEFINE free == 1 .. NSketches \ InUse
            n == Cardinality(S)
            m == Cardinality(free)
<1>1. IsFiniteSet(S) /\ n \in Nat /\ n <= Cardinality(Keys) /\ Cardinality(Keys) \in Nat
  BY AggregationAssumption, FS_Subset, FS_CardinalityType
<1>2. IsFiniteSet(free) /\ m \in Nat /\ n <= m
  BY <1>1, FreeSketches, FS_CardinalityType
<1>3. Injection(S, free) # {}
  <2>1. PICK b \in Bijection(1 .. n, S) : TRUE
    BY <1>1, FS_CardinalityType DEF ExistsBijection
  <2>2. PICK c \in Bijection(1 .. m, free) : TRUE
    BY <1>2, FS_CardinalityType DEF ExistsBijection
  <2>3. Inverse(b, 1 .. n, S) \in Injection(S, 1 .. n)
    BY Fun_BijInverse, Fun_BijectionProperties
  <2>4. [i \in 1 .. n |-> c[i]] \in Injection(1 .. n, free)
    <3>1. 1 .. n \subseteq 1 .. m
      BY <1>1, <1>2
    <3>. HIDE DEF free, n, m
    <3>2. c \in [1 .. m -> free] /\ \A i, j \in 1 .. m : c[i] = c[j] => i = j
      BY Fun_BijectionProperties
    <3>3. [i \in 1 .. n |-> c[i]] \in [1 .. n -> free]
      BY <3>1, <3>2
    <3>. QED
      BY <3>1, <3>2, <3>3, Fun_IsInj
  <2>. QED
    BY <2>3, <2>4, Fun_InjTransitive
<1>4. CASE Distinct
  <2>1. Fresh(S) \in Injection(S, free)
    BY <1>3, <1>4 DEF Fresh
  <2>. HIDE DEF free
  <2>2. Fresh(S) \in [S -> free] /\ \A k, l \in S : Fresh(S)[k] = Fresh(S)[l] => k = l
    BY <2>1, Fun_InjectionProperties
  <2>. QED
    BY <1>4, <2>2 DEF free
<1>5. CASE ~Distinct
  BY <1>5 DEF Fresh
<1>. QED
  BY <1>4, <1>5

\* Filled writes the sketches it is given and no other.
LEMMA FilledIs ==
    ASSUME Typed, Distinct, NEW S, NEW f \in [S -> 1 .. NSketches],
           \A k, l \in S : f[k] = f[l] => k = l,
           NEW new \in [S -> [Regs -> Nat]]
    PROVE  /\ Filled(f, new) \in [1 .. NSketches -> [Regs -> Nat]]
           /\ \A k \in S : Filled(f, new)[f[k]] = new[k]
           /\ \A i \in 1 .. NSketches : (\A k \in S : f[k] # i) => Filled(f, new)[i] = heap[i]
<1>1. \A i : i \in Range(f) <=> \E k \in S : f[k] = i
  BY DEF Range
<1>2. \A k \in S : (CHOOSE l \in DOMAIN f : f[l] = f[k]) = k
  OBVIOUS
<1>3. \A i \in Range(f) : (CHOOSE l \in DOMAIN f : f[l] = i) \in S
  BY <1>1
<1>4. /\ \A i \in Range(f) : Filled(f, new)[i] = new[CHOOSE l \in DOMAIN f : f[l] = i]
      /\ \A i \in 1 .. NSketches : i \notin Range(f) => Filled(f, new)[i] = heap[i]
      /\ DOMAIN Filled(f, new) = 1 .. NSketches
      /\ Filled(f, new) = [i \in 1 .. NSketches |-> Filled(f, new)[i]]
  BY <1>1 DEF Filled
<1>5. \A k \in S : Filled(f, new)[f[k]] = new[k]
  <2>. TAKE k \in S
  <2>1. f[k] \in Range(f)
    BY <1>1
  <2>2. Filled(f, new)[f[k]] = new[CHOOSE l \in DOMAIN f : f[l] = f[k]]
    BY <1>4, <2>1
  <2>. QED
    BY <1>2, <2>2
<1>6. \A i \in 1 .. NSketches : Filled(f, new)[i] \in [Regs -> Nat]
  <2>. TAKE i \in 1 .. NSketches
  <2>1. CASE i \in Range(f)
    <3>1. Filled(f, new)[i] = new[CHOOSE l \in DOMAIN f : f[l] = i]
      BY <1>4, <2>1
    <3>2. (CHOOSE l \in DOMAIN f : f[l] = i) \in S
      BY <1>3, <2>1
    <3>. QED
      BY <3>1, <3>2
  <2>2. CASE i \notin Range(f)
    BY <1>4, <2>2 DEF Typed
  <2>. QED
    BY <2>1, <2>2
<1>. QED
  BY <1>1, <1>4, <1>5, <1>6

\* An allocation: one free sketch per key, with the new contents; those in use keep theirs.
LEMMA FilledFresh ==
    ASSUME Typed, Distinct, NEW S \in SUBSET Keys, NEW new \in [S -> [Regs -> Nat]]
    PROVE  /\ Fresh(S) \in [S -> 1 .. NSketches \ InUse]
           /\ \A k, l \in S : Fresh(S)[k] = Fresh(S)[l] => k = l
           /\ Filled(Fresh(S), new) \in [1 .. NSketches -> [Regs -> Nat]]
           /\ \A k \in S : Filled(Fresh(S), new)[Fresh(S)[k]] = new[k]
           /\ \A i \in InUse \cap (1 .. NSketches) : Filled(Fresh(S), new)[i] = heap[i]
<1>. DEFINE f == Fresh(S)
<1>1. f \in [S -> 1 .. NSketches \ InUse] /\ \A k, l \in S : f[k] = f[l] => k = l
  BY FreshIs
<1>. HIDE DEF f
<1>2. f \in [S -> 1 .. NSketches] /\ \A k \in S : f[k] \notin InUse
  BY <1>1
<1>3. /\ Filled(f, new) \in [1 .. NSketches -> [Regs -> Nat]]
      /\ \A k \in S : Filled(f, new)[f[k]] = new[k]
      /\ \A i \in 1 .. NSketches : (\A k \in S : f[k] # i) => Filled(f, new)[i] = heap[i]
  BY <1>1, <1>2, FilledIs
<1>4. \A i \in InUse : \A k \in S : f[k] # i
  BY <1>2
<1>. QED
  BY <1>1, <1>3, <1>4 DEF f

-----------------------------------------------------------------------------
(* Accumulators, by what they are of a set V of values that came from n rows. *)

IsAccum(type, g, V, n) ==
    /\ g.count = n
    /\ g.haveMinMax <=> type # "string"
    /\ g.haveMinMax => IsLeast(type, g.min, V) /\ IsGreatest(type, g.max, V)

\* The run lengths seen by register i, and the registers after V.
Runs(V, i) == {0} \cup {Hash[v].rho : v \in {w \in V : Hash[w].reg = i}}

IsRegs(h, V) == h \in [Regs -> Nat] /\ \A i \in Regs : IsMax(h[i], Runs(V, i))

\* The values of the column are numbers unless it is a string column, and have a hash.
LEMMA ValuesAre ==
    ASSUME Typed
    PROVE  /\ colType # "string" => Vals[colType] \subseteq Numbers
           /\ \A v \in Vals[colType] : Hash[v].reg \in Regs /\ Hash[v].rho \in Nat
           /\ colType = "string" => Distinct
<1>1. Vals[colType] \subseteq UNION Range(Vals)
  BY DEF Typed, Range
<1>. QED
  BY <1>1, AggregationAssumption DEF Typed, Numbers, NotFinite

\* A record with the fields of an accumulator is one.
LEMMA FieldsAre ==
    ASSUME NEW g, g = [count |-> g.count, sum |-> g.sum, min |-> g.min, max |-> g.max,
                       haveMinMax |-> g.haveMinMax, hll |-> g.hll],
           g.count \in Nat, g.sum \in Numbers, g.min \in Numbers, g.max \in Numbers,
           g.haveMinMax \in BOOLEAN, g.hll \in (1 .. NSketches) \cup {None}
    PROVE  g \in Fields
BY DEF Fields

\* AddValue, field by field.
Adds(g, v, h) ==
    /\ h = [count |-> h.count, sum |-> h.sum, min |-> h.min, max |-> h.max,
            haveMinMax |-> h.haveMinMax, hll |-> h.hll]
    /\ h.count = g.count + 1 /\ h.hll = g.hll
    /\ h.haveMinMax \in BOOLEAN
    /\ colType = "string" => /\ h.sum = g.sum /\ h.min = g.min /\ h.max = g.max
                             /\ h.haveMinMax = g.haveMinMax
    /\ colType # "string" => /\ h.sum = Plus(g.sum, v)
                             /\ h.haveMinMax
                             /\ g.haveMinMax => /\ h.min = Least({g.min, v})
                                                /\ h.max = Greatest({g.max, v})
                             /\ ~g.haveMinMax => h.min = v /\ h.max = v

\* What AddValue changes, field by field.
LEMMA AddValueFields ==
    ASSUME NEW g \in Fields, NEW v
    PROVE  Adds(g, v, AddValue(g, v))
<1>1. CASE colType = "string"
  BY <1>1 DEF AddValue, Adds, Fields
<1>2. CASE colType # "string"
  BY <1>2 DEF AddValue, Adds, Fields
<1>. QED
  BY <1>1, <1>2

\* An accumulator given its first value is the one of that value.
LEMMA NewAccumIs ==
    ASSUME Typed, NEW v \in Vals[colType], NEW id \in (1 .. NSketches) \cup {None}
    PROVE  LET g == AddValue(NewAccum(id), v)
           IN  /\ g \in Fields /\ g.hll = id /\ IsAccum(colType, g, {v}, 1)
               /\ g.sum = IF colType = "string" THEN 0 ELSE v
<1>. DEFINE new == NewAccum(id)
            g == AddValue(new, v)
<1>1. 0 \in Numbers
  BY AggregationAssumption DEF Numbers
<1>2. /\ new \in Fields /\ new.count = 0 /\ new.sum = 0 /\ new.min = 0 /\ new.max = 0
      /\ new.haveMinMax = FALSE /\ new.hll = id
  <2>1. new = [count |-> 0, sum |-> 0, min |-> 0, max |-> 0, haveMinMax |-> FALSE, hll |-> id]
    BY DEF NewAccum
  <2>2. new \in Fields
    BY <1>1, <2>1 DEF Fields
  <2>. QED
    BY <2>1, <2>2
<1>. HIDE DEF new
<1>3. /\ g = [count |-> g.count, sum |-> g.sum, min |-> g.min, max |-> g.max,
              haveMinMax |-> g.haveMinMax, hll |-> g.hll]
      /\ g.count = 1 /\ g.hll = id /\ g.haveMinMax \in BOOLEAN
      /\ colType = "string" => g.sum = 0 /\ g.min = 0 /\ g.max = 0 /\ ~g.haveMinMax
      /\ colType # "string" => g.sum = Plus(0, v) /\ g.min = v /\ g.max = v /\ g.haveMinMax
  <2>1. Adds(new, v, g)
    BY <1>2, AddValueFields
  <2>. HIDE DEF g
  <2>. QED
    BY <1>2, <2>1 DEF Adds
<1>. HIDE DEF g
<1>4. CASE colType = "string"
  <2>1. g \in Fields
    BY <1>1, <1>3, <1>4, FieldsAre
  <2>2. IsAccum(colType, g, {v}, 1)
    BY <1>3, <1>4 DEF IsAccum
  <2>. QED
    BY <1>3, <1>4, <2>1, <2>2 DEF g, new
<1>5. CASE colType # "string"
  <2>1. v \in Numbers /\ Plus(0, v) \in Numbers
    BY <1>1, <1>5, ValuesAre, NumbersClosed
  <2>2. g \in Fields
    BY <1>3, <1>5, <2>1, FieldsAre
  <2>3. IsAccum(colType, g, {v}, 1)
    BY <1>3, <1>5, <2>1, OwnExtreme DEF IsAccum
  <2>4. Plus(0, v) = v
    <3>1. CASE colType = "int64"
      <4>1. v \in -HalfRange .. HalfRange - 1 /\ v \in Int /\ HalfRange \in Nat
        BY <2>1, <3>1, AggregationAssumption DEF Numbers
      <4>2. Wrap(v) \in -HalfRange .. HalfRange - 1 /\ \E q \in Int : v = Wrap(v) + (2 * HalfRange) * q
        BY <4>1, WrapIs
      <4>3. v = Wrap(v)
        BY <4>1, <4>2, WrapUnique
      <4>. QED
        BY <3>1, <4>1, <4>3 DEF Plus
    <3>2. CASE colType # "int64"
      BY <2>1, <3>2, FloatsApart DEF Plus, FloatPlus, Numbers
    <3>. QED
      BY <3>1, <3>2
  <2>. QED
    BY <1>3, <1>5, <2>2, <2>3, <2>4 DEF g, new
<1>. QED
  BY <1>4, <1>5

\* One more row.
LEMMA AddValueIs ==
    ASSUME Typed, NEW v \in Vals[colType], NEW g \in Fields,
           NEW V \in SUBSET Vals[colType], NEW n \in Nat, IsAccum(colType, g, V, n)
    PROVE  /\ AddValue(g, v) \in Fields
           /\ AddValue(g, v).hll = g.hll
           /\ AddValue(g, v).sum = IF colType = "string" THEN g.sum ELSE Plus(g.sum, v)
           /\ IsAccum(colType, AddValue(g, v), V \cup {v}, n + 1)
<1>. DEFINE h == AddValue(g, v)
<1>1. /\ h = [count |-> h.count, sum |-> h.sum, min |-> h.min, max |-> h.max,
              haveMinMax |-> h.haveMinMax, hll |-> h.hll]
      /\ h.count = g.count + 1 /\ h.hll = g.hll /\ h.haveMinMax \in BOOLEAN
      /\ colType = "string" => /\ h.sum = g.sum /\ h.min = g.min /\ h.max = g.max
                               /\ ~h.haveMinMax
      /\ colType # "string" => /\ h.sum = Plus(g.sum, v) /\ h.haveMinMax
                               /\ h.min = Least({g.min, v}) /\ h.max = Greatest({g.max, v})
  <2>1. Adds(g, v, h)
    BY AddValueFields
  <2>. HIDE DEF h
  <2>. QED
    BY <2>1 DEF Adds, IsAccum
<1>2. /\ g.count \in Nat /\ g.sum \in Numbers /\ g.min \in Numbers /\ g.max \in Numbers
      /\ g.hll \in (1 .. NSketches) \cup {None}
  BY DEF Fields
<1>. HIDE DEF h
<1>3. CASE colType = "string"
  <2>1. h \in Fields
    BY <1>1, <1>2, <1>3, FieldsAre
  <2>2. IsAccum(colType, h, V \cup {v}, n + 1)
    BY <1>1, <1>3 DEF IsAccum
  <2>. QED
    BY <1>1, <1>3, <2>1, <2>2 DEF h
<1>4. CASE colType # "string"
  <2>1. v \in Numbers /\ {v} \in SUBSET Numbers /\ V \in SUBSET Numbers
    BY <1>4, ValuesAre
  <2>2. h \in Fields
    <3>1. h.sum \in Numbers /\ h.min \in Numbers /\ h.max \in Numbers
      BY <1>1, <1>2, <1>4, <2>1, NumbersClosed
    <3>. QED
      BY <1>1, <1>2, <1>4, <3>1, FieldsAre
  <2>3. IsLeast(colType, h.min, V \cup {v}) /\ IsGreatest(colType, h.max, V \cup {v})
    <3>1. IsLeast(colType, g.min, V) /\ IsGreatest(colType, g.max, V)
      BY <1>4 DEF IsAccum
    <3>2. IsLeast(colType, v, {v}) /\ IsGreatest(colType, v, {v})
      BY <2>1, OwnExtreme
    <3>. QED
      BY <1>1, <1>4, <2>1, <3>1, <3>2, LeastOfUnion, GreatestOfUnion
  <2>4. IsAccum(colType, h, V \cup {v}, n + 1)
    BY <1>1, <1>4, <2>3 DEF IsAccum
  <2>. QED
    BY <1>1, <1>4, <2>2, <2>4 DEF h
<1>. QED
  BY <1>3, <1>4

\* The rows of two accumulators.
LEMMA MergeAccumIs ==
    ASSUME Typed, NEW g \in Fields, NEW h \in Fields, NEW id \in (1 .. NSketches) \cup {None},
           NEW V \in SUBSET Vals[colType], NEW W \in SUBSET Vals[colType],
           NEW n \in Nat, NEW m \in Nat,
           IsAccum(colType, g, V, n), IsAccum(colType, h, W, m)
    PROVE  /\ MergeAccum(g, h, id) \in Fields
           /\ MergeAccum(g, h, id).hll = id
           /\ MergeAccum(g, h, id).sum = IF colType = "string" THEN 0 ELSE Plus(g.sum, h.sum)
           /\ IsAccum(colType, MergeAccum(g, h, id), V \cup W, n + m)
<1>. DEFINE q == MergeAccum(g, h, id)
<1>1. /\ q.count = g.count + h.count /\ q.hll = id
      /\ q.haveMinMax = (g.haveMinMax \/ h.haveMinMax)
      /\ q = [count |-> q.count, sum |-> q.sum, min |-> q.min, max |-> q.max,
              haveMinMax |-> q.haveMinMax, hll |-> q.hll]
  BY DEF MergeAccum
<1>2. /\ g.count \in Nat /\ h.count \in Nat /\ g.sum \in Numbers /\ h.sum \in Numbers
      /\ g.min \in Numbers /\ h.min \in Numbers /\ g.max \in Numbers /\ h.max \in Numbers
  BY DEF Fields
<1>3. CASE colType = "string"
  <2>1. q.sum = 0 /\ q.min = h.min /\ q.max = h.max /\ q.haveMinMax = FALSE
    BY <1>3 DEF MergeAccum, IsAccum
  <2>2. 0 \in Numbers
    BY <1>3 DEF Numbers
  <2>. HIDE DEF q
  <2>3. q \in Fields
    BY <1>1, <1>2, <2>1, <2>2 DEF Fields
  <2>4. IsAccum(colType, q, V \cup W, n + m)
    BY <1>1, <1>3, <2>1 DEF IsAccum
  <2>. QED
    BY <1>1, <1>3, <2>1, <2>3, <2>4 DEF q
<1>4. CASE colType # "string"
  <2>1. /\ g.haveMinMax /\ h.haveMinMax /\ q.haveMinMax = TRUE
        /\ V \in SUBSET Numbers /\ W \in SUBSET Numbers
    BY <1>1, <1>4, ValuesAre DEF IsAccum
  <2>2. /\ q.sum = Plus(g.sum, h.sum)
        /\ q.min = Least({g.min, h.min}) /\ q.max = Greatest({g.max, h.max})
    BY <1>4, <2>1 DEF MergeAccum
  <2>3. q.sum \in Numbers /\ q.min \in Numbers /\ q.max \in Numbers
    <3>1. /\ Plus(g.sum, h.sum) \in Numbers
          /\ Least({g.min, h.min}) \in Numbers /\ Greatest({g.max, h.max}) \in Numbers
      BY <1>2, NumbersClosed
    <3>. QED
      BY <2>2, <3>1
  <2>. HIDE DEF q
  <2>4. q \in Fields
    BY <1>1, <1>2, <2>1, <2>3 DEF Fields
  <2>5. IsLeast(colType, q.min, V \cup W) /\ IsGreatest(colType, q.max, V \cup W)
    BY <2>1, <2>2, LeastOfUnion, GreatestOfUnion DEF IsAccum
  <2>6. IsAccum(colType, q, V \cup W, n + m)
    BY <1>1, <1>4, <2>1, <2>5 DEF IsAccum
  <2>. QED
    BY <1>1, <1>4, <2>2, <2>4, <2>6 DEF q
<1>. QED
  BY <1>3, <1>4

-----------------------------------------------------------------------------
(* Registers. *)

\* The run lengths a register gets from two sets of values are those of their union.
LEMMA RunsAre ==
    ASSUME Typed, NEW i,
           NEW V \in SUBSET Vals[colType], NEW W \in SUBSET Vals[colType]
    PROVE  /\ Runs(V, i) \in SUBSET Int
           /\ Runs(V \cup W, i) = Runs(V, i) \cup Runs(W, i)
<1>1. \A v \in Vals[colType] : Hash[v].rho \in Int
  BY ValuesAre
<1>2. Runs(V, i) \in SUBSET Int
  BY <1>1 DEF Runs
<1>3. {w \in V \cup W : Hash[w].reg = i} = {w \in V : Hash[w].reg = i} \cup {w \in W : Hash[w].reg = i}
  OBVIOUS
<1>4. Runs(V \cup W, i) = Runs(V, i) \cup Runs(W, i)
  BY <1>3 DEF Runs
<1>. QED
  BY <1>2, <1>4

\* A new sketch is the one of no values.
LEMMA EmptyIs == IsRegs(Empty, {})
BY DEF IsRegs, Empty, Runs, IsMax

\* The maximum of two integers is one of them, and no less than either.
LEMMA MaxOfTwo ==
    ASSUME NEW x \in Int, NEW y \in Int
    PROVE  Max({x, y}) \in {x, y}
<1>1. IsMax(x, {x}) /\ IsMax(y, {y}) /\ {x} \in SUBSET Int /\ {y} \in SUBSET Int
  BY DEF IsMax
<1>2. IsMax(Max({x, y}), {x} \cup {y})
  BY <1>1, MaxOfUnion
<1>. QED
  BY <1>2 DEF IsMax

\* The register-wise maximum of two sketches is the sketch of both their values.
LEMMA HllMergeIs ==
    ASSUME Typed, NEW V \in SUBSET Vals[colType], NEW W \in SUBSET Vals[colType],
           NEW x, NEW y, IsRegs(x, V), IsRegs(y, W)
    PROVE  IsRegs(HllMerge(x, y), V \cup W)
<1>1. ASSUME NEW i \in Regs
      PROVE  Max({x[i], y[i]}) \in Nat /\ IsMax(Max({x[i], y[i]}), Runs(V \cup W, i))
  <2>1. /\ IsMax(x[i], Runs(V, i)) /\ IsMax(y[i], Runs(W, i))
        /\ x[i] \in Nat /\ y[i] \in Nat
    BY DEF IsRegs
  <2>2. IsMax(Max({x[i], y[i]}), Runs(V, i) \cup Runs(W, i))
    BY <2>1, RunsAre, MaxOfUnion
  <2>3. Max({x[i], y[i]}) \in {x[i], y[i]}
    BY <2>1, MaxOfTwo
  <2>. QED
    BY <2>1, <2>2, <2>3, RunsAre
<1>. QED
  BY <1>1 DEF IsRegs, HllMerge

\* A sketch given one more value is the sketch of them all.
LEMMA HllAddIs ==
    ASSUME Typed, NEW V \in SUBSET Vals[colType], NEW v \in Vals[colType],
           NEW x, IsRegs(x, V)
    PROVE  IsRegs(HllAdd(x, v), V \cup {v})
<1>. DEFINE j == Hash[v].reg
            n == Hash[v].rho
<1>1. j \in Regs /\ n \in Nat /\ {v} \in SUBSET Vals[colType]
  BY ValuesAre
<1>2. Runs({v}, j) = {0, n} /\ \A i \in Regs \ {j} : Runs({v}, i) = {0}
  BY DEF Runs
<1>3. /\ HllAdd(x, v) = [x EXCEPT ![j] = Max({@, n})]
      /\ x \in [Regs -> Nat]
  BY DEF HllAdd, IsRegs
<1>4. Max({x[j], n}) \in Nat /\ IsMax(Max({x[j], n}), Runs(V \cup {v}, j))
  <2>1. IsMax(x[j], Runs(V, j)) /\ x[j] \in Nat
    BY <1>1 DEF IsRegs
  <2>2. IsMax(n, {0, n})
    BY <1>1 DEF IsMax
  <2>3. IsMax(Max({x[j], n}), Runs(V, j) \cup Runs({v}, j))
    BY <1>1, <1>2, <2>1, <2>2, RunsAre, MaxOfUnion
  <2>4. Max({x[j], n}) \in {x[j], n}
    BY <1>1, <2>1, MaxOfTwo
  <2>. QED
    BY <1>1, <2>1, <2>3, <2>4, RunsAre
<1>5. ASSUME NEW i \in Regs \ {j}
      PROVE  IsMax(x[i], Runs(V \cup {v}, i))
  <2>1. 0 \in Runs(V, i)
    BY DEF Runs
  <2>2. Runs(V \cup {v}, i) = Runs(V, i)
    <3>1. Runs(V \cup {v}, i) = Runs(V, i) \cup Runs({v}, i)
      BY <1>1, RunsAre
    <3>. QED
      BY <1>2, <2>1, <3>1
  <2>. QED
    BY <2>2 DEF IsRegs
<1>. HIDE DEF j, n
<1>. QED
  BY <1>1, <1>3, <1>4, <1>5 DEF IsRegs

\* Registers that are right are those of the one pass that RegsOf describes.
LEMMA RegsAre ==
    ASSUME Typed, NEW V \in SUBSET Vals[colType], NEW x, IsRegs(x, V)
    PROVE  x = [i \in Regs |-> Max(Runs(V, i))]
<1>1. ASSUME NEW i \in Regs
      PROVE  Max(Runs(V, i)) = x[i]
  BY RunsAre, MaxIs DEF IsRegs
<1>. QED
  BY <1>1 DEF IsRegs

-----------------------------------------------------------------------------
(* The inductive invariant. *)

RowsAt(d, R, k) == {r \in R : d[r].key = k}
ValsAt(d, R, k) == {d[r].val : r \in RowsAt(d, R, k)}

\* g is the accumulator of the rows of R with key k.
IsGroup(type, d, g, R, k) ==
    /\ IsAccum(type, g, ValsAt(d, R, k), Cardinality(RowsAt(d, R, k)))
    /\ IsSum(type, g.sum, d, RowsAt(d, R, k))

\* No row is read twice.
Unread == \A b \in Box : Of[b] \cap unread = {}

\* Every group has a sketch, which is its own.
Sketched == Distinct => \A b \in Box : \A k \in DOMAIN Has[b] : Has[b][k].hll \in 1 .. NSketches

Separate ==
    Distinct => \A b, c \in Box : \A k \in DOMAIN Has[b] : \A l \in DOMAIN Has[c] :
                   Has[b][k].hll = Has[c][l].hll => b = c /\ k = l

\* Every group is the one of its rows.
Totalled ==
    \A b \in Box :
        /\ DOMAIN Has[b] = {data[r].key : r \in Of[b]}
        /\ \A k \in DOMAIN Has[b] :
              /\ IsGroup(colType, data, Has[b][k], Of[b], k)
              /\ Distinct => IsRegs(heap[Has[b][k].hll], ValsAt(data, Of[b], k))

\* The rows of its states that the call c has not put into its aggregator yet.
Left(c) == {r \in taken[call[c].snap] : data[r].key \in call[c].todo \cup DOMAIN call[c].accums}

\* A call of MergeState: what is left of its states, and that its aggregator is as
\* it was while there are states to validate.
CalledAt(c) ==
    LET a == call[c].agg
        s == call[c].snap
    IN \/ call[c] = Idle
       \/ /\ a \in live /\ s \in Snaps
          /\ snap[s].status = "merging" /\ snap[s].bad \subseteq call[c].todo
          /\ call[c].todo \cup DOMAIN call[c].accums \subseteq DOMAIN snap[s].groups
          /\ call[c].todo \cap DOMAIN call[c].accums = {}
          /\ before[c].rows \cap taken[s] = {}
          /\ fed[a] = before[c].rows \cup (taken[s] \ Left(c))
          /\ call[c].todo # {} => before[c] = Contents(a)

\* One goroutine has an aggregator, and one call gets a state.
Alone ==
    \A c, d \in Calls :
        /\ call[c].agg # None /\ call[d].agg # None
        /\ call[c].agg = call[d].agg \/ call[c].snap = call[d].snap
        => c = d

Shaped == \A s \in Snaps : snap[s].bad \subseteq DOMAIN snap[s].groups

Calling == (\A c \in Calls : CalledAt(c)) /\ Alone /\ Shaped

IInv == Typed /\ Unread /\ Calling /\ Sketched /\ Separate /\ Totalled

-----------------------------------------------------------------------------
(* Rows and their values, by key. *)

\* The rows of one key are finitely many, with values of the column.
LEMMA RowsAre ==
    ASSUME Typed, NEW R \in SUBSET Rows, NEW k
    PROVE  /\ IsFiniteSet(RowsAt(data, R, k))
           /\ Cardinality(RowsAt(data, R, k)) \in Nat
           /\ ValsAt(data, R, k) \in SUBSET Vals[colType]
<1>1. RowsAt(data, R, k) \subseteq Rows
  BY DEF RowsAt
<1>2. IsFiniteSet(RowsAt(data, R, k))
  BY <1>1, AggregationAssumption, FS_Subset
<1>3. ValsAt(data, R, k) \in SUBSET Vals[colType]
  BY <1>1 DEF ValsAt, Typed
<1>. QED
  BY <1>2, <1>3, FS_CardinalityType

Joined(R, Q, k) ==
    /\ RowsAt(data, R \cup Q, k) = RowsAt(data, R, k) \cup RowsAt(data, Q, k)
    /\ RowsAt(data, R, k) \cap RowsAt(data, Q, k) = {}
    /\ ValsAt(data, R \cup Q, k) = ValsAt(data, R, k) \cup ValsAt(data, Q, k)
    /\ Cardinality(RowsAt(data, R \cup Q, k))
         = Cardinality(RowsAt(data, R, k)) + Cardinality(RowsAt(data, Q, k))

\* Disjoint sets of rows have disjoint rows of a key, which are counted apart.
LEMMA RowsOfUnion ==
    ASSUME Typed, NEW R \in SUBSET Rows, NEW Q \in SUBSET Rows, R \cap Q = {}, NEW k
    PROVE  Joined(R, Q, k)
<1>. DEFINE A == RowsAt(data, R, k)
            B == RowsAt(data, Q, k)
            C == RowsAt(data, R \cup Q, k)
<1>1. C = A \cup B /\ A \cap B = {}
  BY DEF RowsAt
<1>2. ValsAt(data, R \cup Q, k) = ValsAt(data, R, k) \cup ValsAt(data, Q, k)
  BY <1>1 DEF ValsAt
<1>3. IsFiniteSet(A) /\ IsFiniteSet(B)
  BY RowsAre
<1>. HIDE DEF A, B, C
<1>4. Cardinality(C) = Cardinality(A) + Cardinality(B)
  <2>1. /\ Cardinality(A \cup B) = Cardinality(A) + Cardinality(B) - Cardinality(A \cap B)
        /\ Cardinality(A) \in Nat /\ Cardinality(B) \in Nat
    BY <1>3, FS_Union, FS_CardinalityType
  <2>2. Cardinality(A \cap B) = 0
    BY <1>1, FS_EmptySet
  <2>. QED
    BY <1>1, <2>1, <2>2
<1>. QED
  BY <1>1, <1>2, <1>4 DEF Joined, A, B, C

\* A group is what its rows make of it, whichever set of rows they come from.
LEMMA SameRows ==
    ASSUME NEW g, NEW R, NEW Q, NEW k, RowsAt(data, R, k) = RowsAt(data, Q, k),
           IsGroup(colType, data, g, Q, k)
    PROVE  IsGroup(colType, data, g, R, k)
<1>1. ValsAt(data, R, k) = ValsAt(data, Q, k)
  BY DEF ValsAt
<1>. QED
  BY <1>1 DEF IsGroup

\* The row, the value and the count of a single row.
LEMMA OneRow ==
    ASSUME Typed, NEW r \in Rows
    PROVE  /\ data[r].key \in Keys /\ data[r].val \in Vals[colType]
           /\ RowsAt(data, {r}, data[r].key) = {r}
           /\ ValsAt(data, {r}, data[r].key) = {data[r].val}
           /\ Cardinality(RowsAt(data, {r}, data[r].key)) = 1
<1>1. RowsAt(data, {r}, data[r].key) = {r}
  BY DEF RowsAt
<1>2. ValsAt(data, {r}, data[r].key) = {data[r].val}
  BY <1>1 DEF ValsAt
<1>3. Cardinality({r}) = 1
  BY FS_Singleton
<1>. QED
  BY <1>1, <1>2, <1>3 DEF Typed

\* The sum of two accumulators is that of their rows together.
LEMMA JoinedSums ==
    ASSUME Typed, NEW R \in SUBSET Rows, NEW Q \in SUBSET Rows, R \cap Q = {},
           NEW x, NEW y, IsSum(colType, x, data, R), IsSum(colType, y, data, Q),
           NEW z, z = IF colType = "string" THEN 0 ELSE Plus(x, y)
    PROVE  IsSum(colType, z, data, R \cup Q)
<1>1. IsFiniteSet(R) /\ IsFiniteSet(Q)
  BY AggregationAssumption, FS_Subset
<1>2. CASE colType = "string"
  BY <1>2 DEF IsSum
<1>3. CASE colType # "string"
  <2>1. \A r \in R \cup Q : data[r].val \in Numbers
    BY <1>3, ValuesAre DEF Typed
  <2>. QED
    BY <1>1, <1>3, <2>1, SumOfUnion
<1>. QED
  BY <1>2, <1>3

\* The first row of a group ...
LEMMA NewGroupIs ==
    ASSUME Typed, NEW r \in Rows, NEW id \in (1 .. NSketches) \cup {None}
    PROVE  LET g == AddValue(NewAccum(id), data[r].val)
           IN  g \in Fields /\ g.hll = id /\ IsGroup(colType, data, g, {r}, data[r].key)
<1>. DEFINE k == data[r].key
            v == data[r].val
            g == AddValue(NewAccum(id), v)
<1>1. /\ v \in Vals[colType] /\ RowsAt(data, {r}, k) = {r}
      /\ ValsAt(data, {r}, k) = {v} /\ Cardinality(RowsAt(data, {r}, k)) = 1
  BY OneRow
<1>2. /\ g \in Fields /\ g.hll = id /\ IsAccum(colType, g, {v}, 1)
      /\ g.sum = IF colType = "string" THEN 0 ELSE v
  <2>. HIDE DEF v
  <2>. QED
    BY <1>1, NewAccumIs
<1>3. IsSum(colType, IF colType = "string" THEN 0 ELSE v, data, {r})
  <2>1. CASE colType = "string"
    BY <2>1 DEF IsSum
  <2>2. CASE colType # "string"
    <3>1. v \in Numbers
      BY <1>1, <2>2, ValuesAre
    <3>. QED
      BY <2>2, <3>1, SumOfOne
  <2>. QED
    BY <2>1, <2>2
<1>. HIDE DEF g, v, k
<1>4. IsGroup(colType, data, g, {r}, k)
  BY <1>1, <1>2, <1>3 DEF IsGroup
<1>. QED
  BY <1>2, <1>4 DEF g, v, k

\* ... and one more.
LEMMA GroupGrows ==
    ASSUME Typed, NEW r \in Rows, NEW R \in SUBSET Rows, r \notin R,
           NEW g \in Fields, IsGroup(colType, data, g, R, data[r].key)
    PROVE  LET h == AddValue(g, data[r].val)
           IN  h \in Fields /\ h.hll = g.hll /\ IsGroup(colType, data, h, R \cup {r}, data[r].key)
<1>. DEFINE k == data[r].key
            v == data[r].val
            V == ValsAt(data, R, k)
            n == Cardinality(RowsAt(data, R, k))
            h == AddValue(g, v)
<1>1. /\ v \in Vals[colType] /\ RowsAt(data, {r}, k) = {r}
      /\ ValsAt(data, {r}, k) = {v} /\ Cardinality(RowsAt(data, {r}, k)) = 1
  BY OneRow
<1>2. V \in SUBSET Vals[colType] /\ n \in Nat
  BY RowsAre
<1>3. IsAccum(colType, g, V, n) /\ IsSum(colType, g.sum, data, RowsAt(data, R, k))
  BY DEF IsGroup
<1>. HIDE DEF k, v, V, n
<1>4. /\ h \in Fields /\ h.hll = g.hll /\ IsAccum(colType, h, V \cup {v}, n + 1)
      /\ h.sum = IF colType = "string" THEN g.sum ELSE Plus(g.sum, v)
  BY <1>1, <1>2, <1>3, AddValueIs
<1>5. /\ RowsAt(data, R \cup {r}, k) = RowsAt(data, R, k) \cup {r}
      /\ RowsAt(data, R, k) \cap {r} = {}
      /\ ValsAt(data, R \cup {r}, k) = V \cup {v}
      /\ Cardinality(RowsAt(data, R \cup {r}, k)) = n + 1
  <2>1. {r} \in SUBSET Rows /\ R \cap {r} = {}
    OBVIOUS
  <2>2. Joined(R, {r}, k)
    BY <2>1, RowsOfUnion
  <2>. QED
    BY <1>1, <2>2 DEF Joined, V, n
<1>. HIDE DEF h
<1>6. IsSum(colType, h.sum, data, RowsAt(data, R, k) \cup {r})
  <2>1. CASE colType = "string"
    BY <1>3, <1>4, <2>1 DEF IsSum
  <2>2. CASE colType # "string"
    <3>1. v \in Numbers
      BY <1>1, <2>2, ValuesAre
    <3>2. IsSum(colType, v, data, {r})
      BY <2>2, <3>1, SumOfOne DEF v
    <3>3. RowsAt(data, R, k) \in SUBSET Rows /\ {r} \in SUBSET Rows
      BY DEF RowsAt
    <3>. QED
      BY <1>3, <1>4, <1>5, <2>2, <3>2, <3>3, JoinedSums
  <2>. QED
    BY <2>1, <2>2
<1>7. IsGroup(colType, data, h, R \cup {r}, k)
  BY <1>4, <1>5, <1>6 DEF IsGroup
<1>. QED
  BY <1>4, <1>7 DEF h, k, v

-----------------------------------------------------------------------------
(* One step changes the groups of one box, t: some of them, S, are new or    *)
(* combined and get a sketch of their own, the others it had, or takes over  *)
(* from a box that gives them up.                                            *)

\* What a box has and holds after a step.
LEMMA NextHas ==
    /\ \A a \in Aggs : Has'[a] = groups'[a] /\ Of'[a] = fed'[a]
    /\ \A s \in Snaps : Has'[s] = snap'[s].groups /\ Of'[s] = taken'[s]
    /\ \A c \in Calls : /\ Has'[c] = call'[c].accums
                        /\ Of'[c] = {r \in Rows : /\ r \in taken'[call'[c].snap]
                                                  /\ data'[r].key \in DOMAIN call'[c].accums}
BY AggregationAssumption DEF Has, Of, Built

\* The box b has some of its groups left, or all, and their rows.
Kept(b) ==
    /\ DOMAIN Has'[b] = {data[r].key : r \in Of'[b]}
    /\ \A k \in DOMAIN Has'[b] : /\ k \in DOMAIN Has[b] /\ Has'[b][k] = Has[b][k]
                                 /\ RowsAt(data, Of'[b], k) = RowsAt(data, Of[b], k)

\* A box nothing happens to.
LEMMA SameIsKept ==
    ASSUME IInv, NEW b \in Box, Has'[b] = Has[b], Of'[b] = Of[b]
    PROVE  Kept(b)
BY DEF IInv, Totalled, Kept

\* The registers of the groups of b are what they were.
Still(b) == Distinct => \A k \in DOMAIN Has'[b] : heap'[Has'[b][k].hll] = heap[Has[b][k].hll]

\* Such a step preserves the parts of the invariant about groups and sketches.
LEMMA OneBoxChanges ==
    ASSUME IInv, UNCHANGED <<colType, data>>,
           Box' \subseteq Box, NEW t \in Box',
           \A b \in Box' \ {t} : Kept(b),
           NEW S \in SUBSET DOMAIN Has'[t], S \subseteq Keys,
           NEW new, Distinct => new \in [S -> [Regs -> Nat]],
           heap' = Filled(Fresh(S), new),
           DOMAIN Has'[t] = {data[r].key : r \in Of'[t]},
           \A k \in S :
              /\ Has'[t][k].hll = Fresh(S)[k]
              /\ IsGroup(colType, data, Has'[t][k], Of'[t], k)
              /\ Distinct => IsRegs(new[k], ValsAt(data, Of'[t], k)),
           \A k \in DOMAIN Has'[t] \ S : \E c \in Box :
              /\ k \in DOMAIN Has[c] /\ Has'[t][k] = Has[c][k]
              /\ RowsAt(data, Of'[t], k) = RowsAt(data, Of[c], k)
              /\ c \in Box' \ {t} => k \notin DOMAIN Has'[c]
    PROVE  /\ Sketched' /\ Separate' /\ Totalled'
           /\ \A b \in Box' \ {t} : Still(b)
<1>. DEFINE f == Fresh(S)
<1>1. ASSUME Distinct
      PROVE  /\ f \in [S -> 1 .. NSketches \ InUse]
             /\ \A k, l \in S : f[k] = f[l] => k = l
             /\ \A k \in S : heap'[f[k]] = new[k]
             /\ \A i \in InUse \cap (1 .. NSketches) : heap'[i] = heap[i]
  <2>1. Typed /\ S \in SUBSET Keys /\ new \in [S -> [Regs -> Nat]]
    BY <1>1 DEF IInv
  <2>. QED
    BY <1>1, <2>1, FilledFresh
<1>. HIDE DEF f
\* A group that is not new is one that was there.
<1>2. ASSUME NEW b \in Box', NEW k \in DOMAIN Has'[b], b # t \/ k \notin S
      PROVE  \E c \in Box : /\ k \in DOMAIN Has[c] /\ Has'[b][k] = Has[c][k]
                            /\ RowsAt(data, Of'[b], k) = RowsAt(data, Of[c], k)
                            /\ b # t => c = b
                            /\ b = t /\ c \in Box' \ {t} => k \notin DOMAIN Has'[c]
  <2>1. CASE b # t
    BY <1>2, <2>1 DEF Kept
  <2>2. CASE b = t
    BY <1>2, <2>2
  <2>. QED
    BY <2>1, <2>2
<1>3. ASSUME Distinct, NEW b \in Box', NEW k \in DOMAIN Has'[b], b # t \/ k \notin S
      PROVE  /\ Has'[b][k].hll \in InUse \cap (1 .. NSketches)
             /\ heap'[Has'[b][k].hll] = heap[Has'[b][k].hll]
  <2>1. PICK c \in Box : k \in DOMAIN Has[c] /\ Has'[b][k] = Has[c][k]
    BY <1>2, <1>3
  <2>2. Has'[b][k].hll \in InUse \cap (1 .. NSketches)
    BY <1>3, <2>1, InUseIs DEF IInv, Sketched
  <2>. QED
    BY <1>1, <1>3, <2>2
<1>4. ASSUME Distinct, NEW k \in S
      PROVE  /\ Has'[t][k].hll = f[k] /\ f[k] \in 1 .. NSketches /\ f[k] \notin InUse
             /\ heap'[Has'[t][k].hll] = new[k]
  <2>1. Has'[t][k].hll = f[k]
    BY DEF f
  <2>. QED
    BY <1>1, <1>4, <2>1
<1>5. Sketched'
  BY <1>3, <1>4 DEF Sketched
<1>6. Separate'
  <2>. SUFFICES ASSUME Distinct, NEW b \in Box', NEW c \in Box',
                       NEW k \in DOMAIN Has'[b], NEW l \in DOMAIN Has'[c],
                       Has'[b][k].hll = Has'[c][l].hll
                PROVE  b = c /\ k = l
    BY DEF Separate
  <2>1. CASE (b # t \/ k \notin S) /\ (c # t \/ l \notin S)
    <3>1. PICK d \in Box : /\ k \in DOMAIN Has[d] /\ Has'[b][k] = Has[d][k]
                           /\ b # t => d = b
                           /\ b = t /\ d \in Box' \ {t} => k \notin DOMAIN Has'[d]
      BY <1>2, <2>1
    <3>2. PICK e \in Box : /\ l \in DOMAIN Has[e] /\ Has'[c][l] = Has[e][l]
                           /\ c # t => e = c
                           /\ c = t /\ e \in Box' \ {t} => l \notin DOMAIN Has'[e]
      BY <1>2, <2>1
    <3>3. d = e /\ k = l
      BY <3>1, <3>2 DEF IInv, Separate
    <3>. QED
      BY <3>1, <3>2, <3>3
  <2>2. CASE b = t /\ k \in S /\ (c # t \/ l \notin S)
    BY <1>3, <1>4, <2>2
  <2>3. CASE c = t /\ l \in S /\ (b # t \/ k \notin S)
    BY <1>3, <1>4, <2>3
  <2>4. CASE b = t /\ k \in S /\ c = t /\ l \in S
    BY <1>1, <1>4, <2>4
  <2>. QED
    BY <2>1, <2>2, <2>3, <2>4
<1>7. Totalled'
  <2>1. ASSUME NEW b \in Box'
        PROVE  DOMAIN Has'[b] = {data[r].key : r \in Of'[b]}
    <3>1. CASE b = t
      BY <3>1
    <3>2. CASE b # t
      BY <2>1, <3>2 DEF Kept
    <3>. QED
      BY <3>1, <3>2
  <2>2. ASSUME NEW b \in Box', NEW k \in DOMAIN Has'[b]
        PROVE  /\ IsGroup(colType, data, Has'[b][k], Of'[b], k)
               /\ Distinct => IsRegs(heap'[Has'[b][k].hll], ValsAt(data, Of'[b], k))
    <3>1. CASE b = t /\ k \in S
      BY <1>4, <3>1
    <3>2. CASE b # t \/ k \notin S
      <4>1. PICK c \in Box : /\ k \in DOMAIN Has[c] /\ Has'[b][k] = Has[c][k]
                             /\ RowsAt(data, Of'[b], k) = RowsAt(data, Of[c], k)
        BY <1>2, <2>2, <3>2
      <4>2. ValsAt(data, Of'[b], k) = ValsAt(data, Of[c], k)
        BY <4>1 DEF ValsAt
      <4>3. Distinct => heap'[Has'[b][k].hll] = heap[Has[c][k].hll]
        BY <1>3, <2>2, <3>2, <4>1
      <4>4. /\ IsGroup(colType, data, Has[c][k], Of[c], k)
            /\ Distinct => IsRegs(heap[Has[c][k].hll], ValsAt(data, Of[c], k))
        BY <4>1 DEF IInv, Totalled
      <4>5. IsGroup(colType, data, Has[c][k], Of'[b], k)
        BY <4>1, <4>4, SameRows
      <4>. QED
        BY <4>1, <4>2, <4>3, <4>4, <4>5
    <3>. QED
      BY <3>1, <3>2
  <2>. QED
    BY <2>1, <2>2 DEF Totalled
<1>8. ASSUME NEW b \in Box' \ {t}
      PROVE  Still(b)
  <2>1. ASSUME Distinct, NEW k \in DOMAIN Has'[b]
        PROVE  heap'[Has'[b][k].hll] = heap[Has[b][k].hll]
    BY <1>3, <2>1 DEF Kept
  <2>. QED
    BY <2>1 DEF Still
<1>. QED
  BY <1>5, <1>6, <1>7, <1>8

\* What the invariant says of a box and of a group in it.
LEMMA Boxes ==
    ASSUME IInv, NEW b \in Box
    PROVE  /\ Has[b] \in GroupMaps /\ Of[b] \in SUBSET Rows
           /\ Has[b] = [k \in DOMAIN Has[b] |-> Has[b][k]]
           /\ DOMAIN Has[b] \subseteq Keys
           /\ DOMAIN Has[b] = {data[r].key : r \in Of[b]}
           /\ \A k \in DOMAIN Has[b] :
                 /\ Has[b][k] \in Fields
                 /\ IsGroup(colType, data, Has[b][k], Of[b], k)
                 /\ Distinct => IsRegs(RegsIn(Has[b], k), ValsAt(data, Of[b], k))
<1>1. Has[b] \in GroupMaps /\ Of[b] \in SUBSET Rows
  BY TypedHas DEF IInv
<1>2. \A k \in DOMAIN Has[b] : Distinct => RegsIn(Has[b], k) = heap[Has[b][k].hll]
  BY DEF RegsIn
<1>. QED
  BY <1>1, <1>2, GroupMapIs DEF IInv, Totalled

\* An id to put into an accumulator.
LEMMA FreshIds ==
    ASSUME Typed, NEW S \in SUBSET Keys, NEW k \in S
    PROVE  Fresh(S)[k] \in (1 .. NSketches) \cup {None}
BY FreshIs

\* An allocation keeps the heap one of registers.
LEMMA HeapTyped ==
    ASSUME Typed, NEW S \in SUBSET Keys, NEW new, Distinct => new \in [S -> [Regs -> Nat]]
    PROVE  Filled(Fresh(S), new) \in [1 .. NSketches -> [Regs -> Nat]]
<1>1. CASE Distinct
  BY <1>1, FilledFresh
<1>2. CASE ~Distinct
  BY <1>2 DEF Filled, Typed
<1>. QED
  BY <1>1, <1>2

\* The types depend on the column only.
LEMMA SameTypes ==
    ASSUME colType' = colType
    PROVE  /\ Fields' = Fields /\ GroupMaps' = GroupMaps
           /\ SnapType' = SnapType /\ CallType' = CallType
BY DEF SnapType, CallType, GroupMaps, Fields, Numbers

\* An allocation of nothing.
LEMMA NoneFilled ==
    ASSUME Typed, NEW new
    PROVE  Filled(Fresh({}), new) = heap
<1>1. CASE Distinct
  <2>1. DOMAIN Fresh({}) = {}
    BY FreshIs
  <2>2. Range(Fresh({})) = {}
    BY <2>1 DEF Range
  <2>3. Filled(Fresh({}), new) = [i \in 1 .. NSketches |-> heap[i]]
    BY <1>1, <2>2 DEF Filled
  <2>. QED
    BY <2>3 DEF Typed
<1>2. CASE ~Distinct
  BY <1>2 DEF Filled
<1>. QED
  BY <1>1, <1>2

-----------------------------------------------------------------------------
(* The calls of MergeState that a step is no step of. *)

\* Nothing happens to the call c, its aggregator and its states.
Stays(c) ==
    LET a == call[c].agg
        s == call[c].snap
    IN /\ call'[c] = call[c] /\ before'[c] = before[c]
       /\ a # None => /\ a \in live' /\ groups'[a] = groups[a] /\ fed'[a] = fed[a]
                      /\ snap'[s] = snap[s] /\ taken'[s] = taken[s]

\* A call that is not idle has an aggregator, which is used by no one, and a state that
\* has been sent.
LEMMA CallIs ==
    ASSUME IInv, NEW c \in Calls
    PROVE  /\ call[c].agg = None => call[c] = Idle /\ DOMAIN call[c].accums = {}
           /\ call[c].agg # None => /\ call[c].agg \in live /\ call[c].snap \in Snaps
                                    /\ snap[call[c].snap].status = "merging"
                                    /\ Busy(call[c].agg)
<1>1. CalledAt(c) /\ live \subseteq Aggs
  BY DEF IInv, Calling, Typed
<1>2. Idle.agg = None /\ Idle.accums = NoGroups /\ DOMAIN NoGroups = {}
  BY DEF Idle, NoGroups
<1>3. CASE call[c] = Idle
  BY <1>2, <1>3
<1>4. CASE call[c] # Idle
  <2>1. call[c].agg \in live /\ call[c].snap \in Snaps /\ snap[call[c].snap].status = "merging"
    BY <1>1, <1>4 DEF CalledAt
  <2>. QED
    BY <1>1, <2>1, AggregationAssumption DEF Busy
<1>. QED
  BY <1>3, <1>4

\* So its accumulators are those it had ...
LEMMA StaysSame ==
    ASSUME IInv, UNCHANGED data, NEW c \in Calls, Stays(c)
    PROVE  Has'[c] = Has[c] /\ Of'[c] = Of[c]
<1>1. /\ Has'[c] = call[c].accums
      /\ Of'[c] = {r \in Rows : r \in taken'[call[c].snap] /\ data[r].key \in DOMAIN call[c].accums}
  BY NextHas DEF Stays
<1>2. Has[c] = call[c].accums /\ Of[c] = Built(c)
  BY TypedHas DEF IInv
<1>3. CASE call[c].agg = None
  <2>1. DOMAIN call[c].accums = {}
    BY <1>3, CallIs
  <2>. QED
    BY <1>1, <1>2, <2>1 DEF Built
<1>4. CASE call[c].agg # None
  BY <1>1, <1>2, <1>4 DEF Stays, Built
<1>. QED
  BY <1>3, <1>4

\* ... and it goes on as before.
LEMMA StaysCalled ==
    ASSUME IInv, UNCHANGED data, NEW c \in Calls, Stays(c),
           call[c].agg # None => Still(call[c].agg)
    PROVE  CalledAt(c)'
<1>1. CalledAt(c) /\ call'[c] = call[c]
  BY DEF IInv, Calling, Stays
<1>2. CASE call[c] = Idle
  BY <1>1, <1>2 DEF CalledAt, Idle, NoGroups
<1>3. CASE call[c] # Idle
  <2>1. PICK a, s : a = call[c].agg /\ s = call[c].snap
    OBVIOUS
  <2>2. a # None /\ a \in live /\ a \in Aggs /\ s \in Snaps
    <3>1. a \in live /\ s \in Snaps /\ live \subseteq Aggs
      BY <1>1, <1>3, <2>1 DEF CalledAt, IInv, Typed
    <3>. QED
      BY <3>1, AggregationAssumption
  <2>3. /\ a \in live' /\ groups'[a] = groups[a] /\ fed'[a] = fed[a]
        /\ snap'[s] = snap[s] /\ taken'[s] = taken[s] /\ before'[c] = before[c]
        /\ call'[c].agg = a /\ call'[c].snap = s
    BY <1>1, <2>1, <2>2 DEF Stays
  <2>4. \A k \in DOMAIN groups[a] : Distinct => heap'[groups[a][k].hll] = heap[groups[a][k].hll]
    <3>1. Has[a] = groups[a] /\ Has'[a] = groups'[a]
      BY <2>2, TypedHas, NextHas DEF IInv
    <3>. QED
      BY <2>1, <2>2, <2>3, <3>1 DEF Still
  <2>5. Contents(call[c].agg)' = Contents(call[c].agg)
    BY <2>1, <2>3, <2>4 DEF Contents, RegsIn, Empty
  <2>6. Left(c)' = Left(c)
    BY <1>1, <2>1, <2>3 DEF Left
  <2>. QED
    BY <1>1, <1>3, <2>1, <2>3, <2>5, <2>6 DEF CalledAt
<1>. QED
  BY <1>2, <1>3

\* A step of no call: it leaves alone what a call has, because the goroutine that
\* owns an aggregator is in the call.
LEMMA NoCallStays ==
    ASSUME IInv, UNCHANGED <<call, before>>,
           NEW A \in SUBSET Aggs, \A a \in A : ~Busy(a),
           \A b \in live \ A : b \in live' /\ groups'[b] = groups[b] /\ fed'[b] = fed[b],
           \A s \in Snaps : snap[s].status = "merging" => snap'[s] = snap[s] /\ taken'[s] = taken[s]
    PROVE  \A c \in Calls : Stays(c)
<1>. SUFFICES ASSUME NEW c \in Calls
              PROVE  Stays(c)
  OBVIOUS
<1>1. call[c].agg # None => /\ call[c].agg \in live \ A /\ call[c].snap \in Snaps
                            /\ snap[call[c].snap].status = "merging"
  BY CallIs
<1>. QED
  BY <1>1 DEF Stays

LEMMA NoCallChanges ==
    ASSUME IInv, UNCHANGED <<data, call>>, Shaped', \A c \in Calls : Stays(c),
           NEW A \in SUBSET Aggs, \A a \in A : ~Busy(a), \A b \in live \ A : Still(b)
    PROVE  Calling'
<1>1. ASSUME NEW c \in Calls
      PROVE  CalledAt(c)'
  <2>1. call[c].agg # None => Still(call[c].agg)
    BY CallIs
  <2>. QED
    BY <2>1, StaysCalled
<1>2. Alone'
  BY DEF IInv, Calling, Alone
<1>. QED
  BY <1>1, <1>2 DEF Calling

\* A step of one call.
LEMMA OtherCallsStay ==
    ASSUME IInv, NEW c \in Calls, call[c].agg # None, UNCHANGED <<live, taken>>,
           \A d \in Calls \ {c} : call'[d] = call[d] /\ before'[d] = before[d],
           \A b \in live \ {call[c].agg} : groups'[b] = groups[b] /\ fed'[b] = fed[b],
           \A s \in Snaps \ {call[c].snap} : snap'[s] = snap[s]
    PROVE  \A d \in Calls \ {c} :
              Stays(d) /\ (call[d].agg # None => call[d].agg \in live \ {call[c].agg})
<1>. SUFFICES ASSUME NEW d \in Calls \ {c}
              PROVE  Stays(d) /\ (call[d].agg # None => call[d].agg \in live \ {call[c].agg})
  OBVIOUS
<1>1. ASSUME call[d].agg # None
      PROVE  call[d].agg \in live \ {call[c].agg} /\ call[d].snap \in Snaps \ {call[c].snap}
  <2>1. call[d].agg \in live /\ call[d].snap \in Snaps
    BY <1>1, CallIs
  <2>2. call[d].agg # call[c].agg /\ call[d].snap # call[c].snap
    BY <1>1 DEF IInv, Calling, Alone
  <2>. QED
    BY <2>1, <2>2
<1>. QED
  BY <1>1 DEF Stays

LEMMA OneCallChanges ==
    ASSUME IInv, UNCHANGED data, Shaped', Alone', NEW c \in Calls, CalledAt(c)',
           \A d \in Calls \ {c} : Stays(d) /\ (call[d].agg # None => Still(call[d].agg))
    PROVE  Calling'
<1>1. \A d \in Calls \ {c} : CalledAt(d)'
  BY StaysCalled
<1>. QED
  BY <1>1 DEF Calling

\* A step that no box notices.
LEMMA NoBoxChanges ==
    ASSUME IInv, UNCHANGED <<colType, data, unread, heap>>, Box' = Box,
           \A b \in Box : Has'[b] = Has[b] /\ Of'[b] = Of[b]
    PROVE  /\ Unread' /\ Sketched' /\ Separate' /\ Totalled'
           /\ \A b \in Box : Still(b)
<1>1. Unread'
  BY DEF IInv, Unread
<1>2. Sketched'
  BY DEF IInv, Sketched
<1>3. Separate'
  BY DEF IInv, Separate
<1>4. Totalled'
  BY DEF IInv, Totalled
<1>5. \A b \in Box : Still(b)
  BY DEF Still
<1>. QED
  BY <1>1, <1>2, <1>3, <1>4, <1>5

-----------------------------------------------------------------------------
(* One lemma per action. *)

\* No row has been read and no group exists.
LEMMA InitIs == Init => IInv
<1>. SUFFICES ASSUME Init PROVE IInv
  OBVIOUS
<1>1. NoGroups \in GroupMaps /\ DOMAIN NoGroups = {}
  BY GroupMapIs DEF NoGroups
<1>2. Typed
  <2>1. groups \in [Aggs -> GroupMaps]
    BY <1>1 DEF Init
  <2>2. snap \in [Snaps -> SnapType] /\ call \in [Calls -> CallType]
    BY <1>1 DEF Init, SnapType, CallType, Idle
  <2>3. heap \in [1 .. NSketches -> [Regs -> Nat]]
    BY DEF Init, Empty
  <2>. QED
    BY <2>1, <2>2, <2>3 DEF Init, Typed
<1>3. \A b \in Box : Has[b] = NoGroups /\ Of[b] = {}
  <2>1. \A c \in Calls : call[c].accums = NoGroups /\ Built(c) = {}
    BY <1>1 DEF Init, Idle, Built
  <2>. QED
    BY <2>1, AggregationAssumption DEF Init, Box, Has, Of
<1>4. Unread
  BY <1>3 DEF Unread
<1>5. Sketched /\ Separate /\ Totalled
  BY <1>1, <1>3 DEF Sketched, Separate, Totalled
<1>6. Calling
  <2>1. (\A c \in Calls : call[c] = Idle) /\ \A s \in Snaps : snap[s].bad = {}
    BY DEF Init
  <2>. QED
    BY <2>1 DEF Calling, CalledAt, Alone, Shaped, Idle
<1>. QED
  BY <1>2, <1>4, <1>5, <1>6 DEF IInv

\* A further row of a group: its sketch is written to, and no other.
LEMMA AddToGroupIs ==
    ASSUME IInv, NEW a \in Aggs, NEW r \in Rows, AddToGroup(a, r)
    PROVE  IInv'
<1>. DEFINE k == data[r].key
            v == data[r].val
            g == groups[a][k]
            h == AddValue(g, v)
<1>1. /\ a \in live /\ a \in Box /\ ~Busy(a) /\ r \in unread /\ k \in DOMAIN groups[a]
      /\ unread' = unread \ {r} /\ fed' = [fed EXCEPT ![a] = @ \cup {r}]
      /\ groups' = [groups EXCEPT ![a][k] = AddValue(@, v)]
      /\ UNCHANGED <<colType, data, live, snap, call, taken, before>>
      /\ Typed
  BY DEF AddToGroup, Feed, Box, IInv
<1>2. /\ heap' = IF Distinct THEN [heap EXCEPT ![g.hll] = HllAdd(@, v)] ELSE heap
  BY DEF AddToGroup
<1>3. Has[a] = groups[a] /\ Of[a] = fed[a] /\ Box' = Box
  BY <1>1, TypedHas DEF Box
<1>4. k \in Keys /\ v \in Vals[colType]
  BY <1>1, OneRow
<1>5. /\ h \in Fields /\ h.hll = g.hll
      /\ IsGroup(colType, data, h, fed[a] \cup {r}, k)
  <2>1. g \in Fields /\ IsGroup(colType, data, g, fed[a], k)
    BY <1>1, <1>3, Boxes
  <2>2. fed[a] \in SUBSET Rows /\ r \notin fed[a]
    BY <1>1, <1>3 DEF Typed, IInv, Unread
  <2>. HIDE DEF g
  <2>. QED
    BY <1>1, <2>1, <2>2, GroupGrows
<1>6. /\ ValsAt(data, fed[a] \cup {r}, k) = ValsAt(data, fed[a], k) \cup {v}
      /\ \A j : j # k => RowsAt(data, fed[a] \cup {r}, j) = RowsAt(data, fed[a], j)
  <2>1. fed[a] \in SUBSET Rows /\ {r} \in SUBSET Rows /\ fed[a] \cap {r} = {}
    BY <1>1, <1>3 DEF Typed, IInv, Unread
  <2>2. \A j : j # k => \A q \in {r} : data[q].key # j
    OBVIOUS
  <2>. HIDE DEF k
  <2>3. ASSUME NEW j, j # k
        PROVE  RowsAt(data, fed[a] \cup {r}, j) = RowsAt(data, fed[a], j)
    <3>1. \A q \in {r} : data[q].key # j
      BY <2>2, <2>3
    <3>. QED
      BY <3>1 DEF RowsAt
  <2>4. ValsAt(data, fed[a] \cup {r}, k) = ValsAt(data, fed[a], k) \cup ValsAt(data, {r}, k)
    <3>1. Joined(fed[a], {r}, k)
      BY <1>1, <2>1, RowsOfUnion
    <3>. QED
      BY <3>1 DEF Joined
  <2>5. ValsAt(data, {r}, k) = {v}
    BY <1>1, OneRow DEF k
  <2>. QED
    BY <2>3, <2>4, <2>5
<1>. HIDE DEF h
\* What has changed.
<1>7. /\ groups' \in [Aggs -> GroupMaps]
      /\ DOMAIN groups'[a] = DOMAIN groups[a]
      /\ groups'[a][k] = h
      /\ \A j \in DOMAIN groups[a] \ {k} : groups'[a][j] = groups[a][j]
      /\ \A b \in Aggs \ {a} : groups'[b] = groups[b]
  <2>. DEFINE new == [groups[a] EXCEPT ![k] = h]
  <2>1. groups' = [groups EXCEPT ![a] = new]
    BY <1>1 DEF h
  <2>2. groups[a] \in GroupMaps
    BY <1>1, <1>3, Boxes
  <2>. HIDE DEF k
  <2>3. new \in GroupMaps
    BY <1>1, <1>5, <2>2, GroupMapIs
  <2>4. /\ DOMAIN new = DOMAIN groups[a] /\ new[k] = h
        /\ \A j \in DOMAIN groups[a] \ {k} : new[j] = groups[a][j]
    BY <1>1, <2>2, GroupMapIs
  <2>. HIDE DEF new
  <2>. QED
    BY <1>1, <2>1, <2>3, <2>4 DEF Typed
<1>c. \A c \in Calls : Stays(c)
  <2>1. \A b \in live \ {a} : b \in live' /\ groups'[b] = groups[b] /\ fed'[b] = fed[b]
    BY <1>1, <1>7 DEF Typed
  <2>2. {a} \in SUBSET Aggs /\ \A b \in {a} : ~Busy(b)
    BY <1>1
  <2>. QED
    BY <1>1, <2>1, <2>2, NoCallStays
<1>8. /\ Has'[a] = groups'[a] /\ Of'[a] = fed[a] \cup {r}
      /\ \A b \in Box \ {a} : Has'[b] = Has[b] /\ Of'[b] = Of[b]
  <2>1. \A b \in live \ {a} : Has'[b] = Has[b] /\ Of'[b] = Of[b]
    BY <1>1, <1>7, NextHas, TypedHas DEF Typed
  <2>2. \A s \in Snaps : Has'[s] = Has[s] /\ Of'[s] = Of[s]
    BY <1>1, NextHas, TypedHas
  <2>3. Has'[a] = groups'[a] /\ Of'[a] = fed[a] \cup {r}
    BY <1>1, NextHas DEF Typed
  <2>4. \A c \in Calls : Has'[c] = Has[c] /\ Of'[c] = Of[c]
    BY <1>1, <1>c, StaysSame
  <2>. QED
    BY <2>1, <2>2, <2>3, <2>4 DEF Box
<1>9. ASSUME NEW b \in Box, NEW j \in DOMAIN Has[b]
      PROVE  /\ Has'[b][j].hll = Has[b][j].hll
             /\ b # a \/ j # k => /\ Has'[b][j] = Has[b][j]
                                  /\ RowsAt(data, Of'[b], j) = RowsAt(data, Of[b], j)
             /\ b = a /\ j = k => Has'[b][j] = h
  BY <1>3, <1>5, <1>6, <1>7, <1>8, <1>9
<1>10. \A b \in Box : DOMAIN Has'[b] = DOMAIN Has[b]
  BY <1>3, <1>7, <1>8
<1>11. ASSUME Distinct
       PROVE  /\ g.hll \in 1 .. NSketches
              /\ IsRegs(HllAdd(heap[g.hll], v), ValsAt(data, fed[a] \cup {r}, k))
              /\ heap' \in [1 .. NSketches -> [Regs -> Nat]]
              /\ heap'[g.hll] = HllAdd(heap[g.hll], v)
              /\ \A i \in (1 .. NSketches) \ {g.hll} : heap'[i] = heap[i]
  <2>1. g.hll \in 1 .. NSketches
    BY <1>1, <1>3, <1>11 DEF IInv, Sketched
  <2>2. IsRegs(heap[g.hll], ValsAt(data, fed[a], k))
    BY <1>1, <1>3, <1>11, Boxes DEF RegsIn
  <2>3. ValsAt(data, fed[a], k) \in SUBSET Vals[colType]
    BY <1>1, RowsAre DEF Typed
  <2>. HIDE DEF g, v, k
  <2>4. IsRegs(HllAdd(heap[g.hll], v), ValsAt(data, fed[a] \cup {r}, k))
    BY <1>1, <1>4, <1>6, <2>2, <2>3, HllAddIs
  <2>5. HllAdd(heap[g.hll], v) \in [Regs -> Nat]
    BY <2>4 DEF IsRegs
  <2>. QED
    BY <1>1, <1>2, <1>11, <2>1, <2>4, <2>5 DEF Typed
<1>. HIDE DEF g, v, k
\* The invariant, part by part.
<1>12. Typed'
  <2>1. heap' \in [1 .. NSketches -> [Regs -> Nat]]
    BY <1>1, <1>2, <1>11 DEF Typed
  <2>2. fed' \in [Aggs -> SUBSET Rows]
    BY <1>1 DEF Typed
  <2>. QED
    BY <1>1, <1>7, <2>1, <2>2, SameTypes DEF Typed
<1>13. Unread'
  BY <1>1, <1>3, <1>8 DEF IInv, Unread, Box
<1>14. Sketched'
  BY <1>3, <1>9, <1>10 DEF IInv, Sketched
<1>15. Separate'
  <2>. SUFFICES ASSUME Distinct, NEW b \in Box, NEW c \in Box,
                       NEW j \in DOMAIN Has[b], NEW l \in DOMAIN Has[c],
                       Has'[b][j].hll = Has'[c][l].hll
                PROVE  b = c /\ j = l
    BY <1>3, <1>10 DEF Separate
  <2>1. Has[b][j].hll = Has[c][l].hll
    BY <1>9
  <2>. QED
    BY <2>1 DEF IInv, Separate
<1>16. Totalled'
  <2>1. ASSUME NEW b \in Box
        PROVE  DOMAIN Has'[b] = {data[q].key : q \in Of'[b]}
    <3>1. DOMAIN Has[b] = {data[q].key : q \in Of[b]}
      BY <2>1, Boxes
    <3>2. CASE b = a
      <4>1. {data[q].key : q \in fed[a] \cup {r}} = {data[q].key : q \in fed[a]} \cup {k}
        BY DEF k
      <4>. QED
        BY <1>1, <1>3, <1>8, <1>10, <3>1, <3>2, <4>1
    <3>3. CASE b # a
      BY <1>8, <2>1, <3>1, <3>3
    <3>. QED
      BY <3>2, <3>3
  <2>2. ASSUME NEW b \in Box, NEW j \in DOMAIN Has[b]
        PROVE  /\ IsGroup(colType, data, Has'[b][j], Of'[b], j)
               /\ Distinct => IsRegs(heap'[Has'[b][j].hll], ValsAt(data, Of'[b], j))
    <3>1. CASE b = a /\ j = k
      <4>1. Has'[b][j] = h /\ h.hll = g.hll /\ Of'[b] = fed[a] \cup {r}
        BY <1>5, <1>8, <1>9, <2>2, <3>1
      <4>2. IsGroup(colType, data, h, fed[a] \cup {r}, k)
        BY <1>5
      <4>3. Distinct => IsRegs(heap'[h.hll], ValsAt(data, fed[a] \cup {r}, k))
        BY <1>5, <1>11
      <4>. QED
        BY <3>1, <4>1, <4>2, <4>3
    <3>2. CASE b # a \/ j # k
      <4>1. /\ Has'[b][j] = Has[b][j]
            /\ RowsAt(data, Of'[b], j) = RowsAt(data, Of[b], j)
        BY <1>9, <2>2, <3>2
      <4>2. ValsAt(data, Of'[b], j) = ValsAt(data, Of[b], j)
        BY <4>1 DEF ValsAt
      <4>3. Distinct => heap'[Has[b][j].hll] = heap[Has[b][j].hll]
        <5>. SUFFICES ASSUME Distinct PROVE heap'[Has[b][j].hll] = heap[Has[b][j].hll]
          OBVIOUS
        <5>1. Has[b][j].hll \in 1 .. NSketches
          BY <2>2 DEF IInv, Sketched
        <5>2. Has[b][j].hll # Has[a][k].hll
          BY <1>1, <1>3, <2>2, <3>2 DEF IInv, Separate
        <5>. QED
          BY <1>3, <1>11, <5>1, <5>2 DEF g
      <4>4. /\ IsGroup(colType, data, Has[b][j], Of[b], j)
            /\ Distinct => IsRegs(heap[Has[b][j].hll], ValsAt(data, Of[b], j))
        BY <2>2 DEF IInv, Totalled
      <4>5. IsGroup(colType, data, Has[b][j], Of'[b], j)
        BY <4>1, <4>4, SameRows
      <4>. QED
        BY <4>1, <4>2, <4>3, <4>4, <4>5
    <3>. QED
      BY <3>1, <3>2
  <2>. QED
    BY <1>1, <1>3, <1>10, <2>1, <2>2 DEF Totalled
<1>17. Calling'
  <2>1. ASSUME NEW b \in live \ {a}, Distinct, NEW j \in DOMAIN Has'[b]
        PROVE  heap'[Has'[b][j].hll] = heap[Has[b][j].hll]
    <3>1. b \in Box /\ Has'[b] = Has[b] /\ j \in DOMAIN Has[b]
      BY <1>8, <2>1 DEF Box
    <3>2. Has[b][j].hll \in 1 .. NSketches
      BY <2>1, <3>1 DEF IInv, Sketched
    <3>3. Has[b][j].hll # g.hll
      <4>1. Has[b][j].hll # Has[a][k].hll
        BY <1>1, <1>3, <2>1, <3>1 DEF IInv, Separate
      <4>. QED
        BY <1>3, <4>1 DEF g
    <3>. QED
      BY <1>11, <2>1, <3>1, <3>2, <3>3
  <2>2. \A b \in live \ {a} : Still(b)
    BY <2>1 DEF Still
  <2>3. Shaped' /\ {a} \in SUBSET Aggs /\ \A b \in {a} : ~Busy(b)
    BY <1>1 DEF IInv, Calling, Shaped
  <2>. QED
    BY <1>1, <1>c, <2>2, <2>3, NoCallChanges
<1>. QED
  BY <1>12, <1>13, <1>14, <1>15, <1>16, <1>17 DEF IInv

\* The first row of a group: a new sketch.
LEMMA AddNewGroupIs ==
    ASSUME IInv, NEW a \in Aggs, NEW r \in Rows, AddNewGroup(a, r)
    PROVE  IInv'
<1>. DEFINE k == data[r].key
            v == data[r].val
            f == Fresh({k})
            g == AddValue(NewAccum(f[k]), v)
            new == [j \in {k} |-> HllAdd(Empty, v)]
            R == fed[a] \cup {r}
<1>1. /\ a \in live /\ a \in Box /\ ~Busy(a) /\ r \in unread /\ k \notin DOMAIN groups[a]
      /\ unread' = unread \ {r} /\ fed' = [fed EXCEPT ![a] = @ \cup {r}]
      /\ groups' = [groups EXCEPT ![a] = [j \in DOMAIN @ \cup {k} |-> IF j = k THEN g ELSE @[j]]]
      /\ heap' = Filled(f, new)
      /\ UNCHANGED <<colType, data, live, snap, call, taken, before>>
      /\ Typed
  BY DEF AddNewGroup, Feed, Box, IInv
<1>2. Has[a] = groups[a] /\ Of[a] = fed[a] /\ Box' = Box
  BY <1>1, TypedHas DEF Box
<1>3. k \in Keys /\ {k} \in SUBSET Keys /\ v \in Vals[colType]
  BY <1>1, OneRow
<1>4. /\ groups[a] \in GroupMaps /\ DOMAIN groups[a] \subseteq Keys
      /\ \A j \in DOMAIN groups[a] : groups[a][j] \in Fields
      /\ DOMAIN groups[a] = {data[q].key : q \in fed[a]}
  BY <1>1, <1>2, Boxes
<1>5. g \in Fields /\ g.hll = f[k] /\ IsGroup(colType, data, g, {r}, k)
  <2>1. f[k] \in (1 .. NSketches) \cup {None}
    BY <1>1, <1>3, FreshIds
  <2>. HIDE DEF f
  <2>. QED
    BY <1>1, <2>1, NewGroupIs
<1>6. /\ \A q \in fed[a] : data[q].key # k
      /\ \A j \in DOMAIN groups[a] : j # k
  BY <1>1, <1>4
<1>7. /\ RowsAt(data, R, k) = RowsAt(data, {r}, k)
      /\ \A j \in DOMAIN groups[a] : RowsAt(data, R, j) = RowsAt(data, fed[a], j)
      /\ ValsAt(data, R, k) = {v} /\ IsGroup(colType, data, g, R, k)
      /\ {data[q].key : q \in R} = DOMAIN groups[a] \cup {k}
  <2>1. Typed /\ fed[a] \in SUBSET Rows /\ {r} \in SUBSET Rows /\ fed[a] \cap {r} = {}
    BY <1>1, <1>2 DEF Typed, IInv, Unread
  <2>2. \A j : j # k => \A q \in {r} : data[q].key # j
    OBVIOUS
  <2>3. {data[q].key : q \in R} = {data[q].key : q \in fed[a]} \cup {k}
    OBVIOUS
  <2>4. ValsAt(data, {r}, k) = {v}
    BY <1>1, OneRow
  <2>. HIDE DEF k, v, g
  <2>5. RowsAt(data, R, k) = RowsAt(data, {r}, k)
    BY <1>6 DEF RowsAt
  <2>6. ASSUME NEW j \in DOMAIN groups[a]
        PROVE  RowsAt(data, R, j) = RowsAt(data, fed[a], j)
    <3>1. \A q \in {r} : data[q].key # j
      BY <1>6, <2>2, <2>6
    <3>. QED
      BY <3>1 DEF RowsAt
  <2>7. ValsAt(data, R, k) = ValsAt(data, {r}, k)
    BY <2>5 DEF ValsAt
  <2>. HIDE DEF R
  <2>8. IsGroup(colType, data, g, R, k)
    BY <1>5, <2>5, SameRows
  <2>. QED
    BY <1>4, <2>3, <2>4, <2>5, <2>6, <2>7, <2>8
<1>8. IsRegs(HllAdd(Empty, v), {v})
  <2>1. {} \in SUBSET Vals[colType] /\ {} \cup {v} = {v}
    OBVIOUS
  <2>2. IsRegs(HllAdd(Empty, v), {} \cup {v})
    <3>. HIDE DEF v
    <3>. QED
      BY <1>1, <1>3, <2>1, EmptyIs, HllAddIs
  <2>. QED
    BY <2>1, <2>2
<1>9. new \in [{k} -> [Regs -> Nat]] /\ new[k] = HllAdd(Empty, v)
  BY <1>8 DEF IsRegs
<1>. HIDE DEF g, new, R
\* What has changed.
<1>10. /\ groups' \in [Aggs -> GroupMaps]
       /\ DOMAIN groups'[a] = DOMAIN groups[a] \cup {k}
       /\ groups'[a][k] = g
       /\ \A j \in DOMAIN groups[a] : groups'[a][j] = groups[a][j]
       /\ \A b \in Aggs \ {a} : groups'[b] = groups[b]
  <2>. DEFINE S == [j \in DOMAIN groups[a] \cup {k} |-> IF j = k THEN g ELSE groups[a][j]]
  <2>1. groups' = [groups EXCEPT ![a] = S]
    BY <1>1
  <2>. HIDE DEF k
  <2>2. S \in GroupMaps
    BY <1>3, <1>4, <1>5, GroupMapIs
  <2>3. /\ DOMAIN S = DOMAIN groups[a] \cup {k} /\ S[k] = g
        /\ \A j \in DOMAIN groups[a] : S[j] = groups[a][j]
    BY <1>6
  <2>. HIDE DEF S
  <2>. QED
    BY <1>1, <2>1, <2>2, <2>3 DEF Typed
<1>c. \A c \in Calls : Stays(c)
  <2>1. \A b \in live \ {a} : b \in live' /\ groups'[b] = groups[b] /\ fed'[b] = fed[b]
    BY <1>1, <1>10 DEF Typed
  <2>2. {a} \in SUBSET Aggs /\ \A b \in {a} : ~Busy(b)
    BY <1>1
  <2>. QED
    BY <1>1, <2>1, <2>2, NoCallStays
<1>11. /\ Has'[a] = groups'[a] /\ Of'[a] = R
       /\ \A b \in Box' \ {a} : Has'[b] = Has[b] /\ Of'[b] = Of[b]
  <2>1. \A b \in live \ {a} : Has'[b] = Has[b] /\ Of'[b] = Of[b]
    BY <1>1, <1>10, NextHas, TypedHas, ZenonT(30) DEF Typed
  <2>2. \A s \in Snaps : Has'[s] = Has[s] /\ Of'[s] = Of[s]
    BY <1>1, NextHas, TypedHas
  <2>3. Has'[a] = groups'[a] /\ Of'[a] = R
    BY <1>1, NextHas DEF Typed, R
  <2>4. \A c \in Calls : Has'[c] = Has[c] /\ Of'[c] = Of[c]
    BY <1>1, <1>c, StaysSame
  <2>. QED
    BY <1>2, <2>1, <2>2, <2>3, <2>4 DEF Box
\* The invariant.
<1>12. Typed'
  <2>1. heap' \in [1 .. NSketches -> [Regs -> Nat]]
    <3>. HIDE DEF k
    <3>. QED
      BY <1>1, <1>3, <1>9, HeapTyped
  <2>2. fed' \in [Aggs -> SUBSET Rows]
    BY <1>1 DEF Typed
  <2>. QED
    BY <1>1, <1>10, <2>1, <2>2, SameTypes DEF Typed
<1>13. Unread'
  BY <1>1, <1>2, <1>11 DEF IInv, Unread, R
<1>14. /\ Sketched' /\ Separate' /\ Totalled'
       /\ \A b \in Box' \ {a} : Still(b)
  <2>1. /\ UNCHANGED <<colType, data>> /\ Box' \subseteq Box /\ a \in Box'
        /\ {k} \in SUBSET DOMAIN Has'[a] /\ {k} \subseteq Keys
        /\ heap' = Filled(Fresh({k}), new)
    BY <1>1, <1>2, <1>3, <1>10, <1>11
  <2>2. DOMAIN Has'[a] = {data[q].key : q \in Of'[a]}
    BY <1>7, <1>10, <1>11
  <2>3. \A j \in {k} :
           /\ Has'[a][j].hll = Fresh({k})[j]
           /\ IsGroup(colType, data, Has'[a][j], Of'[a], j)
           /\ Distinct => IsRegs(new[j], ValsAt(data, Of'[a], j))
    BY <1>5, <1>7, <1>8, <1>9, <1>10, <1>11
  <2>4. \A j \in DOMAIN Has'[a] \ {k} : \E c \in Box :
           /\ j \in DOMAIN Has[c] /\ Has'[a][j] = Has[c][j]
           /\ RowsAt(data, Of'[a], j) = RowsAt(data, Of[c], j)
           /\ c \in Box' \ {a} => j \notin DOMAIN Has'[c]
    BY <1>1, <1>2, <1>7, <1>10, <1>11
  <2>5. \A b \in Box' \ {a} : Kept(b)
    BY <1>2, <1>11, SameIsKept
  <2>. HIDE DEF k
  <2>. QED
    BY <1>9, <1>11, <2>1, <2>2, <2>3, <2>4, <2>5, OneBoxChanges
<1>15. Calling'
  <2>1. Shaped' /\ {a} \in SUBSET Aggs /\ (\A b \in {a} : ~Busy(b)) /\ \A b \in live \ {a} : Still(b)
    BY <1>1, <1>2, <1>14 DEF IInv, Calling, Shaped, Box
  <2>. QED
    BY <1>1, <1>c, <2>1, NoCallChanges
<1>. QED
  BY <1>12, <1>13, <1>14, <1>15 DEF IInv

\* What a group of one box and the group of the same key of another make.
Pooled(b, c, k, id) ==
    LET q == MergeAccum(Has[b][k], Has[c][k], id)
    IN  /\ q \in Fields /\ q.hll = id
        /\ IsGroup(colType, data, q, Of[b] \cup Of[c], k)
        /\ Distinct => IsRegs(HllMerge(RegsIn(Has[b], k), RegsIn(Has[c], k)),
                              ValsAt(data, Of[b] \cup Of[c], k))

\* The combined group is the one of the rows of both.
LEMMA Combined ==
    ASSUME IInv, NEW b \in Box, NEW c \in Box, Of[b] \cap Of[c] = {},
           NEW k \in DOMAIN Has[b], k \in DOMAIN Has[c],
           NEW id \in (1 .. NSketches) \cup {None}
    PROVE  Pooled(b, c, k, id)
<1>. DEFINE V == ValsAt(data, Of[b], k)
            W == ValsAt(data, Of[c], k)
            Q == RowsAt(data, Of[b], k)
            P == RowsAt(data, Of[c], k)
            n == Cardinality(RowsAt(data, Of[b], k))
            m == Cardinality(RowsAt(data, Of[c], k))
            q == MergeAccum(Has[b][k], Has[c][k], id)
<1>1. /\ Typed /\ Of[b] \in SUBSET Rows /\ Of[c] \in SUBSET Rows
      /\ Has[b][k] \in Fields /\ Has[c][k] \in Fields
      /\ IsAccum(colType, Has[b][k], V, n) /\ IsAccum(colType, Has[c][k], W, m)
      /\ IsSum(colType, Has[b][k].sum, data, Q) /\ IsSum(colType, Has[c][k].sum, data, P)
      /\ Distinct => IsRegs(RegsIn(Has[b], k), V) /\ IsRegs(RegsIn(Has[c], k), W)
  BY Boxes DEF IInv, IsGroup
<1>2. /\ RowsAt(data, Of[b] \cup Of[c], k) = Q \cup P /\ Q \cap P = {}
      /\ ValsAt(data, Of[b] \cup Of[c], k) = V \cup W
      /\ Cardinality(RowsAt(data, Of[b] \cup Of[c], k)) = n + m
      /\ Q \in SUBSET Rows /\ P \in SUBSET Rows
  <2>1. Joined(Of[b], Of[c], k)
    BY <1>1, RowsOfUnion
  <2>2. Q \in SUBSET Rows /\ P \in SUBSET Rows
    BY <1>1 DEF RowsAt
  <2>. QED
    BY <2>1, <2>2 DEF Joined
<1>3. V \in SUBSET Vals[colType] /\ W \in SUBSET Vals[colType] /\ n \in Nat /\ m \in Nat
  BY <1>1, RowsAre
<1>. HIDE DEF V, W, Q, P, n, m
<1>4. /\ q \in Fields /\ q.hll = id /\ IsAccum(colType, q, V \cup W, n + m)
      /\ q.sum = IF colType = "string" THEN 0 ELSE Plus(Has[b][k].sum, Has[c][k].sum)
  <2>. DEFINE g == Has[b][k]
              h == Has[c][k]
  <2>1. /\ Typed /\ g \in Fields /\ h \in Fields
        /\ IsAccum(colType, g, V, n) /\ IsAccum(colType, h, W, m)
    BY <1>1
  <2>. HIDE DEF g, h
  <2>2. /\ MergeAccum(g, h, id) \in Fields
        /\ MergeAccum(g, h, id).hll = id
        /\ IsAccum(colType, MergeAccum(g, h, id), V \cup W, n + m)
    BY <1>3, <2>1, MergeAccumIs
  <2>3. MergeAccum(g, h, id).sum = IF colType = "string" THEN 0 ELSE Plus(g.sum, h.sum)
    BY DEF MergeAccum
  <2>. QED
    BY <2>2, <2>3 DEF g, h
<1>5. Distinct => IsRegs(HllMerge(RegsIn(Has[b], k), RegsIn(Has[c], k)), V \cup W)
  BY <1>1, <1>3, HllMergeIs
<1>. HIDE DEF q
<1>6. IsSum(colType, q.sum, data, Q \cup P)
  BY <1>1, <1>2, <1>4, JoinedSums
<1>7. IsGroup(colType, data, q, Of[b] \cup Of[c], k)
  BY <1>2, <1>4, <1>6 DEF IsGroup
<1>. QED
  BY <1>2, <1>4, <1>5, <1>7 DEF Pooled, q

\* Merge: the groups of both get a new sketch, the others keep theirs.
LEMMA MergeIs ==
    ASSUME IInv, NEW a \in Aggs, NEW other \in Aggs, Merge(a, other)
    PROVE  IInv'
<1>. DEFINE A == groups[a]
            B == groups[other]
            both == DOMAIN A \cap DOMAIN B
            f == Fresh(both)
            new == [k \in both |-> HllMerge(RegsIn(A, k), RegsIn(B, k))]
            R == fed[a] \cup fed[other]
            C == [k \in DOMAIN A \cup DOMAIN B |->
                    CASE k \in both -> MergeAccum(A[k], B[k], f[k])
                      [] k \in DOMAIN A \ both -> A[k]
                      [] OTHER -> B[k]]
<1>1. /\ a \in live /\ other \in live /\ a \in Box /\ other \in Box /\ a # other
      /\ ~Busy(a) /\ ~Busy(other)
      /\ fed[a] \cap fed[other] = {}
      /\ groups' = [groups EXCEPT ![a] = C, ![other] = NoGroups]
      /\ heap' = Filled(f, new)
      /\ live' = live \ {other}
      /\ fed' = [fed EXCEPT ![a] = R, ![other] = {}]
      /\ UNCHANGED <<colType, data, unread, snap, call, taken, before>>
      /\ Typed
  BY DEF Merge, Box, IInv
<1>2. /\ Has[a] = A /\ Of[a] = fed[a] /\ Has[other] = B /\ Of[other] = fed[other]
      /\ Box' = Box \ {other}
  BY <1>1, TypedHas, AggregationAssumption DEF Box
<1>3. /\ A \in GroupMaps /\ DOMAIN A \subseteq Keys /\ \A j \in DOMAIN A : A[j] \in Fields
      /\ B \in GroupMaps /\ DOMAIN B \subseteq Keys /\ \A j \in DOMAIN B : B[j] \in Fields
      /\ DOMAIN A = {data[q].key : q \in fed[a]} /\ DOMAIN B = {data[q].key : q \in fed[other]}
      /\ fed[a] \in SUBSET Rows /\ fed[other] \in SUBSET Rows
      /\ both \in SUBSET Keys
  BY <1>1, <1>2, Boxes
<1>4. ASSUME NEW k \in both
      PROVE  /\ C[k] \in Fields /\ C[k].hll = f[k]
             /\ IsGroup(colType, data, C[k], R, k)
             /\ Distinct => IsRegs(new[k], ValsAt(data, R, k))
  <2>1. C[k] = MergeAccum(A[k], B[k], f[k]) /\ new[k] = HllMerge(RegsIn(A, k), RegsIn(B, k))
    OBVIOUS
  <2>2. f[k] \in (1 .. NSketches) \cup {None}
    <3>. HIDE DEF both
    <3>. QED
      BY <1>1, <1>3, FreshIds
  <2>3. k \in DOMAIN A /\ k \in DOMAIN B
    OBVIOUS
  <2>. HIDE DEF A, B, both, f, C, new
  <2>4. LET q == MergeAccum(A[k], B[k], f[k])
        IN  /\ q \in Fields /\ q.hll = f[k]
            /\ IsGroup(colType, data, q, R, k)
            /\ Distinct => IsRegs(HllMerge(RegsIn(A, k), RegsIn(B, k)), ValsAt(data, R, k))
    <3>1. /\ a \in Box /\ other \in Box /\ Of[a] \cap Of[other] = {}
          /\ k \in DOMAIN Has[a] /\ k \in DOMAIN Has[other]
      BY <1>1, <1>2, <2>3
    <3>2. Pooled(a, other, k, f[k])
      BY <2>2, <3>1, Combined
    <3>. QED
      BY <1>2, <3>2 DEF Pooled
  <2>. QED
    BY <2>1, <2>4
<1>5. /\ \A k \in DOMAIN A \ both : C[k] = A[k] /\ RowsAt(data, R, k) = RowsAt(data, fed[a], k)
      /\ \A k \in DOMAIN B \ both : C[k] = B[k] /\ RowsAt(data, R, k) = RowsAt(data, fed[other], k)
  <2>1. ASSUME NEW k \in DOMAIN A \ both
        PROVE  C[k] = A[k] /\ RowsAt(data, R, k) = RowsAt(data, fed[a], k)
    <3>1. \A q \in fed[other] : data[q].key # k
      BY <1>3, <2>1
    <3>. QED
      BY <2>1, <3>1 DEF RowsAt
  <2>2. ASSUME NEW k \in DOMAIN B \ both
        PROVE  C[k] = B[k] /\ RowsAt(data, R, k) = RowsAt(data, fed[other], k)
    <3>1. \A q \in fed[a] : data[q].key # k
      BY <1>3, <2>2
    <3>. QED
      BY <2>2, <3>1 DEF RowsAt
  <2>. QED
    BY <2>1, <2>2
<1>6. DOMAIN C = {data[q].key : q \in R}
  <2>1. {data[q].key : q \in R} = {data[q].key : q \in fed[a]} \cup {data[q].key : q \in fed[other]}
    OBVIOUS
  <2>. QED
    BY <1>3, <2>1
<1>7. /\ C \in GroupMaps
      /\ DOMAIN C = both \cup (DOMAIN A \ both) \cup (DOMAIN B \ both)
  <2>1. /\ C = [k \in DOMAIN C |-> C[k]] /\ DOMAIN C \subseteq Keys
        /\ DOMAIN C = both \cup (DOMAIN A \ both) \cup (DOMAIN B \ both)
    BY <1>3
  <2>. HIDE DEF C, A, B, both
  <2>2. \A k \in DOMAIN C : C[k] \in Fields
    BY <1>3, <1>4, <1>5, <2>1
  <2>. QED
    BY <2>1, <2>2, GroupMapIs
<1>8. Distinct => new \in [both -> [Regs -> Nat]]
  <2>1. new = [k \in both |-> new[k]]
    OBVIOUS
  <2>. HIDE DEF new, both
  <2>. QED
    BY <1>4, <2>1 DEF IsRegs
<1>. HIDE DEF C, new, R, both
\* What has changed.
<1>9. /\ groups' \in [Aggs -> GroupMaps] /\ groups'[a] = C
      /\ \A b \in Aggs \ {a, other} : groups'[b] = groups[b]
  <2>1. NoGroups \in GroupMaps
    BY GroupMapIs DEF NoGroups
  <2>. QED
    BY <1>1, <1>7, <2>1 DEF Typed
<1>c. \A c \in Calls : Stays(c)
  <2>1. \A b \in live \ {a, other} : b \in live' /\ groups'[b] = groups[b] /\ fed'[b] = fed[b]
    BY <1>1, <1>9 DEF Typed
  <2>2. {a, other} \in SUBSET Aggs /\ \A b \in {a, other} : ~Busy(b)
    BY <1>1
  <2>. QED
    BY <1>1, <2>1, <2>2, NoCallStays
<1>10. /\ a \in Box' /\ Has'[a] = C /\ Of'[a] = R
       /\ \A b \in Box' \ {a} : Has'[b] = Has[b] /\ Of'[b] = Of[b]
  <2>1. \A b \in live \ {a, other} : Has'[b] = Has[b] /\ Of'[b] = Of[b]
    BY <1>1, <1>9, NextHas, TypedHas DEF Typed
  <2>2. \A s \in Snaps : Has'[s] = Has[s] /\ Of'[s] = Of[s]
    BY <1>1, NextHas, TypedHas
  <2>3. Has'[a] = C /\ Of'[a] = R
    BY <1>1, <1>9, NextHas DEF Typed
  <2>4. \A c \in Calls : Has'[c] = Has[c] /\ Of'[c] = Of[c]
    BY <1>1, <1>c, StaysSame
  <2>. QED
    BY <1>1, <1>2, <2>1, <2>2, <2>3, <2>4 DEF Box
\* The invariant.
<1>11. Typed'
  <2>1. heap' \in [1 .. NSketches -> [Regs -> Nat]]
    BY <1>1, <1>3, <1>8, HeapTyped
  <2>2. fed' \in [Aggs -> SUBSET Rows] /\ live' \subseteq Aggs
    BY <1>1, <1>3 DEF Typed, R
  <2>. QED
    BY <1>1, <1>9, <2>1, <2>2, SameTypes DEF Typed
<1>12. Unread'
  BY <1>1, <1>2, <1>10 DEF IInv, Unread, R
<1>13. /\ Sketched' /\ Separate' /\ Totalled'
       /\ \A b \in Box' \ {a} : Still(b)
  <2>1. /\ UNCHANGED <<colType, data>> /\ Box' \subseteq Box
        /\ both \in SUBSET DOMAIN Has'[a] /\ both \subseteq Keys
        /\ heap' = Filled(Fresh(both), new)
    BY <1>1, <1>2, <1>3, <1>7, <1>10
  <2>2. DOMAIN Has'[a] = {data[q].key : q \in Of'[a]}
    BY <1>6, <1>10
  <2>3. \A j \in both :
           /\ Has'[a][j].hll = Fresh(both)[j]
           /\ IsGroup(colType, data, Has'[a][j], Of'[a], j)
           /\ Distinct => IsRegs(new[j], ValsAt(data, Of'[a], j))
    BY <1>4, <1>10
  <2>4. \A j \in DOMAIN Has'[a] \ both : \E c \in Box :
           /\ j \in DOMAIN Has[c] /\ Has'[a][j] = Has[c][j]
           /\ RowsAt(data, Of'[a], j) = RowsAt(data, Of[c], j)
           /\ c \in Box' \ {a} => j \notin DOMAIN Has'[c]
    <3>1. ASSUME NEW j \in DOMAIN A \ both
          PROVE  \E c \in Box :
                    /\ j \in DOMAIN Has[c] /\ Has'[a][j] = Has[c][j]
                    /\ RowsAt(data, Of'[a], j) = RowsAt(data, Of[c], j)
                    /\ c \in Box' \ {a} => j \notin DOMAIN Has'[c]
      BY <1>1, <1>2, <1>5, <1>10, <3>1
    <3>2. ASSUME NEW j \in DOMAIN B \ both
          PROVE  \E c \in Box :
                    /\ j \in DOMAIN Has[c] /\ Has'[a][j] = Has[c][j]
                    /\ RowsAt(data, Of'[a], j) = RowsAt(data, Of[c], j)
                    /\ c \in Box' \ {a} => j \notin DOMAIN Has'[c]
      BY <1>1, <1>2, <1>5, <1>10, <3>2
    <3>. QED
      BY <1>7, <1>10, <3>1, <3>2
  <2>5. \A b \in Box' \ {a} : Kept(b)
    BY <1>2, <1>10, SameIsKept
  <2>. QED
    BY <1>8, <1>10, <2>1, <2>2, <2>3, <2>4, <2>5, OneBoxChanges
<1>14. Calling'
  <2>1. /\ Shaped' /\ {a, other} \in SUBSET Aggs /\ (\A b \in {a, other} : ~Busy(b))
        /\ \A b \in live \ {a, other} : Still(b)
    BY <1>1, <1>2, <1>13 DEF IInv, Calling, Shaped, Box
  <2>. QED
    BY <1>1, <1>c, <2>1, NoCallChanges
<1>. QED
  BY <1>11, <1>12, <1>13, <1>14 DEF IInv

\* A copy is an accumulator of the same rows, wherever they are.
LEMMA CopyIs ==
    ASSUME NEW g \in Fields, NEW id \in (1 .. NSketches) \cup {None}, NEW R, NEW k,
           IsGroup(colType, data, g, R, k)
    PROVE  LET h == Copy(g, id)
           IN  h \in Fields /\ h.hll = id /\ IsGroup(colType, data, h, R, k)
<1>. DEFINE h == Copy(g, id)
<1>1. /\ h \in Fields /\ h.hll = id
      /\ h.count = g.count /\ h.sum = g.sum /\ h.min = g.min /\ h.max = g.max
      /\ h.haveMinMax = g.haveMinMax
  BY DEF Copy, Fields
<1>. HIDE DEF h
<1>2. IsGroup(colType, data, h, R, k)
  BY <1>1 DEF IsGroup, IsAccum
<1>. QED
  BY <1>1, <1>2 DEF h

\* ExportState: a copy of every group, with a sketch of its own.
LEMMA ExportStateIs ==
    ASSUME IInv, NEW a \in Aggs, NEW s \in Snaps, ExportState(a, s)
    PROVE  IInv'
<1>. DEFINE A == groups[a]
            S == DOMAIN A
            f == Fresh(S)
            new == [k \in S |-> RegsIn(A, k)]
            C == [k \in S |-> Copy(A[k], f[k])]
<1>1. /\ a \in live /\ a \in Box /\ snap[s].status = "none"
      /\ snap' = [snap EXCEPT ![s] = [status |-> "sent", groups |-> C, bad |-> {}]]
      /\ heap' = Filled(f, new)
      /\ taken' = [taken EXCEPT ![s] = fed[a]]
      /\ UNCHANGED <<colType, data, unread, groups, live, call, fed, before>>
      /\ Typed
  BY DEF ExportState, Box, IInv
<1>2. Has[a] = A /\ Of[a] = fed[a] /\ Box' = Box /\ s \in Box /\ s \notin Aggs
  BY <1>1, TypedHas, AggregationAssumption DEF Box
<1>3. /\ S \in SUBSET Keys /\ S = {data[q].key : q \in fed[a]} /\ fed[a] \in SUBSET Rows
      /\ \A k \in S : /\ A[k] \in Fields
                      /\ IsGroup(colType, data, A[k], fed[a], k)
                      /\ Distinct => IsRegs(RegsIn(A, k), ValsAt(data, fed[a], k))
  BY <1>1, <1>2, Boxes
<1>4. ASSUME NEW k \in S
      PROVE  /\ C[k] \in Fields /\ C[k].hll = f[k]
             /\ IsGroup(colType, data, C[k], fed[a], k)
             /\ Distinct => IsRegs(new[k], ValsAt(data, fed[a], k))
  <2>1. C[k] = Copy(A[k], f[k]) /\ new[k] = RegsIn(A, k)
    OBVIOUS
  <2>2. f[k] \in (1 .. NSketches) \cup {None}
    <3>. HIDE DEF S
    <3>. QED
      BY <1>1, <1>3, FreshIds
  <2>3. A[k] \in Fields /\ IsGroup(colType, data, A[k], fed[a], k)
    BY <1>3
  <2>. HIDE DEF A, f, C, new
  <2>4. C[k] \in Fields /\ C[k].hll = f[k] /\ IsGroup(colType, data, C[k], fed[a], k)
    BY <2>1, <2>2, <2>3, CopyIs
  <2>. QED
    BY <1>3, <2>1, <2>4
<1>5. C \in GroupMaps /\ DOMAIN C = S
  <2>1. C = [k \in DOMAIN C |-> C[k]] /\ DOMAIN C = S
    OBVIOUS
  <2>. HIDE DEF C, S
  <2>. QED
    BY <1>3, <1>4, <2>1, GroupMapIs
<1>6. Distinct => new \in [S -> [Regs -> Nat]]
  <2>1. new = [k \in S |-> new[k]]
    OBVIOUS
  <2>. HIDE DEF new, S
  <2>. QED
    BY <1>4, <2>1 DEF IsRegs
<1>. HIDE DEF C, new, S
\* What has changed.
<1>c. \A c \in Calls : Stays(c)
  <2>1. \A c \in Snaps : snap[c].status = "merging" => snap'[c] = snap[c] /\ taken'[c] = taken[c]
    <3>1. \A c \in Snaps \ {s} : snap'[c] = snap[c] /\ taken'[c] = taken[c]
      BY <1>1 DEF Typed
    <3>. QED
      BY <1>1, <3>1
  <2>. QED
    BY <1>1, <2>1, NoCallStays
<1>7. /\ s \in Box' /\ Has'[s] = C /\ Of'[s] = fed[a]
      /\ \A b \in Box' \ {s} : Has'[b] = Has[b] /\ Of'[b] = Of[b]
  <2>1. \A b \in live : Has'[b] = Has[b] /\ Of'[b] = Of[b]
    BY <1>1, NextHas, TypedHas DEF Typed
  <2>2. \A c \in Snaps \ {s} : Has'[c] = Has[c] /\ Of'[c] = Of[c]
    BY <1>1, NextHas, TypedHas DEF Typed
  <2>3. Has'[s] = C /\ Of'[s] = fed[a]
    BY <1>1, NextHas DEF Typed
  <2>4. \A c \in Calls : Has'[c] = Has[c] /\ Of'[c] = Of[c]
    BY <1>1, <1>c, StaysSame
  <2>. QED
    BY <1>2, <2>1, <2>2, <2>3, <2>4 DEF Box
\* The invariant.
<1>8. Typed'
  <2>1. heap' \in [1 .. NSketches -> [Regs -> Nat]]
    BY <1>1, <1>3, <1>6, HeapTyped
  <2>2. taken' \in [Snaps -> SUBSET Rows]
    BY <1>1, <1>3 DEF Typed
  <2>3. snap' \in [Snaps -> SnapType]
    BY <1>1, <1>5 DEF Typed, SnapType
  <2>. QED
    BY <1>1, <2>1, <2>2, <2>3, SameTypes DEF Typed
<1>9. Unread'
  BY <1>1, <1>2, <1>7 DEF IInv, Unread
<1>10. /\ Sketched' /\ Separate' /\ Totalled'
       /\ \A b \in Box' \ {s} : Still(b)
  <2>1. /\ UNCHANGED <<colType, data>> /\ Box' \subseteq Box
        /\ S \in SUBSET DOMAIN Has'[s] /\ S \subseteq Keys
        /\ heap' = Filled(Fresh(S), new)
    BY <1>1, <1>2, <1>3, <1>5, <1>7
  <2>2. DOMAIN Has'[s] = {data[q].key : q \in Of'[s]}
    BY <1>3, <1>5, <1>7
  <2>3. \A j \in S :
           /\ Has'[s][j].hll = Fresh(S)[j]
           /\ IsGroup(colType, data, Has'[s][j], Of'[s], j)
           /\ Distinct => IsRegs(new[j], ValsAt(data, Of'[s], j))
    BY <1>4, <1>7
  <2>4. DOMAIN Has'[s] \ S = {}
    BY <1>5, <1>7
  <2>5. \A b \in Box' \ {s} : Kept(b)
    BY <1>2, <1>7, SameIsKept
  <2>. QED
    BY <1>6, <1>7, <2>1, <2>2, <2>3, <2>4, <2>5, OneBoxChanges
<1>11. Calling'
  <2>1. Shaped'
    BY <1>1 DEF IInv, Calling, Shaped, Typed
  <2>2. \A b \in live \ {} : Still(b)
    BY <1>1, <1>2, <1>10, AggregationAssumption DEF Box, Typed
  <2>3. {} \in SUBSET Aggs /\ \A b \in {} : ~Busy(b)
    OBVIOUS
  <2>. QED
    BY <1>1, <1>c, <2>1, <2>2, <2>3, NoCallChanges
<1>. QED
  BY <1>8, <1>9, <1>10, <1>11 DEF IInv

\* Misshape: which groups of a state will be refused changes no box.
LEMMA MisshapeIs ==
    ASSUME IInv, NEW s \in Snaps, Misshape(s)
    PROVE  IInv'
<1>1. /\ UNCHANGED <<colType, data, unread, groups, heap, live, call, fed, taken, before>>
      /\ snap[s].status = "sent" /\ Typed
  BY DEF Misshape, IInv
<1>2. PICK B \in SUBSET DOMAIN snap[s].groups : snap' = [snap EXCEPT ![s].bad = B]
  BY DEF Misshape
<1>3. /\ \A c \in Snaps : snap'[c].groups = snap[c].groups
      /\ \A c \in Snaps \ {s} : snap'[c] = snap[c]
      /\ snap'[s].bad = B /\ snap' \in [Snaps -> SnapType]
  <2>1. B \in SUBSET Keys
    BY GroupMapIs, <1>1 DEF Typed, SnapType
  <2>. QED
    BY <1>1, <1>2, <2>1 DEF Typed, SnapType
<1>4. Typed'
  BY <1>1, <1>3, SameTypes DEF Typed
<1>5. \A c \in Calls : Stays(c)
  <2>1. \A c \in Snaps : snap[c].status = "merging" => snap'[c] = snap[c] /\ taken'[c] = taken[c]
    BY <1>1, <1>3
  <2>2. {} \in SUBSET Aggs /\ \A a \in {} : ~Busy(a)
    OBVIOUS
  <2>. QED
    BY <1>1, <2>1, <2>2, NoCallStays
<1>6. Box' = Box /\ \A b \in Box : Has'[b] = Has[b] /\ Of'[b] = Of[b]
  <2>1. \A b \in live : Has'[b] = Has[b] /\ Of'[b] = Of[b]
    BY <1>1, NextHas, TypedHas DEF Typed
  <2>2. \A c \in Snaps : Has'[c] = Has[c] /\ Of'[c] = Of[c]
    BY <1>1, <1>3, NextHas, TypedHas
  <2>3. \A c \in Calls : Has'[c] = Has[c] /\ Of'[c] = Of[c]
    BY <1>1, <1>5, StaysSame
  <2>. QED
    BY <1>1, <2>1, <2>2, <2>3 DEF Box
<1>7. /\ Unread' /\ Sketched' /\ Separate' /\ Totalled'
      /\ \A b \in Box : Still(b)
  BY <1>1, <1>6, NoBoxChanges
<1>8. Calling'
  <2>1. Shaped'
    BY <1>3 DEF IInv, Calling, Shaped
  <2>2. {} \in SUBSET Aggs /\ (\A a \in {} : ~Busy(a)) /\ \A b \in live \ {} : Still(b)
    BY <1>7 DEF Box
  <2>. QED
    BY <1>1, <1>5, <2>1, <2>2, NoCallChanges
<1>. QED
  BY <1>4, <1>7, <1>8 DEF IInv

\* MergeState is called: it has built nothing yet, and all of its states are left.
LEMMA BeginMergeStateIs ==
    ASSUME IInv, NEW c \in Calls, NEW a \in Aggs, NEW s \in Snaps, BeginMergeState(c, a, s)
    PROVE  IInv'
<1>. DEFINE D == DOMAIN snap[s].groups
<1>1. /\ call[c].agg = None /\ a \in live /\ ~Busy(a)
      /\ snap[s].status = "sent" /\ fed[a] \cap taken[s] = {}
      /\ snap' = [snap EXCEPT ![s].status = "merging"]
      /\ call' = [call EXCEPT ![c] = [agg |-> a, snap |-> s, todo |-> D, accums |-> NoGroups]]
      /\ before' = [before EXCEPT ![c] = Contents(a)]
      /\ UNCHANGED <<colType, data, unread, groups, heap, live, fed, taken>>
      /\ Typed
  BY DEF BeginMergeState, IInv
<1>2. /\ snap'[s].status = "merging" /\ snap'[s].groups = snap[s].groups /\ snap'[s].bad = snap[s].bad
      /\ \A t \in Snaps \ {s} : snap'[t] = snap[t]
      /\ snap' \in [Snaps -> SnapType]
  BY <1>1 DEF Typed, SnapType
<1>3. /\ call'[c] = [agg |-> a, snap |-> s, todo |-> D, accums |-> NoGroups]
      /\ before'[c] = Contents(a)
      /\ \A d \in Calls \ {c} : call'[d] = call[d] /\ before'[d] = before[d]
      /\ before' = [d \in Calls |-> before'[d]]
  BY <1>1 DEF Typed
<1>4. Typed'
  <2>1. D \in SUBSET Keys /\ NoGroups \in GroupMaps
    <3>1. snap[s].groups \in GroupMaps
      BY <1>1 DEF Typed, SnapType
    <3>. QED
      BY <3>1, GroupMapIs DEF NoGroups
  <2>. HIDE DEF D
  <2>2. call' \in [Calls -> CallType]
    BY <1>1, <2>1 DEF Typed, CallType
  <2>. QED
    BY <1>1, <1>2, <1>3, <2>2, SameTypes DEF Typed
<1>5. \A d \in Calls \ {c} : Stays(d) /\ (call[d].agg # None => call[d].agg \in live \ {a}
                                                                 /\ call[d].snap # s)
  <2>. SUFFICES ASSUME NEW d \in Calls \ {c}
                PROVE  Stays(d) /\ (call[d].agg # None => call[d].agg \in live \ {a}
                                                          /\ call[d].snap # s)
    OBVIOUS
  <2>1. call[d].agg # None => /\ call[d].agg \in live \ {a}
                              /\ call[d].snap \in Snaps \ {s}
    BY <1>1, CallIs
  <2>. QED
    BY <1>1, <1>2, <1>3, <2>1 DEF Stays
<1>6. Box' = Box /\ \A b \in Box : Has'[b] = Has[b] /\ Of'[b] = Of[b]
  <2>1. \A b \in live : Has'[b] = Has[b] /\ Of'[b] = Of[b]
    BY <1>1, NextHas, TypedHas DEF Typed
  <2>2. \A t \in Snaps : Has'[t] = Has[t] /\ Of'[t] = Of[t]
    BY <1>1, <1>2, NextHas, TypedHas
  <2>3. \A d \in Calls \ {c} : Has'[d] = Has[d] /\ Of'[d] = Of[d]
    BY <1>1, <1>5, StaysSame
  <2>4. Has'[c] = Has[c] /\ Of'[c] = Of[c]
    <3>1. call[c].accums = NoGroups /\ DOMAIN NoGroups = {}
      BY <1>1, CallIs DEF Idle, NoGroups
    <3>2. Has[c] = NoGroups /\ Of[c] = {}
      BY <1>1, <3>1, TypedHas DEF Built
    <3>3. call'[c].accums = NoGroups
      BY <1>3
    <3>4. Has'[c] = NoGroups /\ Of'[c] = {}
      BY <3>1, <3>3, NextHas
    <3>. QED
      BY <3>2, <3>4
  <2>. QED
    BY <1>1, <2>1, <2>2, <2>3, <2>4 DEF Box
<1>7. /\ Unread' /\ Sketched' /\ Separate' /\ Totalled'
      /\ \A b \in Box : Still(b)
  BY <1>1, <1>6, NoBoxChanges
<1>8. CalledAt(c)'
  <2>1. call'[c].agg = a /\ call'[c].snap = s /\ call'[c].todo = D /\ DOMAIN call'[c].accums = {}
    BY <1>3 DEF NoGroups
  <2>2. D = {data[r].key : r \in taken[s]}
    <3>1. s \in Box
      BY DEF Box
    <3>. QED
      BY <1>1, <3>1, Boxes, TypedHas
  <2>3. Left(c)' = taken[s]
    <3>1. Left(c)' = {r \in taken[s] : data[r].key \in D}
      BY <1>1, <2>1 DEF Left
    <3>. HIDE DEF D
    <3>. QED
      BY <2>2, <3>1
  <2>4. Contents(call[c].agg)' = Contents(a)
    BY <1>1, <2>1 DEF Contents, RegsIn, Empty
  <2>5. before'[c].rows = fed[a]
    BY <1>3 DEF Contents
  <2>6. snap[s].bad \subseteq D
    BY DEF IInv, Calling, Shaped
  <2>7. fed'[a] = before'[c].rows \cup (taken'[s] \ Left(c)') /\ before'[c].rows \cap taken'[s] = {}
    BY <1>1, <2>3, <2>5
  <2>. QED
    BY <1>1, <1>2, <1>3, <2>1, <2>4, <2>6, <2>7 DEF CalledAt
<1>9. Alone'
  <2>1. /\ call'[c].agg = a /\ call'[c].snap = s
        /\ \A d \in Calls \ {c} : call'[d].agg # None => call'[d].agg # a /\ call'[d].snap # s
    BY <1>3, <1>5
  <2>. QED
    BY <1>3, <2>1 DEF IInv, Calling, Alone
<1>10. Shaped'
  BY <1>2 DEF IInv, Calling, Shaped
<1>11. \A d \in Calls \ {c} : call[d].agg # None => Still(call[d].agg)
  BY <1>5, <1>7 DEF Box
<1>12. Calling'
  BY <1>1, <1>5, <1>8, <1>9, <1>10, <1>11, OneCallChanges
<1>. QED
  BY <1>4, <1>7, <1>12 DEF IInv

\* One state validated: its accumulator is a copy, with a sketch of its own.
LEMMA StateToGroupAccumIs ==
    ASSUME IInv, NEW c \in Calls, NEW k \in Keys, StateToGroupAccum(c, k)
    PROVE  IInv'
<1>1. PICK a, s : a = call[c].agg /\ s = call[c].snap
  OBVIOUS
<1>. DEFINE A == call[c].accums
            B == snap[s].groups
            f == Fresh({k})
            new == [j \in {k} |-> RegsIn(B, k)]
            C == [j \in DOMAIN A \cup {k} |-> IF j = k THEN Copy(B[k], f[k]) ELSE A[j]]
            T == call[c].todo
            R == {r \in Rows : r \in taken[s] /\ data[r].key \in DOMAIN A \cup {k}}
<1>2. /\ a # None /\ k \in T \ snap[s].bad
      /\ call' = [call EXCEPT ![c].todo = T \ {k}, ![c].accums = C]
      /\ heap' = Filled(f, new)
      /\ UNCHANGED <<colType, data, unread, groups, live, snap, fed, taken, before>>
      /\ Typed
  BY <1>1 DEF StateToGroupAccum, IInv
<1>3. /\ a \in live /\ a \in Aggs /\ s \in Snaps /\ s \in Box /\ c \in Box /\ Box' = Box
      /\ CalledAt(c) /\ call[c] # Idle
  BY <1>1, <1>2, CallIs DEF IInv, Calling, Typed, Box, Idle
<1>4. /\ snap[s].status = "merging" /\ snap[s].bad \subseteq T
      /\ T \cup DOMAIN A \subseteq DOMAIN B /\ T \cap DOMAIN A = {}
      /\ before[c].rows \cap taken[s] = {}
      /\ fed[a] = before[c].rows \cup (taken[s] \ Left(c))
      /\ before[c] = Contents(a)
  BY <1>1, <1>2, <1>3 DEF CalledAt
<1>5. /\ call'[c].agg = a /\ call'[c].snap = s /\ call'[c].todo = T \ {k} /\ call'[c].accums = C
      /\ \A d \in Calls \ {c} : call'[d] = call[d]
  BY <1>1, <1>2 DEF Typed, CallType
<1>6. /\ Has[c] = A /\ Of[c] = {r \in Rows : r \in taken[s] /\ data[r].key \in DOMAIN A}
      /\ Has[s] = B /\ Of[s] = taken[s]
      /\ A \in GroupMaps /\ DOMAIN A \subseteq Keys /\ (\A j \in DOMAIN A : A[j] \in Fields)
      /\ DOMAIN B = {data[r].key : r \in taken[s]} /\ taken[s] \in SUBSET Rows
      /\ k \in DOMAIN B /\ B[k] \in Fields /\ IsGroup(colType, data, B[k], taken[s], k)
      /\ Distinct => IsRegs(RegsIn(B, k), ValsAt(data, taken[s], k))
  <2>1. Has[c] = A /\ Of[c] = Built(c) /\ Has[s] = B /\ Of[s] = taken[s]
    BY <1>2, <1>3, TypedHas
  <2>2. Of[c] = {r \in Rows : r \in taken[s] /\ data[r].key \in DOMAIN A}
    BY <1>1, <2>1 DEF Built
  <2>3. A \in GroupMaps /\ DOMAIN A \subseteq Keys /\ (\A j \in DOMAIN A : A[j] \in Fields)
    BY <1>3, <2>1, Boxes
  <2>4. /\ taken[s] \in SUBSET Rows /\ DOMAIN B = {data[r].key : r \in taken[s]}
        /\ \A j \in DOMAIN B : /\ B[j] \in Fields /\ IsGroup(colType, data, B[j], taken[s], j)
                               /\ Distinct => IsRegs(RegsIn(B, j), ValsAt(data, taken[s], j))
    BY <1>3, <2>1, Boxes
  <2>5. k \in DOMAIN B
    BY <1>2, <1>4
  <2>. QED
    BY <2>1, <2>2, <2>3, <2>4, <2>5
<1>7. /\ R \in SUBSET Rows
      /\ RowsAt(data, R, k) = RowsAt(data, taken[s], k)
      /\ \A j \in DOMAIN A : j # k /\ RowsAt(data, R, j) = RowsAt(data, Of[c], j)
      /\ {data[r].key : r \in R} = DOMAIN A \cup {k}
  <2>1. k \notin DOMAIN A /\ DOMAIN A \cup {k} \subseteq DOMAIN B
    BY <1>2, <1>4
  <2>2. R \in SUBSET Rows
    OBVIOUS
  <2>. HIDE DEF A, B
  <2>3. RowsAt(data, R, k) = RowsAt(data, taken[s], k)
    BY <1>6 DEF RowsAt
  <2>4. \A j \in DOMAIN A : j # k /\ RowsAt(data, R, j) = RowsAt(data, Of[c], j)
    BY <1>6, <2>1 DEF RowsAt
  <2>5. {data[r].key : r \in R} = DOMAIN A \cup {k}
    <3>1. \A j \in DOMAIN A \cup {k} : \E r \in taken[s] : r \in Rows /\ j = data[r].key
      BY <1>6, <2>1
    <3>. QED
      BY <3>1
  <2>. QED
    BY <2>2, <2>3, <2>4, <2>5
<1>8. /\ C[k] \in Fields /\ C[k].hll = f[k] /\ IsGroup(colType, data, C[k], R, k)
      /\ Distinct => IsRegs(new[k], ValsAt(data, R, k))
  <2>1. C[k] = Copy(B[k], f[k]) /\ new[k] = RegsIn(B, k)
    OBVIOUS
  <2>2. f[k] \in (1 .. NSketches) \cup {None}
    BY <1>2, FreshIds
  <2>3. ValsAt(data, R, k) = ValsAt(data, taken[s], k)
    BY <1>7 DEF ValsAt
  <2>. HIDE DEF A, B, f, C, new, R
  <2>4. C[k] \in Fields /\ C[k].hll = f[k] /\ IsGroup(colType, data, C[k], taken[s], k)
    <3>1. PICK g, id : g = B[k] /\ id = f[k]
      OBVIOUS
    <3>2. g \in Fields /\ id \in (1 .. NSketches) \cup {None} /\ IsGroup(colType, data, g, taken[s], k)
      BY <1>6, <2>2, <3>1
    <3>3. /\ Copy(g, id) \in Fields /\ Copy(g, id).hll = id
          /\ IsGroup(colType, data, Copy(g, id), taken[s], k)
      BY <3>2, CopyIs
    <3>. QED
      BY <2>1, <3>1, <3>3
  <2>. QED
    BY <1>6, <1>7, <2>1, <2>3, <2>4, SameRows
<1>9. C \in GroupMaps /\ DOMAIN C = DOMAIN A \cup {k} /\ \A j \in DOMAIN A : C[j] = A[j]
  <2>1. /\ C = [j \in DOMAIN C |-> C[j]] /\ DOMAIN C = DOMAIN A \cup {k}
        /\ \A j \in DOMAIN A : C[j] = A[j]
    BY <1>7
  <2>. HIDE DEF C, A
  <2>2. \A j \in DOMAIN C : C[j] \in Fields
    BY <1>6, <1>8, <2>1
  <2>. QED
    BY <1>6, <2>1, <2>2, GroupMapIs
<1>10. Distinct => new \in [{k} -> [Regs -> Nat]]
  <2>1. new = [j \in {k} |-> new[j]] /\ \A j \in {k} : new[j] = new[k]
    OBVIOUS
  <2>. HIDE DEF new, R
  <2>. QED
    BY <1>8, <2>1 DEF IsRegs
<1>. HIDE DEF C, new, A, B
\* What has changed.
<1>11. \A d \in Calls \ {c} :
          Stays(d) /\ (call[d].agg # None => call[d].agg \in live \ {call[c].agg})
  BY <1>1, <1>2, <1>5, OtherCallsStay
<1>12. /\ Has'[c] = C /\ Of'[c] = R
       /\ \A b \in Box' \ {c} : Has'[b] = Has[b] /\ Of'[b] = Of[b]
  <2>1. \A b \in live : Has'[b] = Has[b] /\ Of'[b] = Of[b]
    BY <1>2, NextHas, TypedHas DEF Typed
  <2>2. \A t \in Snaps : Has'[t] = Has[t] /\ Of'[t] = Of[t]
    BY <1>2, NextHas, TypedHas
  <2>3. \A d \in Calls \ {c} : Has'[d] = Has[d] /\ Of'[d] = Of[d]
    BY <1>2, <1>11, StaysSame
  <2>4. Has'[c] = C /\ Of'[c] = R
    BY <1>2, <1>5, <1>9, NextHas
  <2>. QED
    BY <1>3, <2>1, <2>2, <2>3, <2>4 DEF Box
\* The invariant.
<1>13. Typed'
  <2>1. heap' \in [1 .. NSketches -> [Regs -> Nat]]
    BY <1>2, <1>10, HeapTyped
  <2>2. call' \in [Calls -> CallType]
    <3>1. /\ call \in [Calls -> CallType] /\ T \in SUBSET Keys
          /\ call' = [call EXCEPT ![c] = [call[c] EXCEPT !.todo = T \ {k}, !.accums = C]]
      BY <1>2 DEF Typed, CallType
    <3>2. [call[c] EXCEPT !.todo = T \ {k}, !.accums = C] \in CallType
      BY <1>9, <3>1 DEF CallType
    <3>. QED
      BY <3>1, <3>2
  <2>. QED
    BY <1>2, <2>1, <2>2, SameTypes DEF Typed
<1>14. Unread'
  <2>1. R \subseteq Of[s]
    BY <1>6
  <2>. QED
    BY <1>2, <1>3, <1>12, <2>1 DEF IInv, Unread
<1>15. /\ Sketched' /\ Separate' /\ Totalled'
       /\ \A b \in Box' \ {c} : Still(b)
  <2>1. /\ UNCHANGED <<colType, data>> /\ Box' \subseteq Box /\ c \in Box'
        /\ {k} \in SUBSET DOMAIN Has'[c] /\ {k} \subseteq Keys
        /\ heap' = Filled(Fresh({k}), new)
    BY <1>2, <1>3, <1>9, <1>12
  <2>2. DOMAIN Has'[c] = {data[q].key : q \in Of'[c]}
    BY <1>7, <1>9, <1>12
  <2>3. \A j \in {k} :
           /\ Has'[c][j].hll = Fresh({k})[j]
           /\ IsGroup(colType, data, Has'[c][j], Of'[c], j)
           /\ Distinct => IsRegs(new[j], ValsAt(data, Of'[c], j))
    BY <1>8, <1>12
  <2>4. \A j \in DOMAIN Has'[c] \ {k} : \E d \in Box :
           /\ j \in DOMAIN Has[d] /\ Has'[c][j] = Has[d][j]
           /\ RowsAt(data, Of'[c], j) = RowsAt(data, Of[d], j)
           /\ d \in Box' \ {c} => j \notin DOMAIN Has'[d]
    BY <1>3, <1>6, <1>7, <1>9, <1>12
  <2>5. \A b \in Box' \ {c} : Kept(b)
    BY <1>3, <1>12, SameIsKept
  <2>. QED
    BY <1>10, <2>1, <2>2, <2>3, <2>4, <2>5, OneBoxChanges
<1>16. CalledAt(c)'
  <2>1. Left(c)' = Left(c)
    <3>1. call'[c].todo \cup DOMAIN call'[c].accums = T \cup DOMAIN A
      BY <1>2, <1>5, <1>9
    <3>. QED
      BY <1>1, <1>2, <1>5, <3>1 DEF Left, A
  <2>2. Contents(call[c].agg)' = Contents(a)
    <3>1. Has'[a] = groups[a] /\ Has[a] = groups[a] /\ Still(a)
      BY <1>2, <1>3, <1>12, <1>15, TypedHas, NextHas, AggregationAssumption DEF Box
    <3>2. \A j \in DOMAIN groups[a] : Distinct => heap'[groups[a][j].hll] = heap[groups[a][j].hll]
      BY <3>1 DEF Still
    <3>3. groups' = groups /\ fed' = fed /\ call'[c].agg = a
      BY <1>2, <1>5
    <3>. QED
      BY <3>2, <3>3 DEF Contents, RegsIn, Empty
  <2>3. /\ snap[s].bad \subseteq T \ {k}
        /\ (T \ {k}) \cup DOMAIN C \subseteq DOMAIN B /\ (T \ {k}) \cap DOMAIN C = {}
    BY <1>2, <1>4, <1>9
  <2>. QED
    BY <1>2, <1>3, <1>4, <1>5, <2>1, <2>2, <2>3 DEF CalledAt, B
<1>17. Calling'
  <2>1. \A d \in Calls \ {c} : call[d].agg # None => Still(call[d].agg)
    BY <1>3, <1>11, <1>15, AggregationAssumption DEF Box, IInv, Typed
  <2>2. Shaped' /\ Alone'
    <3>1. (\A d \in Calls : call'[d].agg = call[d].agg /\ call'[d].snap = call[d].snap) /\ snap' = snap
      BY <1>1, <1>2, <1>5
    <3>2. Shaped'
      BY <3>1 DEF IInv, Calling, Shaped
    <3>. QED
      BY <3>1, <3>2 DEF IInv, Calling, Alone
  <2>. QED
    BY <1>2, <1>11, <1>16, <2>1, <2>2, OneCallChanges
<1>. QED
  BY <1>13, <1>14, <1>15, <1>17 DEF IInv

\* MergeState returns: what it had built and not applied is dropped.
LEMMA ReturnIs ==
    ASSUME IInv, NEW c \in Calls, call[c].agg # None,
           NEW st \in {"merged", "refused"}, Return(c, st)
    PROVE  IInv'
<1>1. PICK s : s = call[c].snap
  OBVIOUS
<1>2. /\ snap' = [snap EXCEPT ![s].status = st]
      /\ call' = [call EXCEPT ![c] = Idle]
      /\ UNCHANGED <<colType, data, unread, groups, heap, live, fed, taken, before>>
      /\ Typed
  BY <1>1 DEF Return, IInv
<1>3. s \in Snaps /\ c \in Box /\ Box' = Box /\ c \notin live
  BY <1>1, <1>2, CallIs, AggregationAssumption DEF Box, Typed
<1>4. /\ snap' \in [Snaps -> SnapType]
      /\ \A t \in Snaps : snap'[t].groups = snap[t].groups /\ snap'[t].bad = snap[t].bad
      /\ \A t \in Snaps \ {s} : snap'[t] = snap[t]
  BY <1>2, <1>3 DEF Typed, SnapType
<1>5. call'[c] = Idle /\ \A d \in Calls \ {c} : call'[d] = call[d]
  BY <1>2 DEF Typed
<1>6. \A d \in Calls \ {c} :
          Stays(d) /\ (call[d].agg # None => call[d].agg \in live \ {call[c].agg})
  BY <1>1, <1>2, <1>4, <1>5, OtherCallsStay
<1>7. /\ Has'[c] = NoGroups /\ DOMAIN NoGroups = {} /\ Of'[c] = {}
      /\ \A b \in Box' \ {c} : Has'[b] = Has[b] /\ Of'[b] = Of[b]
  <2>1. \A b \in live : Has'[b] = Has[b] /\ Of'[b] = Of[b]
    BY <1>2, NextHas, TypedHas DEF Typed
  <2>2. \A t \in Snaps : Has'[t] = Has[t] /\ Of'[t] = Of[t]
    BY <1>2, <1>4, NextHas, TypedHas
  <2>3. \A d \in Calls \ {c} : Has'[d] = Has[d] /\ Of'[d] = Of[d]
    BY <1>2, <1>6, StaysSame
  <2>4. call'[c].accums = NoGroups /\ DOMAIN NoGroups = {}
    BY <1>5 DEF Idle, NoGroups
  <2>5. Has'[c] = NoGroups /\ Of'[c] = {}
    BY <2>4, NextHas
  <2>. QED
    BY <1>3, <2>1, <2>2, <2>3, <2>4, <2>5 DEF Box
\* The invariant.
<1>8. Typed'
  <2>1. Idle \in CallType
    BY GroupMapIs DEF Idle, CallType, NoGroups
  <2>2. call' \in [Calls -> CallType]
    BY <1>2, <2>1 DEF Typed
  <2>. QED
    BY <1>2, <1>4, <2>2, SameTypes DEF Typed
<1>9. Unread'
  BY <1>2, <1>3, <1>7 DEF IInv, Unread
<1>10. /\ Sketched' /\ Separate' /\ Totalled'
       /\ \A b \in Box' \ {c} : Still(b)
  <2>. DEFINE S == {}
  <2>1. heap' = Filled(Fresh({}), NoGroups)
    BY <1>2, NoneFilled
  <2>2. NoGroups \in [{} -> [Regs -> Nat]]
    BY DEF NoGroups
  <2>3. \A b \in Box' \ {c} : Kept(b)
    BY <1>3, <1>7, SameIsKept
  <2>4. DOMAIN Has'[c] = {data[q].key : q \in Of'[c]} /\ DOMAIN Has'[c] = {}
    BY <1>7
  <2>5. /\ UNCHANGED <<colType, data>> /\ Box' \subseteq Box /\ c \in Box'
        /\ S \in SUBSET DOMAIN Has'[c] /\ S \subseteq Keys
        /\ \A k \in S : /\ Has'[c][k].hll = Fresh(S)[k]
                        /\ IsGroup(colType, data, Has'[c][k], Of'[c], k)
                        /\ Distinct => IsRegs(NoGroups[k], ValsAt(data, Of'[c], k))
        /\ \A k \in DOMAIN Has'[c] \ S : \E d \in Box :
              /\ k \in DOMAIN Has[d] /\ Has'[c][k] = Has[d][k]
              /\ RowsAt(data, Of'[c], k) = RowsAt(data, Of[d], k)
              /\ d \in Box' \ {c} => k \notin DOMAIN Has'[d]
    BY <1>2, <1>3, <2>4
  <2>6. heap' = Filled(Fresh(S), NoGroups) /\ NoGroups \in [S -> [Regs -> Nat]]
    BY <2>1, <2>2
  <2>. HIDE DEF S
  <2>. QED
    BY <2>3, <2>4, <2>5, <2>6, OneBoxChanges
<1>11. Calling'
  <2>1. \A d \in Calls \ {c} : call[d].agg # None => Still(call[d].agg)
    BY <1>3, <1>6, <1>10 DEF Box
  <2>2. CalledAt(c)'
    BY <1>5 DEF CalledAt, Idle, NoGroups
  <2>3. Shaped'
    BY <1>4 DEF IInv, Calling, Shaped
  <2>4. Alone'
    <3>1. call'[c].agg = None
      BY <1>5 DEF Idle
    <3>. QED
      BY <1>5, <3>1 DEF IInv, Calling, Alone
  <2>. QED
    BY <1>2, <1>6, <2>1, <2>2, <2>3, <2>4, OneCallChanges
<1>. QED
  BY <1>8, <1>9, <1>10, <1>11 DEF IInv

\* What is the same whether the group of key k is merged or inserted: a is the
\* aggregator of the call c, and s its state.
Applies(c, k, a, s) ==
    /\ a = call[c].agg /\ a \in live /\ a \in Box /\ a # c /\ c \in Box /\ Box' = Box
    /\ k \in DOMAIN Has[c] /\ k \notin DOMAIN Has'[c]
    /\ Has[a] = groups[a] /\ Of[a] = fed[a] /\ Of[a] \cap Of[c] = {}
    /\ Has'[a] = groups'[a] /\ Of'[a] \in SUBSET Rows
    /\ RowsAt(data, Of'[a], k) = RowsAt(data, Of[a] \cup Of[c], k)
    /\ \A j : j # k => RowsAt(data, Of'[a], j) = RowsAt(data, Of[a], j)
    /\ {data[r].key : r \in Of'[a]} = {data[r].key : r \in Of[a]} \cup {k}
    /\ \A b \in Box' \ {a} : Kept(b)
    /\ call' \in [Calls -> CallType] /\ fed' \in [Aggs -> SUBSET Rows]
    /\ Unread' /\ CalledAt(c)' /\ Alone' /\ Shaped'
    /\ \A d \in Calls \ {c} : Stays(d) /\ (call[d].agg # None => call[d].agg \in live \ {a})

\* The accumulator leaves the list of the call; its rows are now the aggregator's.
LEMMA ApplyIs ==
    ASSUME IInv, NEW c \in Calls, NEW k \in Keys, Apply(c, k),
           \A b \in live \ {call[c].agg} : groups'[b] = groups[b]
    PROVE  \E a \in Aggs, s \in Snaps : Applies(c, k, a, s)
<1>1. PICK a, s : a = call[c].agg /\ s = call[c].snap
  OBVIOUS
<1>. DEFINE A == call[c].accums
            W == RowsWith(taken[s], k)
            C == Restrict(A, DOMAIN A \ {k})
            R == {r \in Rows : r \in taken[s] /\ data[r].key \in DOMAIN A \ {k}}
<1>2. /\ a # None /\ call[c].todo = {} /\ k \in DOMAIN A
      /\ call' = [call EXCEPT ![c].accums = C]
      /\ fed' = [fed EXCEPT ![a] = fed[a] \cup W]
      /\ UNCHANGED <<colType, data, unread, live, snap, taken, before>>
      /\ Typed
  BY <1>1 DEF Apply, IInv
<1>3. /\ a \in live /\ a \in Aggs /\ s \in Snaps /\ s \in Box /\ c \in Box /\ a \in Box /\ Box' = Box
      /\ a # c /\ CalledAt(c) /\ call[c] # Idle
  BY <1>1, <1>2, CallIs, AggregationAssumption DEF IInv, Calling, Typed, Box, Idle
<1>4. /\ snap[s].status = "merging" /\ snap[s].bad = {}
      /\ DOMAIN A \subseteq DOMAIN snap[s].groups
      /\ before[c].rows \cap taken[s] = {}
      /\ Left(c) = {r \in taken[s] : data[r].key \in DOMAIN A}
      /\ fed[a] = before[c].rows \cup (taken[s] \ Left(c))
  BY <1>1, <1>2, <1>3 DEF CalledAt, Left
<1>5. /\ call'[c].agg = a /\ call'[c].snap = s /\ call'[c].todo = {} /\ call'[c].accums = C
      /\ (\A d \in Calls \ {c} : call'[d] = call[d])
      /\ fed'[a] = fed[a] \cup W /\ \A b \in Aggs \ {a} : fed'[b] = fed[b]
  BY <1>1, <1>2, <1>3 DEF Typed, CallType
<1>6. /\ Has[c] = A /\ Of[c] = {r \in Rows : r \in taken[s] /\ data[r].key \in DOMAIN A}
      /\ Has[a] = groups[a] /\ Of[a] = fed[a] /\ fed[a] \in SUBSET Rows
      /\ A \in GroupMaps /\ DOMAIN A \subseteq Keys /\ (\A j \in DOMAIN A : A[j] \in Fields)
      /\ DOMAIN snap[s].groups = {data[r].key : r \in taken[s]} /\ taken[s] \in SUBSET Rows
  <2>1. /\ Has[c] = A /\ Of[c] = Built(c) /\ Has[s] = snap[s].groups /\ Of[s] = taken[s]
        /\ Has[a] = groups[a] /\ Of[a] = fed[a]
    BY <1>2, <1>3, TypedHas
  <2>2. Of[c] = {r \in Rows : r \in taken[s] /\ data[r].key \in DOMAIN A}
    BY <1>1, <2>1 DEF Built
  <2>3. A \in GroupMaps /\ DOMAIN A \subseteq Keys /\ (\A j \in DOMAIN A : A[j] \in Fields)
    BY <1>3, <2>1, Boxes
  <2>4. /\ taken[s] \in SUBSET Rows /\ DOMAIN snap[s].groups = {data[r].key : r \in taken[s]}
        /\ fed[a] \in SUBSET Rows
    BY <1>3, <2>1, Boxes
  <2>. QED
    BY <2>1, <2>2, <2>3, <2>4
<1>7. /\ C \in GroupMaps /\ DOMAIN C = DOMAIN A \ {k} /\ \A j \in DOMAIN C : C[j] = A[j]
  <2>1. /\ C = [j \in DOMAIN C |-> C[j]] /\ DOMAIN C = DOMAIN A \ {k}
        /\ \A j \in DOMAIN C : C[j] = A[j]
    BY DEF Restrict
  <2>. HIDE DEF C, A
  <2>. QED
    BY <1>6, <2>1, GroupMapIs
<1>. HIDE DEF C, A
<1>8. /\ R \in SUBSET Rows /\ R \subseteq Of[c]
      /\ \A j \in DOMAIN C : RowsAt(data, R, j) = RowsAt(data, Of[c], j)
      /\ {data[r].key : r \in R} = DOMAIN C
  <2>1. R \in SUBSET Rows /\ R \subseteq Of[c]
    BY <1>6
  <2>2. \A j \in DOMAIN C : RowsAt(data, R, j) = RowsAt(data, Of[c], j)
    BY <1>6, <1>7 DEF RowsAt
  <2>3. \A j \in DOMAIN C : \E r \in taken[s] : r \in Rows /\ j = data[r].key
    BY <1>4, <1>6, <1>7
  <2>4. {data[r].key : r \in R} = DOMAIN C
    BY <1>7, <2>3
  <2>. QED
    BY <2>1, <2>2, <2>4
<1>9. /\ W \in SUBSET Rows /\ (\A r \in W : data[r].key = k /\ r \in Of[c]) /\ W # {}
      /\ RowsAt(data, fed[a] \cup W, k) = RowsAt(data, fed[a] \cup Of[c], k)
      /\ \A j : j # k => RowsAt(data, fed[a] \cup W, j) = RowsAt(data, fed[a], j)
      /\ {data[r].key : r \in fed[a] \cup W} = {data[r].key : r \in fed[a]} \cup {k}
  <2>1. W \in SUBSET Rows /\ (\A r \in W : data[r].key = k /\ r \in Of[c])
    BY <1>2, <1>6 DEF RowsWith
  <2>2. \E r \in W : TRUE
    <3>1. \E r \in taken[s] : data[r].key = k
      BY <1>2, <1>4, <1>6
    <3>. QED
      BY <3>1 DEF RowsWith
  <2>3. \A r \in Of[c] : data[r].key = k => r \in W
    BY <1>6 DEF RowsWith
  <2>. HIDE DEF W
  <2>4. RowsAt(data, fed[a] \cup W, k) = RowsAt(data, fed[a] \cup Of[c], k)
    BY <2>1, <2>3 DEF RowsAt
  <2>5. \A j : j # k => RowsAt(data, fed[a] \cup W, j) = RowsAt(data, fed[a], j)
    BY <2>1 DEF RowsAt
  <2>6. {data[r].key : r \in fed[a] \cup W} = {data[r].key : r \in fed[a]} \cup {k}
    BY <2>1, <2>2
  <2>. QED
    BY <2>1, <2>2, <2>4, <2>5, <2>6
<1>10. Of[a] \cap Of[c] = {}
  BY <1>4, <1>6
<1>11. \A d \in Calls \ {c} : Stays(d) /\ (call[d].agg # None => call[d].agg \in live \ {a})
  <2>1. /\ \A d \in Calls \ {c} : call'[d] = call[d] /\ before'[d] = before[d]
        /\ \A b \in live \ {a} : groups'[b] = groups[b] /\ fed'[b] = fed[b]
        /\ \A t \in Snaps \ {s} : snap'[t] = snap[t]
        /\ UNCHANGED <<live, taken>>
    BY <1>1, <1>2, <1>5 DEF Typed
  <2>. QED
    BY <1>1, <1>2, <2>1, OtherCallsStay
<1>12. /\ Has'[a] = groups'[a] /\ Of'[a] = fed[a] \cup W
       /\ Has'[c] = C /\ Of'[c] = R
       /\ \A b \in Box' \ {a, c} : Has'[b] = Has[b] /\ Of'[b] = Of[b]
  <2>1. \A b \in live \ {a} : Has'[b] = Has[b] /\ Of'[b] = Of[b]
    <3>1. \A b \in live \ {a} : b \in Aggs /\ groups'[b] = groups[b] /\ fed'[b] = fed[b]
      BY <1>1, <1>2, <1>5 DEF Typed
    <3>. QED
      BY <1>2, <3>1, NextHas, TypedHas
  <2>2. \A t \in Snaps : Has'[t] = Has[t] /\ Of'[t] = Of[t]
    BY <1>2, NextHas, TypedHas
  <2>3. \A d \in Calls \ {c} : Has'[d] = Has[d] /\ Of'[d] = Of[d]
    BY <1>2, <1>11, StaysSame
  <2>4. Has'[c] = C /\ Of'[c] = R
    BY <1>2, <1>5, <1>7, NextHas
  <2>5. Has'[a] = groups'[a] /\ Of'[a] = fed[a] \cup W
    BY <1>3, <1>5, NextHas
  <2>. QED
    BY <1>3, <2>1, <2>2, <2>3, <2>4, <2>5 DEF Box
<1>. HIDE DEF W, R
<1>13. \A b \in Box' \ {a} : Kept(b)
  <2>1. Kept(c)
    BY <1>6, <1>7, <1>8, <1>12 DEF Kept
  <2>2. \A b \in Box' \ {a, c} : Kept(b)
    BY <1>3, <1>12, SameIsKept
  <2>. QED
    BY <2>1, <2>2
<1>14. Unread'
  <2>1. \A b \in Box : Of[b] \cap unread = {}
    BY DEF IInv, Unread
  <2>2. Of'[a] \cap unread = {} /\ Of'[c] \cap unread = {}
    BY <1>3, <1>6, <1>8, <1>9, <1>12, <2>1
  <2>3. \A b \in Box' \ {a, c} : Of'[b] \cap unread = {}
    BY <1>3, <1>12, <2>1
  <2>. QED
    BY <1>2, <2>2, <2>3 DEF Unread
<1>15. call' \in [Calls -> CallType] /\ fed' \in [Aggs -> SUBSET Rows]
  <2>1. call' = [call EXCEPT ![c] = [call[c] EXCEPT !.accums = C]] /\ call \in [Calls -> CallType]
    BY <1>2 DEF Typed
  <2>2. [call[c] EXCEPT !.accums = C] \in CallType
    BY <1>7, <2>1 DEF CallType
  <2>3. fed[a] \cup W \in SUBSET Rows
    BY <1>6, <1>9
  <2>. QED
    BY <1>2, <2>1, <2>2, <2>3 DEF Typed
<1>16. CalledAt(c)'
  <2>1. Left(c)' = Left(c) \ W
    <3>1. Left(c)' = {r \in taken[s] : data[r].key \in DOMAIN A \ {k}}
      BY <1>2, <1>5, <1>7 DEF Left
    <3>. QED
      BY <1>4, <3>1 DEF W, RowsWith
  <2>2. W \subseteq taken[s]
    BY DEF W, RowsWith
  <2>3. fed'[a] = before[c].rows \cup (taken[s] \ Left(c)')
    BY <1>4, <1>5, <2>1, <2>2
  <2>4. UNCHANGED <<live, snap, taken, before>> /\ DOMAIN C \subseteq DOMAIN snap[s].groups
    BY <1>2, <1>4, <1>7
  <2>. QED
    BY <1>3, <1>4, <1>5, <2>3, <2>4 DEF CalledAt
<1>17. Alone' /\ Shaped'
  <2>1. (\A d \in Calls : call'[d].agg = call[d].agg /\ call'[d].snap = call[d].snap) /\ snap' = snap
    BY <1>1, <1>2, <1>5
  <2>2. Shaped'
    BY <2>1 DEF IInv, Calling, Shaped
  <2>. QED
    BY <2>1, <2>2 DEF IInv, Calling, Alone
<1>18. k \in DOMAIN Has[c] /\ k \notin DOMAIN Has'[c] /\ Of'[a] \in SUBSET Rows
  BY <1>2, <1>6, <1>7, <1>9, <1>12 DEF A
<1>19. Applies(c, k, a, s)
  BY <1>1, <1>3, <1>6, <1>9, <1>10, <1>11, <1>12, <1>13, <1>14, <1>15, <1>16, <1>17, <1>18 DEF Applies
<1>. QED
  BY <1>3, <1>19

\* A step of the second loop: the aggregator gets the group of key k, from a sketch of
\* its own or with the one the call had built, and keeps its others.
LEMMA AppliedIs ==
    ASSUME IInv, NEW c \in Calls, NEW k \in Keys, NEW a \in Aggs, NEW s \in Snaps,
           Apply(c, k), Applies(c, k, a, s), groups' \in [Aggs -> GroupMaps],
           DOMAIN Has'[a] = DOMAIN Has[a] \cup {k},
           \A j \in DOMAIN Has[a] \ {k} : Has'[a][j] = Has[a][j],
           NEW S \in SUBSET {k}, NEW new, Distinct => new \in [S -> [Regs -> Nat]],
           heap' = Filled(Fresh(S), new),
           \A j \in S : /\ Has'[a][j].hll = Fresh(S)[j]
                        /\ IsGroup(colType, data, Has'[a][j], Of'[a], j)
                        /\ Distinct => IsRegs(new[j], ValsAt(data, Of'[a], j)),
           k \notin S => k \notin DOMAIN Has[a] /\ Has'[a][k] = Has[c][k]
    PROVE  IInv'
<1>1. /\ UNCHANGED <<colType, data, unread, live, snap, taken, before>>
      /\ call[c].agg = a /\ a # None
      /\ Typed /\ S \in SUBSET Keys
  BY DEF Apply, Applies, IInv
<1>2. /\ a \in live /\ a \in Box /\ a # c /\ c \in Box /\ Box' = Box
      /\ DOMAIN Has[a] = {data[r].key : r \in Of[a]}
  BY Boxes DEF Applies
<1>3. Typed'
  <2>1. heap' \in [1 .. NSketches -> [Regs -> Nat]]
    BY <1>1, HeapTyped
  <2>2. call' \in [Calls -> CallType] /\ fed' \in [Aggs -> SUBSET Rows]
    BY DEF Applies
  <2>. QED
    BY <1>1, <2>1, <2>2, SameTypes DEF Typed
<1>4. /\ Sketched' /\ Separate' /\ Totalled'
      /\ \A b \in Box' \ {a} : Still(b)
  <2>1. /\ UNCHANGED <<colType, data>> /\ Box' \subseteq Box /\ a \in Box'
        /\ S \in SUBSET DOMAIN Has'[a] /\ S \subseteq Keys
    BY <1>1, <1>2
  <2>2. DOMAIN Has'[a] = {data[q].key : q \in Of'[a]}
    BY <1>2 DEF Applies
  <2>3. ASSUME NEW j \in DOMAIN Has'[a] \ S
        PROVE  \E b \in Box : /\ j \in DOMAIN Has[b] /\ Has'[a][j] = Has[b][j]
                              /\ RowsAt(data, Of'[a], j) = RowsAt(data, Of[b], j)
                              /\ b \in Box' \ {a} => j \notin DOMAIN Has'[b]
    <3>1. CASE j # k
      <4>1. RowsAt(data, Of'[a], j) = RowsAt(data, Of[a], j)
        BY <3>1 DEF Applies
      <4>2. j \in DOMAIN Has[a] /\ Has'[a][j] = Has[a][j]
        BY <2>3, <3>1
      <4>. QED
        BY <1>2, <4>1, <4>2
    <3>2. CASE j = k
      <4>1. k \notin DOMAIN Has[a] /\ Has'[a][k] = Has[c][k]
        BY <2>3, <3>2
      <4>2. \A r \in Of[a] : data[r].key # k
        BY <1>2, <4>1
      <4>3. RowsAt(data, Of'[a], k) = RowsAt(data, Of[c], k)
        <5>1. RowsAt(data, Of'[a], k) = RowsAt(data, Of[a] \cup Of[c], k)
          BY DEF Applies
        <5>2. RowsAt(data, Of[a] \cup Of[c], k) = RowsAt(data, Of[c], k)
          BY <4>2 DEF RowsAt
        <5>. QED
          BY <5>1, <5>2
      <4>4. k \in DOMAIN Has[c] /\ k \notin DOMAIN Has'[c]
        BY DEF Applies
      <4>. QED
        BY <1>2, <3>2, <4>1, <4>3, <4>4
    <3>. QED
      BY <3>1, <3>2
  <2>4. \A b \in Box' \ {a} : Kept(b)
    BY DEF Applies
  <2>. QED
    BY <2>1, <2>2, <2>3, <2>4, OneBoxChanges
<1>5. Calling'
  <2>1. \A d \in Calls \ {c} : Stays(d) /\ (call[d].agg # None => call[d].agg \in live \ {a})
    BY DEF Applies
  <2>2. \A d \in Calls \ {c} : Stays(d) /\ (call[d].agg # None => Still(call[d].agg))
    BY <1>2, <1>4, <2>1 DEF Box
  <2>3. CalledAt(c)' /\ Alone' /\ Shaped'
    BY DEF Applies
  <2>. QED
    BY <1>1, <2>2, <2>3, OneCallChanges
<1>6. Unread'
  BY DEF Applies
<1>. QED
  BY <1>3, <1>4, <1>5, <1>6 DEF IInv

\* The group exists: it is combined with the accumulator of the call.
LEMMA MergeIntoGroupIs ==
    ASSUME IInv, NEW c \in Calls, NEW k \in Keys, MergeIntoGroup(c, k)
    PROVE  IInv'
<1>1. PICK b : b = call[c].agg
  OBVIOUS
<1>. DEFINE A == groups[b]
            new == call[c].accums
            f == Fresh({k})
            q == MergeAccum(A[k], new[k], f[k])
            regs == [j \in {k} |-> HllMerge(RegsIn(A, k), RegsIn(new, k))]
<1>2. /\ Apply(c, k) /\ k \in DOMAIN A
      /\ groups' = [groups EXCEPT ![b][k] = q]
      /\ heap' = Filled(f, regs)
      /\ Typed
  BY <1>1 DEF MergeIntoGroup, IInv
<1>3. \A d \in live \ {call[c].agg} : groups'[d] = groups[d]
  BY <1>1, <1>2 DEF Typed
<1>4. PICK a \in Aggs, s \in Snaps : Applies(c, k, a, s)
  BY <1>2, <1>3, ApplyIs
<1>5. a = b /\ Has[a] = A /\ Has[c] = new /\ a \in Box /\ c \in Box /\ Has'[a] = groups'[a]
  BY <1>1, <1>2, <1>4, TypedHas DEF Applies
<1>6. /\ q \in Fields /\ q.hll = f[k]
      /\ IsGroup(colType, data, q, Of'[a], k)
      /\ Distinct => IsRegs(regs[k], ValsAt(data, Of'[a], k))
  <2>1. f[k] \in (1 .. NSketches) \cup {None}
    BY <1>2, FreshIds
  <2>2. /\ Of[a] \cap Of[c] = {} /\ k \in DOMAIN Has[a] /\ k \in DOMAIN Has[c]
        /\ RowsAt(data, Of'[a], k) = RowsAt(data, Of[a] \cup Of[c], k)
    BY <1>2, <1>4, <1>5 DEF Applies
  <2>3. ValsAt(data, Of'[a], k) = ValsAt(data, Of[a] \cup Of[c], k)
    BY <2>2 DEF ValsAt
  <2>4. regs[k] = HllMerge(RegsIn(A, k), RegsIn(new, k))
    OBVIOUS
  <2>5. PICK id : id = f[k]
    OBVIOUS
  <2>. HIDE DEF A, new, f, regs
  <2>6. Pooled(a, c, k, id)
    BY <1>5, <2>1, <2>2, <2>5, Combined
  <2>7. /\ q \in Fields /\ q.hll = id
        /\ IsGroup(colType, data, q, Of[a] \cup Of[c], k)
        /\ Distinct => IsRegs(regs[k], ValsAt(data, Of[a] \cup Of[c], k))
    BY <1>5, <2>4, <2>5, <2>6 DEF Pooled
  <2>. QED
    BY <2>2, <2>3, <2>5, <2>7, SameRows
<1>. HIDE DEF f, q
<1>7. /\ groups' \in [Aggs -> GroupMaps]
      /\ DOMAIN groups'[a] = DOMAIN A \cup {k} /\ groups'[a][k] = q
      /\ \A j \in DOMAIN A \ {k} : groups'[a][j] = A[j]
  <2>1. /\ groups' = [groups EXCEPT ![a] = [A EXCEPT ![k] = q]]
        /\ groups \in [Aggs -> GroupMaps]
    BY <1>2, <1>5 DEF Typed
  <2>2. A \in GroupMaps
    BY <1>5, <2>1
  <2>3. [A EXCEPT ![k] = q] \in GroupMaps
    <3>. HIDE DEF A
    <3>. QED
      BY <1>6, <2>2, GroupMapIs
  <2>. QED
    BY <1>2, <2>1, <2>3
<1>8. Distinct => regs \in [{k} -> [Regs -> Nat]]
  <2>1. regs = [j \in {k} |-> regs[j]] /\ \A j \in {k} : regs[j] = regs[k]
    OBVIOUS
  <2>. HIDE DEF regs
  <2>. QED
    BY <1>6, <2>1 DEF IsRegs
<1>. HIDE DEF A, new, regs
<1>9. /\ DOMAIN Has'[a] = DOMAIN Has[a] \cup {k}
      /\ \A j \in DOMAIN Has[a] \ {k} : Has'[a][j] = Has[a][j]
      /\ groups' \in [Aggs -> GroupMaps] /\ Apply(c, k)
  BY <1>2, <1>5, <1>7
<1>10. PICK S \in SUBSET {k} : S = {k}
  OBVIOUS
<1>11. PICK r : r = regs
  OBVIOUS
<1>12. /\ heap' = Filled(Fresh(S), r) /\ k \in S
       /\ Distinct => r \in [S -> [Regs -> Nat]]
  BY <1>2, <1>8, <1>10, <1>11 DEF f
<1>13. \A j \in S : /\ Has'[a][j].hll = Fresh(S)[j]
                    /\ IsGroup(colType, data, Has'[a][j], Of'[a], j)
                    /\ Distinct => IsRegs(r[j], ValsAt(data, Of'[a], j))
  BY <1>5, <1>6, <1>7, <1>10, <1>11 DEF f
<1>. QED
  BY <1>4, <1>9, <1>12, <1>13, AppliedIs

\* The group is new: it is the accumulator of the call, with its sketch.
LEMMA InsertGroupIs ==
    ASSUME IInv, NEW c \in Calls, NEW k \in Keys, InsertGroup(c, k)
    PROVE  IInv'
<1>1. PICK b : b = call[c].agg
  OBVIOUS
<1>. DEFINE A == groups[b]
            g == call[c].accums[k]
            C == [j \in DOMAIN A \cup {k} |-> IF j = k THEN g ELSE A[j]]
<1>2. /\ Apply(c, k) /\ k \notin DOMAIN A
      /\ groups' = [groups EXCEPT ![b] = C]
      /\ heap' = heap
      /\ Typed
  BY <1>1 DEF InsertGroup, IInv
<1>3. \A d \in live \ {call[c].agg} : groups'[d] = groups[d]
  BY <1>1, <1>2 DEF Typed
<1>4. PICK a \in Aggs, s \in Snaps : Applies(c, k, a, s)
  BY <1>2, <1>3, ApplyIs
<1>5. /\ a = b /\ Has[a] = A /\ Has[c] = call[c].accums /\ k \in DOMAIN Has[c]
      /\ a \in Box /\ c \in Box /\ Has'[a] = groups'[a]
  BY <1>1, <1>2, <1>4, TypedHas DEF Applies
<1>6. /\ C \in GroupMaps /\ DOMAIN C = DOMAIN A \cup {k} /\ C[k] = g
      /\ \A j \in DOMAIN A \ {k} : C[j] = A[j]
  <2>1. g \in Fields /\ DOMAIN A \subseteq Keys /\ \A j \in DOMAIN A : A[j] \in Fields
    BY <1>5, Boxes
  <2>2. /\ C = [j \in DOMAIN C |-> C[j]] /\ DOMAIN C = DOMAIN A \cup {k} /\ C[k] = g
        /\ \A j \in DOMAIN A \ {k} : C[j] = A[j]
    OBVIOUS
  <2>. HIDE DEF C, A, g
  <2>3. \A j \in DOMAIN C : C[j] \in Fields
    BY <2>1, <2>2
  <2>. QED
    BY <2>1, <2>2, <2>3, GroupMapIs
<1>. HIDE DEF C, A
<1>7. groups' \in [Aggs -> GroupMaps] /\ groups'[a] = C
  BY <1>2, <1>5, <1>6 DEF Typed
<1>. DEFINE S == {}
<1>8. /\ S \in SUBSET {k} /\ heap' = Filled(Fresh(S), NoGroups)
      /\ NoGroups \in [S -> [Regs -> Nat]]
      /\ \A j \in S : /\ Has'[a][j].hll = Fresh(S)[j]
                      /\ IsGroup(colType, data, Has'[a][j], Of'[a], j)
                      /\ Distinct => IsRegs(NoGroups[j], ValsAt(data, Of'[a], j))
  BY <1>2, NoneFilled DEF NoGroups
<1>9. /\ DOMAIN Has'[a] = DOMAIN Has[a] \cup {k}
      /\ \A j \in DOMAIN Has[a] \ {k} : Has'[a][j] = Has[a][j]
      /\ k \notin DOMAIN Has[a] /\ Has'[a][k] = Has[c][k]
  BY <1>2, <1>5, <1>6, <1>7
<1>. HIDE DEF S
<1>. QED
  BY <1>2, <1>4, <1>7, <1>8, <1>9, AppliedIs

-----------------------------------------------------------------------------
(* The theorems. *)

\* Whatever Add, Merge, ExportState and MergeState do, in any order, the inductive
\* invariant holds.
THEOREM Invariance == Spec => []IInv
<1>1. IInv /\ [Next]_vars => IInv'
  <2>. SUFFICES ASSUME IInv, [Next]_vars PROVE IInv'
    OBVIOUS
  <2>1. ASSUME NEW a \in Aggs, NEW r \in Rows, AddToGroup(a, r) PROVE IInv'
    BY <2>1, AddToGroupIs
  <2>2. ASSUME NEW a \in Aggs, NEW r \in Rows, AddNewGroup(a, r) PROVE IInv'
    BY <2>2, AddNewGroupIs
  <2>3. ASSUME NEW a \in Aggs, NEW other \in Aggs, Merge(a, other) PROVE IInv'
    BY <2>3, MergeIs
  <2>4. ASSUME NEW a \in Aggs, NEW s \in Snaps, ExportState(a, s) PROVE IInv'
    BY <2>4, ExportStateIs
  <2>5. ASSUME NEW s \in Snaps, Misshape(s) PROVE IInv'
    BY <2>5, MisshapeIs
  <2>6. ASSUME NEW c \in Calls, NEW a \in Aggs, NEW s \in Snaps, BeginMergeState(c, a, s)
        PROVE  IInv'
    BY <2>6, BeginMergeStateIs
  <2>7. ASSUME NEW c \in Calls, NEW k \in Keys, StateToGroupAccum(c, k) PROVE IInv'
    BY <2>7, StateToGroupAccumIs
  <2>8. ASSUME NEW c \in Calls, NEW k \in Keys, MergeIntoGroup(c, k) PROVE IInv'
    BY <2>8, MergeIntoGroupIs
  <2>9. ASSUME NEW c \in Calls, NEW k \in Keys, InsertGroup(c, k) PROVE IInv'
    BY <2>9, InsertGroupIs
  <2>10. ASSUME NEW c \in Calls, MergeStateFails(c) PROVE IInv'
    BY <2>10, ReturnIs DEF MergeStateFails
  <2>11. ASSUME NEW c \in Calls, EndMergeState(c) PROVE IInv'
    BY <2>11, ReturnIs DEF EndMergeState
  <2>12. CASE UNCHANGED vars
    <3>1. Box' = Box /\ \A b \in Box : Has'[b] = Has[b] /\ Of'[b] = Of[b]
      <4>1. Has' = Has /\ (\A c \in Calls : Built(c)' = Built(c))
        BY <2>12 DEF vars, Has, Built
      <4>. QED
        BY <2>12, <4>1 DEF vars, Of, Box
    <3>2. Unread' /\ Sketched' /\ Separate' /\ Totalled' /\ \A b \in Box : Still(b)
      BY <2>12, <3>1, NoBoxChanges DEF vars
    <3>3. Typed'
      BY <2>12, SameTypes DEF vars, IInv, Typed
    <3>4. Calling'
      <4>1. \A c \in Calls : Stays(c)
        BY <2>12, CallIs DEF vars, Stays
      <4>2. Shaped'
        BY <2>12 DEF vars, IInv, Calling, Shaped
      <4>3. PICK A \in SUBSET Aggs : A = {}
        OBVIOUS
      <4>4. (\A b \in live \ A : Still(b)) /\ \A b \in A : ~Busy(b)
        BY <3>2, <4>3 DEF Box
      <4>5. UNCHANGED <<data, call>>
        BY <2>12 DEF vars
      <4>. QED
        BY <4>1, <4>2, <4>4, <4>5, NoCallChanges
    <3>. QED
      BY <3>2, <3>3, <3>4 DEF IInv
  <2>. QED
    BY <2>1, <2>2, <2>3, <2>4, <2>5, <2>6, <2>7, <2>8, <2>9, <2>10, <2>11, <2>12 DEF Next
<1>. QED
  BY <1>1, InitIs, PTL DEF Spec

\* The shape of the state; that an allocation finds a free sketch is part of it, and
\* that no accumulator is built for a state that is still to be validated.
THEOREM TypeCorrect == Spec => []TypeOK
<1>1. IInv => TypeOK
  <2>. SUFFICES ASSUME IInv PROVE TypeOK
    OBVIOUS
  <2>1. \A S \in GroupMaps : DOMAIN S \subseteq Keys /\ Range(S) \subseteq Fields
    BY DEF GroupMaps, Range
  <2>2. Typed
    BY DEF IInv
  <2>3. \A s \in Snaps : snap[s] \in SnapType
    BY <2>2 DEF Typed
  <2>4. ASSUME NEW c \in Calls
        PROVE  /\ call[c].agg \in live \cup {None}
               /\ call[c].todo \cap DOMAIN call[c].accums = {}
               /\ call[c].todo \cup DOMAIN call[c].accums \subseteq Keys
               /\ Range(call[c].accums) \subseteq Fields
    <3>1. call[c] \in CallType /\ CalledAt(c)
      BY <2>2 DEF Typed, IInv, Calling
    <3>2. call[c].todo \subseteq Keys /\ call[c].accums \in GroupMaps
      BY <3>1 DEF CallType
    <3>3. call[c].agg \in live \cup {None} /\ call[c].todo \cap DOMAIN call[c].accums = {}
      BY <3>1 DEF CalledAt, Idle, NoGroups
    <3>. QED
      BY <2>1, <3>2, <3>3
  <2>. QED
    BY <2>1, <2>2, <2>3, <2>4 DEF Typed, SnapType, TypeOK
<1>. QED
  BY <1>1, Invariance, PTL

\* No two accumulators in use share their registers: not two groups, not two
\* aggregators after a Merge moved groups, not an exported state and its source
\* (state.go:49-50), the accumulators a MergeState has built from it (state.go:172) or
\* its destination (state.go:94-95).
THEOREM SketchesAreOwned == Spec => []Unshared
<1>1. IInv => Unshared
  <2>. SUFFICES ASSUME IInv PROVE Unshared
    OBVIOUS
  <2>. DEFINE HeldBy(b) == CASE b \in live  -> groups[b]
                             [] b \in Snaps -> snap[b].groups
                             [] OTHER       -> call[b].accums
  <2>1. /\ \A b \in live : b \notin Snaps
        /\ \A c \in Calls : c \notin live /\ c \notin Snaps
    BY AggregationAssumption DEF IInv, Typed
  <2>2. \A b \in Box : HeldBy(b) = Has[b]
    BY <2>1, TypedHas DEF IInv, Box
  <2>. HIDE DEF HeldBy
  <2>3. Distinct => \A b, d \in Box : \A k \in DOMAIN HeldBy(b), l \in DOMAIN HeldBy(d) :
                       HeldBy(b)[k].hll = HeldBy(d)[l].hll => b = d /\ k = l
    BY <2>2 DEF IInv, Separate
  <2>. QED
    BY <2>3 DEF Unshared, Box, HeldBy
<1>. QED
  BY <1>1, Invariance, PTL

\* However the rows were shared out, read, merged and shipped, the groups of an
\* aggregator, their counts, sums, extremes and registers are those of one pass over
\* its rows (accumulator.go:94-96, hyperloglog.go:108-110), and an exported state stays
\* the one of the rows that were in it when it was taken (state.go:16-18).
THEOREM TotalsAreExact == Spec => []Exact
<1>1. IInv => Exact
  <2>. SUFFICES ASSUME IInv PROVE Exact
    OBVIOUS
  <2>1. ASSUME NEW b \in Box
        PROVE  IsTotalOf(Has[b], Of[b])
    <3>1. ASSUME NEW k \in DOMAIN Has[b], NEW Rk, Rk = RowsWith(Of[b], k)
          PROVE  /\ Has[b][k].count = Cardinality(Rk)
                 /\ Has[b][k].sum = SumOf(Rk)
                 /\ Has[b][k].haveMinMax = (colType # "string")
                 /\ Has[b][k].haveMinMax => /\ Has[b][k].min = Least(ValsOf(Rk))
                                            /\ Has[b][k].max = Greatest(ValsOf(Rk))
                 /\ Distinct => heap[Has[b][k].hll] = RegsOf(Rk)
      <4>. DEFINE g == Has[b][k]
                  V == ValsAt(data, Of[b], k)
      <4>1. Rk = RowsAt(data, Of[b], k) /\ ValsOf(Rk) = V
        BY <3>1 DEF RowsWith, RowsAt, ValsAt, ValsOf
      <4>2. /\ Typed /\ V \in SUBSET Vals[colType] /\ g \in Fields
            /\ IsAccum(colType, g, V, Cardinality(Rk)) /\ IsSum(colType, g.sum, data, Rk)
            /\ Distinct => IsRegs(heap[g.hll], V)
            /\ IsFiniteSet(Rk) /\ Rk \subseteq Rows
        <5>1. Typed /\ Of[b] \in SUBSET Rows
          BY <2>1, Boxes DEF IInv
        <5>2. /\ g \in Fields /\ IsGroup(colType, data, g, Of[b], k)
              /\ Distinct => IsRegs(heap[g.hll], V)
          BY <2>1, <3>1, Boxes DEF RegsIn
        <5>3. V \in SUBSET Vals[colType] /\ IsFiniteSet(Rk) /\ Rk \subseteq Rows
          BY <4>1, <5>1, RowsAre DEF RowsAt
        <5>. QED
          BY <4>1, <5>1, <5>2, <5>3 DEF IsGroup
      <4>. HIDE DEF g, V
      <4>3. g.haveMinMax \in BOOLEAN
        BY <4>2 DEF Fields
      <4>4. ASSUME g.haveMinMax
            PROVE  g.min = Least(V) /\ g.max = Greatest(V)
        <5>1. V \in SUBSET Numbers
          BY <4>2, <4>4, ValuesAre DEF IsAccum
        <5>2. IsLeast(colType, g.min, V) /\ IsGreatest(colType, g.max, V)
          BY <4>2, <4>4 DEF IsAccum
        <5>. QED
          BY <5>1, <5>2, LeastIs, GreatestIs
      <4>5. Distinct => heap[g.hll] = RegsOf(Rk)
        BY <4>1, <4>2, RegsAre DEF RegsOf, Runs
      <4>6. g.count = Cardinality(Rk) /\ g.haveMinMax = (colType # "string")
        BY <4>2, <4>3 DEF IsAccum
      <4>7. g.sum = SumOf(Rk)
        <5>1. colType \in {"int64", "float64", "string"}
          BY <4>2, AggregationAssumption DEF Typed
        <5>2. colType # "string" => \A r \in Rk : data[r].val \in Numbers
          BY <4>2, ValuesAre DEF Typed
        <5>. QED
          BY <4>2, <5>1, <5>2, SumIs
      <4>. QED
        BY <4>1, <4>4, <4>5, <4>6, <4>7 DEF g
    <3>2. DOMAIN Has[b] = {data[r].key : r \in Of[b]}
      BY Boxes
    <3>. QED
      BY <3>1, <3>2 DEF IsTotalOf
  <2>. QED
    BY <2>1, TypedHas DEF Exact, Box, IInv
<1>. QED
  BY <1>1, Invariance, PTL

\* A MergeState that returns has either refused its states, and left its aggregator as
\* it was when the call began, groups, registers and rows (state.go:97-99), though other
\* goroutines have done what they like in between; or it has put every row of its states
\* in, once, and none of them had a wrong shape.
THEOREM MergeIsAllOrNothing == Spec => MergedOrUntouched
<1>. DEFINE Returned(c, a, s) ==
              \/ /\ snap'[s].status = "refused" /\ snap[s].bad # {}
                 /\ Contents(a)' = before[c]
              \/ /\ snap'[s].status = "merged" /\ snap[s].bad = {}
                 /\ before[c].rows \cap taken[s] = {}
                 /\ fed'[a] = before[c].rows \cup taken[s]
            Clean == \A c \in Calls, a \in Aggs, s \in Snaps :
                        call[c].agg = a /\ call[c].snap = s /\ call'[c].agg = None
                           => Returned(c, a, s)
<1>1. IInv /\ [Next]_vars => [Clean]_vars
  <2>. SUFFICES ASSUME IInv, Next, NEW c \in Calls, NEW a \in Aggs, NEW s \in Snaps,
                       call[c].agg = a, call[c].snap = s, call'[c].agg = None
                PROVE  Returned(c, a, s)
    OBVIOUS
  <2>. HIDE DEF Returned
  <2>1. a # None /\ call[c] # Idle /\ CalledAt(c) /\ Typed
    BY AggregationAssumption DEF Idle, IInv, Calling
  <2>2. /\ snap[s].bad \subseteq call[c].todo
        /\ before[c].rows \cap taken[s] = {}
        /\ fed[a] = before[c].rows \cup (taken[s] \ Left(c))
        /\ call[c].todo # {} => before[c] = Contents(a)
    BY <2>1 DEF CalledAt
  \* Only this call's return takes its aggregator from it.
  <2>3. call[c].agg = call'[c].agg => Returned(c, a, s)
    BY <2>1
  <2>4. ASSUME NEW b \in Aggs, NEW r \in Rows, AddToGroup(b, r) \/ AddNewGroup(b, r)
        PROVE  Returned(c, a, s)
    BY <2>3, <2>4 DEF AddToGroup, AddNewGroup
  <2>5. ASSUME NEW b \in Aggs, NEW other \in Aggs, Merge(b, other) PROVE Returned(c, a, s)
    BY <2>3, <2>5 DEF Merge
  <2>6. ASSUME NEW b \in Aggs, NEW t \in Snaps, ExportState(b, t) \/ Misshape(t)
        PROVE  Returned(c, a, s)
    BY <2>3, <2>6 DEF ExportState, Misshape
  <2>7. ASSUME NEW d \in Calls, NEW b \in Aggs, NEW t \in Snaps, BeginMergeState(d, b, t)
        PROVE  Returned(c, a, s)
    BY <2>1, <2>3, <2>7 DEF BeginMergeState, Typed
  <2>8. ASSUME NEW d \in Calls, NEW k \in Keys, StateToGroupAccum(d, k)
        PROVE  Returned(c, a, s)
    BY <2>1, <2>3, <2>8 DEF StateToGroupAccum, Typed, CallType
  <2>9. ASSUME NEW d \in Calls, NEW k \in Keys, MergeIntoGroup(d, k) \/ InsertGroup(d, k)
        PROVE  Returned(c, a, s)
    <3>1. PICK A : A = Restrict(call[d].accums, DOMAIN call[d].accums \ {k})
      OBVIOUS
    <3>2. call' = [call EXCEPT ![d].accums = A]
      BY <2>9, <3>1 DEF MergeIntoGroup, InsertGroup, Apply
    <3>. QED
      BY <2>1, <2>3, <3>2 DEF Typed, CallType
  \* A state refused: there are states to validate, so none has been applied.
  <2>10. ASSUME NEW d \in Calls, MergeStateFails(d) PROVE Returned(c, a, s)
    <3>1. CASE d # c
      BY <2>1, <2>3, <2>10, <3>1 DEF MergeStateFails, Return, Typed
    <3>2. CASE d = c
      <4>1. /\ call[c].todo # {} /\ snap[s].bad # {}
            /\ snap' = [snap EXCEPT ![s].status = "refused"]
            /\ UNCHANGED <<groups, heap, fed>>
        BY <2>10, <3>2 DEF MergeStateFails, Return
      <4>2. Contents(a)' = Contents(a)
        BY <4>1 DEF Contents, RegsIn, Empty
      <4>3. snap'[s].status = "refused"
        BY <2>1, <4>1 DEF Typed, SnapType
      <4>. QED
        BY <2>2, <4>1, <4>2, <4>3 DEF Returned
    <3>. QED
      BY <3>1, <3>2
  \* Nothing left to validate or to apply: all the rows are in.
  <2>11. ASSUME NEW d \in Calls, EndMergeState(d) PROVE Returned(c, a, s)
    <3>1. CASE d # c
      BY <2>1, <2>3, <2>11, <3>1 DEF EndMergeState, Return, Typed
    <3>2. CASE d = c
      <4>1. /\ call[c].todo = {} /\ call[c].accums = NoGroups
            /\ snap' = [snap EXCEPT ![s].status = "merged"]
            /\ UNCHANGED fed
        BY <2>11, <3>2 DEF EndMergeState, Return
      <4>2. Left(c) = {}
        BY <4>1 DEF Left, NoGroups
      <4>3. snap'[s].status = "merged"
        BY <2>1, <4>1 DEF Typed, SnapType
      <4>. QED
        BY <2>2, <4>1, <4>2, <4>3 DEF Returned
    <3>. QED
      BY <3>1, <3>2
  <2>. QED
    BY <2>4, <2>5, <2>6, <2>7, <2>8, <2>9, <2>10, <2>11 DEF Next
<1>. QED
  BY <1>1, Invariance, PTL DEF Spec, MergedOrUntouched
=============================================================================
