---------------------- MODULE DecisionBlocking_proofs ----------------------
(* What an answer of DecisionBlockingAPI owes to the outcomes and the        *)
(* feedback on record, for any actions, circumstances, outcomes, batches,    *)
(* window and rate.                                                          *)
EXTENDS DecisionBlocking, FiniteSetTheorems, TLAPS

\* Every non-empty set of natural numbers has a least element.
LEMMA LeastElement ==
  ASSUME NEW T \in SUBSET Nat, T # {}
  PROVE  \E m \in T : \A k \in T : m <= k
<1> DEFINE R == OpToRel(<, Nat)
<1>1. IsWellFoundedOn(R, Nat)
  BY NatLessThanWellFounded
<1>2. \A x, y \in Nat : <<y, x>> \in R <=> y < x
  BY DEF OpToRel
<1> HIDE DEF R
<1>3. PICK x \in T : \A y \in T : ~(<<y, x>> \in R)
  BY <1>1, WFMin
<1>4. ASSUME NEW k \in T
      PROVE  x <= k
  <2>1. x \in Nat /\ k \in Nat
    OBVIOUS
  <2>2. ~(k < x)
    BY <1>2, <1>3, <2>1
  <2> QED
    BY <2>1, <2>2
<1> QED
  BY <1>4

-----------------------------------------------------------------------------
(* Sums.                                                                   *)

Picked(s) == CHOOSE x \in s : TRUE

\* g is the function by which SumFunction is defined: the sums over the subsets of S.
SumsOver(fun, S, g) ==
    g = [s \in SUBSET S |-> IF s = {} THEN 0 ELSE fun[Picked(s)] + g[s \ {Picked(s)}]]

\* The same, of the subsets with at most n elements.
SumsUpTo(fun, S, n, g) ==
    \A s \in SUBSET S : Cardinality(s) <= n =>
        g[s] = IF s = {} THEN 0 ELSE fun[Picked(s)] + g[s \ {Picked(s)}]

LEMMA PickedRemoved ==
  ASSUME NEW S, IsFiniteSet(S), NEW s \in SUBSET S, s # {}
  PROVE  /\ Picked(s) \in s /\ s \ {Picked(s)} \in SUBSET S
         /\ Cardinality(s) \in Nat
         /\ Cardinality(s \ {Picked(s)}) = Cardinality(s) - 1
<1>1. Picked(s) \in s
  BY DEF Picked
<1>2. IsFiniteSet(s)
  BY FS_Subset
<1> QED
  BY <1>1, <1>2, FS_RemoveElement, FS_CardinalityType

LEMMA SumsExist ==
  ASSUME NEW fun, NEW S, IsFiniteSet(S)
  PROVE  \E g : SumsOver(fun, S, g)
<1> DEFINE Exists(n) == \E g : SumsUpTo(fun, S, n, g)
           Missing == {n \in Nat : ~Exists(n)}
<1>1. \A s \in SUBSET S : Cardinality(s) \in Nat /\ Cardinality(s) <= Cardinality(S)
                          /\ (Cardinality(s) = 0 <=> s = {})
  BY FS_Subset, FS_CardinalityType, FS_EmptySet
<1>2. Exists(0)
  <2>1. SumsUpTo(fun, S, 0, [s \in SUBSET S |-> 0])
    BY <1>1 DEF SumsUpTo
  <2> QED
    BY <2>1
<1>3. ASSUME NEW n \in Nat, Exists(n)
      PROVE  Exists(n + 1)
  <2>1. PICK g : SumsUpTo(fun, S, n, g)
    BY <1>3
  <2> DEFINE h == [s \in SUBSET S |-> IF Cardinality(s) <= n THEN g[s]
                                      ELSE fun[Picked(s)] + g[s \ {Picked(s)}]]
  <2>2. ASSUME NEW s \in SUBSET S, Cardinality(s) <= n + 1
        PROVE  h[s] = IF s = {} THEN 0 ELSE fun[Picked(s)] + h[s \ {Picked(s)}]
    <3>1. CASE s = {}
      <4>1. Cardinality(s) <= n
        BY <1>1, <3>1
      <4> QED
        BY <2>1, <3>1, <4>1 DEF SumsUpTo
    <3>2. CASE s # {}
      <4>1. /\ s \ {Picked(s)} \in SUBSET S
            /\ Cardinality(s \ {Picked(s)}) <= n
        BY <2>2, <3>2, PickedRemoved
      <4>2. h[s \ {Picked(s)}] = g[s \ {Picked(s)}]
        BY <4>1
      <4>3. h[s] = fun[Picked(s)] + g[s \ {Picked(s)}]
        BY <2>1, <3>2 DEF SumsUpTo
      <4> QED
        BY <3>2, <4>2, <4>3
    <3> QED
      BY <3>1, <3>2
  <2> HIDE DEF h
  <2>3. SumsUpTo(fun, S, n + 1, h)
    BY <2>2 DEF SumsUpTo
  <2> QED
    BY <2>3
<1> HIDE DEF Exists
<1>4. Missing = {}
  <2> SUFFICES ASSUME Missing # {} PROVE FALSE
    OBVIOUS
  <2>1. PICK m \in Missing : \A k \in Missing : m <= k
    BY LeastElement, Zenon
  <2>2. m \in Nat /\ ~Exists(m)
    OBVIOUS
  <2>3. m # 0
    BY <1>2, <2>2
  <2>4. m - 1 \in Nat /\ ~(m <= m - 1)
    BY <2>2, <2>3
  <2>5. Exists(m - 1)
    BY <2>1, <2>4
  <2>6. Exists((m - 1) + 1) /\ (m - 1) + 1 = m
    BY <1>3, <2>2, <2>4, <2>5
  <2> QED
    BY <2>2, <2>6
<1>5. PICK g : SumsUpTo(fun, S, Cardinality(S), g)
  BY <1>4, FS_CardinalityType DEF Exists
<1> DEFINE h == [s \in SUBSET S |-> IF s = {} THEN 0
                                    ELSE fun[Picked(s)] + g[s \ {Picked(s)}]]
<1>6. \A s \in SUBSET S : h[s] = g[s]
  BY <1>1, <1>5 DEF SumsUpTo
<1>7. \A s \in SUBSET S : s # {} => h[s \ {Picked(s)}] = g[s \ {Picked(s)}]
  BY <1>6, PickedRemoved
<1>8. SumsOver(fun, S, h)
  BY <1>7 DEF SumsOver
<1> QED
  BY <1>8

LEMMA SumUnfolded ==
  ASSUME NEW fun, IsFiniteSet(DOMAIN fun)
  PROVE  \E g : SumsOver(fun, DOMAIN fun, g) /\ SumFunction(fun) = g[DOMAIN fun]
<1> DEFINE f == CHOOSE g : SumsOver(fun, DOMAIN fun, g)
<1>1. SumsOver(fun, DOMAIN fun, f)
  BY SumsExist
<1>2. SumFunction(fun) = f[DOMAIN fun]
  BY DEF SumFunction, SumFunctionOnSet, FoldFunctionOnSet, MapThenFoldSet, SumsOver, Picked
<1> QED
  BY <1>1, <1>2

\* What holds of empty sums and still holds when an element is added holds of the sums
\* of two functions on the same set.
LEMMA SumsTogether ==
  ASSUME NEW S, IsFiniteSet(S), NEW fun, NEW other, DOMAIN fun = S, DOMAIN other = S,
         NEW R, <<{}, 0, 0>> \in R,
         \A s \in SUBSET S : \A x \in S \ s : \A v, w :
            <<s, v, w>> \in R => <<s \cup {x}, fun[x] + v, other[x] + w>> \in R
  PROVE  <<S, SumFunction(fun), SumFunction(other)>> \in R
<1>1. PICK g : SumsOver(fun, S, g) /\ SumFunction(fun) = g[S]
  BY SumUnfolded
<1>2. PICK h : SumsOver(other, S, h) /\ SumFunction(other) = h[S]
  BY SumUnfolded
<1>3. ASSUME NEW s \in SUBSET S
      PROVE  /\ g[s] = IF s = {} THEN 0 ELSE fun[Picked(s)] + g[s \ {Picked(s)}]
             /\ h[s] = IF s = {} THEN 0 ELSE other[Picked(s)] + h[s \ {Picked(s)}]
  BY <1>1, <1>2 DEF SumsOver
<1> DEFINE Holds(s) == <<s, g[s], h[s]>> \in R
           Wrong == {n \in Nat : \E s \in SUBSET S : Cardinality(s) = n /\ ~Holds(s)}
<1>4. Wrong = {}
  <2> SUFFICES ASSUME Wrong # {} PROVE FALSE
    OBVIOUS
  <2>1. PICK m \in Wrong : \A k \in Wrong : m <= k
    BY LeastElement, Zenon
  <2>2. PICK s \in SUBSET S : Cardinality(s) = m /\ ~Holds(s)
    OBVIOUS
  <2> DEFINE rest == s \ {Picked(s)}
  <2>3. s # {}
    BY <1>3, <2>2
  <2>4. /\ Picked(s) \in s /\ rest \in SUBSET S
        /\ Cardinality(rest) = m - 1 /\ m \in Nat /\ Cardinality(s) \in Nat
    BY <2>2, <2>3, PickedRemoved
  <2>5. Cardinality(rest) \in Nat
    BY <2>4, FS_Subset, FS_CardinalityType
  <2>6. Cardinality(rest) \notin Wrong
    <3> HIDE DEF Wrong, rest
    <3> QED BY <2>1, <2>4
  <2>7. Holds(rest)
    BY <2>4, <2>5, <2>6
  <2>8. g[s] = fun[Picked(s)] + g[rest] /\ h[s] = other[Picked(s)] + h[rest]
    BY <1>3, <2>3
  <2>9. s = rest \cup {Picked(s)} /\ Picked(s) \in S \ rest
    BY <2>2, <2>4
  <2> HIDE DEF rest
  <2>10. <<rest \cup {Picked(s)}, fun[Picked(s)] + g[rest], other[Picked(s)] + h[rest]>> \in R
    BY <2>4, <2>7, <2>9
  <2> QED
    BY <2>2, <2>8, <2>9, <2>10
<1>5. Cardinality(S) \in Nat
  BY FS_CardinalityType
<1>6. Holds(S)
  BY <1>4, <1>5
<1> QED
  BY <1>1, <1>2, <1>6

\* A sum of numbers of a kind that is closed under addition is of that kind.
LEMMA SumStays ==
  ASSUME NEW fun, IsFiniteSet(DOMAIN fun), NEW Kind, 0 \in Kind,
         \A a, b \in Kind : a + b \in Kind, \A x \in DOMAIN fun : fun[x] \in Kind
  PROVE  SumFunction(fun) \in Kind
<1> DEFINE S == DOMAIN fun
           R == (SUBSET S) \X Kind \X Kind
<1>1. <<{}, 0, 0>> \in R
  OBVIOUS
<1>2. ASSUME NEW s \in SUBSET S, NEW x \in S \ s, NEW v, NEW w, <<s, v, w>> \in R
      PROVE  <<s \cup {x}, fun[x] + v, fun[x] + w>> \in R
  <2>1. v \in Kind /\ w \in Kind
    BY <1>2
  <2>2. fun[x] + v \in Kind /\ fun[x] + w \in Kind
    BY <2>1
  <2> QED
    BY <2>2
<1> HIDE DEF R
<1>3. <<S, SumFunction(fun), SumFunction(fun)>> \in R
  BY <1>1, <1>2, SumsTogether
<1> QED
  BY <1>3 DEF R

\* Terms that are nowhere smaller, and larger by d at i, have a sum that is larger by d.
LEMMA SumRaised ==
  ASSUME NEW S, IsFiniteSet(S), NEW fun \in [S -> Int], NEW other \in [S -> Int],
         \A x \in S : other[x] <= fun[x],
         NEW i \in S, NEW d \in Nat, other[i] + d <= fun[i]
  PROVE  SumFunction(fun) \in Int /\ SumFunction(other) \in Int
         /\ SumFunction(other) + d <= SumFunction(fun)
<1> DEFINE R == {t \in (SUBSET S) \X Int \X Int :
                    t[3] <= t[2] /\ (i \in t[1] => t[3] + d <= t[2])}
<1>1. <<{}, 0, 0>> \in R
  OBVIOUS
<1>2. ASSUME NEW s \in SUBSET S, NEW x \in S \ s, NEW v, NEW w, <<s, v, w>> \in R
      PROVE  <<s \cup {x}, fun[x] + v, other[x] + w>> \in R
  <2>1. /\ v \in Int /\ w \in Int /\ w <= v /\ (i \in s => w + d <= v)
        /\ fun[x] \in Int /\ other[x] \in Int /\ other[x] <= fun[x]
        /\ (i = x => other[x] + d <= fun[x])
    BY <1>2
  <2>2. other[x] + w <= fun[x] + v /\ (i \in s \cup {x} => other[x] + w + d <= fun[x] + v)
    BY <2>1
  <2> QED
    BY <2>1, <2>2
<1> HIDE DEF R
<1>3. <<S, SumFunction(fun), SumFunction(other)>> \in R
  BY <1>1, <1>2, SumsTogether
<1> QED
  BY <1>3 DEF R

\* Terms that are nowhere smaller have a sum that is not smaller.
LEMMA SumGrows ==
  ASSUME NEW S, IsFiniteSet(S), NEW fun \in [S -> Int], NEW other \in [S -> Int],
         \A x \in S : other[x] <= fun[x]
  PROVE  SumFunction(fun) \in Int /\ SumFunction(other) \in Int
         /\ SumFunction(other) <= SumFunction(fun)
<1> DEFINE R == {t \in (SUBSET S) \X Int \X Int : t[3] <= t[2]}
<1>1. <<{}, 0, 0>> \in R
  OBVIOUS
<1>2. ASSUME NEW s \in SUBSET S, NEW x \in S \ s, NEW v, NEW w, <<s, v, w>> \in R
      PROVE  <<s \cup {x}, fun[x] + v, other[x] + w>> \in R
  <2>1. v \in Int /\ w \in Int /\ w <= v /\ fun[x] \in Int /\ other[x] \in Int /\ other[x] <= fun[x]
    BY <1>2
  <2> QED
    BY <2>1
<1> HIDE DEF R
<1>3. <<S, SumFunction(fun), SumFunction(other)>> \in R
  BY <1>1, <1>2, SumsTogether
<1> QED
  BY <1>3 DEF R

\* n terms of low at least sum up to n times low.
LEMMA SumAtLeast ==
  ASSUME NEW S, IsFiniteSet(S), NEW low \in Nat, NEW fun \in [S -> Int],
         \A x \in S : low <= fun[x]
  PROVE  SumFunction(fun) \in Int /\ Cardinality(S) * low <= SumFunction(fun)
<1> DEFINE Least(s) == Cardinality(s) * low
           R == {t \in (SUBSET S) \X Int \X Int : Least(t[1]) <= t[2]}
<1>1. <<{}, 0, 0>> \in R
  BY FS_EmptySet
<1>2. ASSUME NEW s \in SUBSET S, NEW x \in S \ s, NEW v, NEW w, <<s, v, w>> \in R
      PROVE  <<s \cup {x}, fun[x] + v, fun[x] + w>> \in R
  <2> DEFINE n == Cardinality(s)
  <2>1. /\ v \in Int /\ w \in Int /\ n * low <= v /\ fun[x] \in Int /\ low <= fun[x]
        /\ s \cup {x} \in SUBSET S
    BY <1>2
  <2>2. n \in Nat /\ Cardinality(s \cup {x}) = n + 1
    BY FS_Subset, FS_CardinalityType, FS_AddElement
  <2> HIDE DEF n
  <2>3. (n + 1) * low = n * low + low /\ n * low \in Int
    BY <2>2
  <2>4. (n + 1) * low <= fun[x] + v
    BY <2>1, <2>3
  <2>5. Least(s \cup {x}) <= fun[x] + v
    BY <2>2, <2>4
  <2> DEFINE new == <<s \cup {x}, fun[x] + v, fun[x] + w>>
  <2>6. new \in (SUBSET S) \X Int \X Int /\ new[1] = s \cup {x} /\ new[2] = fun[x] + v
    BY <2>1
  <2> HIDE DEF Least, new
  <2>7. Least(new[1]) <= new[2]
    BY <2>5, <2>6, Zenon
  <2> QED
    BY <2>6, <2>7, Zenon DEF new
<1> HIDE DEF R
<1>3. <<S, SumFunction(fun), SumFunction(fun)>> \in R
  BY <1>1, <1>2, SumsTogether
<1> QED
  BY <1>3 DEF R

-----------------------------------------------------------------------------
(* Numbers.                                                                *)

\* Whatever it is given, Clamp stays between its limits.
LEMMA ClampRange ==
  ASSUME NEW value, NEW low \in Int, NEW high \in Int, low <= high
  PROVE  Clamp(value, low, high) \in low .. high
<1>1. CASE value \in low .. high
  BY <1>1 DEF Clamp
<1>2. CASE value \notin low .. high
  <2>1. Clamp(value, low, high) = low \/ Clamp(value, low, high) = high
    BY <1>2, Zenon DEF Clamp
  <2> QED
    BY <2>1
<1> QED
  BY <1>1, <1>2

\* A value between the limits is kept.
LEMMA ClampKeeps ==
  ASSUME NEW low, NEW high, NEW value \in low .. high
  PROVE  Clamp(value, low, high) = value
BY DEF Clamp

\* Of an integer.
LEMMA ClampForm ==
  ASSUME NEW value \in Int, NEW low \in Int, NEW high \in Int, low <= high
  PROVE  Clamp(value, low, high)
           = IF value < low THEN low ELSE IF value > high THEN high ELSE value
BY DEF Clamp

LEMMA ClampGrows ==
  ASSUME NEW a \in Int, NEW b \in Int, a <= b,
         NEW low \in Int, NEW high \in Int, low <= high
  PROVE  Clamp(a, low, high) <= Clamp(b, low, high)
BY DEF Clamp

LEMMA Clamp01Range == ASSUME NEW value PROVE Clamp01(value) \in 0 .. Scale
<1>1. 0 \in Int /\ Scale \in Int /\ 0 <= Scale
  BY DEF Scale
<1> QED
  BY <1>1, ClampRange, Zenon DEF Clamp01

LEMMA Clamp01Nat == ASSUME NEW value PROVE Clamp01(value) \in Nat
<1>1. Scale \in Nat
  BY DEF Scale
<1> QED
  BY <1>1, Clamp01Range

LEMMA Clamp01Grows ==
  ASSUME NEW a \in Int, NEW b \in Int, a <= b
  PROVE  Clamp01(a) <= Clamp01(b)
<1>1. 0 \in Int /\ Scale \in Int /\ 0 <= Scale
  BY DEF Scale
<1> QED
  BY <1>1, ClampGrows, Zenon DEF Clamp01

\* Division by a positive number.
LEMMA Division ==
  ASSUME NEW x \in Int, NEW n \in Nat \ {0}
  PROVE  x \div n \in Int /\ n * (x \div n) <= x /\ x < n * (x \div n) + n
OBVIOUS

LEMMA DivisionGrows ==
  ASSUME NEW x \in Int, NEW y \in Int, x <= y, NEW n \in Nat \ {0}
  PROVE  x \div n <= y \div n
<1> DEFINE p == x \div n
           q == y \div n
<1>1. p \in Int /\ q \in Int /\ n * p <= x /\ y < n * q + n
  BY Division
<1> HIDE DEF p, q
<1> SUFFICES ASSUME q + 1 <= p PROVE FALSE
  BY <1>1 DEF p, q
<1>2. n * (q + 1) <= n * p
  BY <1>1
<1>3. n * (q + 1) = n * q + n /\ n * q \in Int /\ n * p \in Int
  BY <1>1
<1> QED
  BY <1>1, <1>2, <1>3

LEMMA DivisionAtLeast ==
  ASSUME NEW x \in Int, NEW n \in Nat \ {0}, NEW k \in Int, n * k <= x
  PROVE  k <= x \div n
<1> DEFINE q == x \div n
<1>1. q \in Int /\ x < n * q + n
  BY Division
<1> HIDE DEF q
<1> SUFFICES ASSUME q + 1 <= k PROVE FALSE
  BY <1>1 DEF q
<1>2. n * (q + 1) <= n * k
  BY <1>1
<1>3. n * (q + 1) = n * q + n /\ n * q \in Int /\ n * k \in Int
  BY <1>1
<1> QED
  BY <1>1, <1>2, <1>3

LEMMA DivisionNat == ASSUME NEW x \in Nat, NEW n \in Nat \ {0} PROVE x \div n \in Nat
<1>1. n * 0 <= x
  OBVIOUS
<1>2. 0 <= x \div n /\ x \div n \in Int
  BY <1>1, Division, DivisionAtLeast
<1> QED
  BY <1>2

LEMMA QuotientInt == ASSUME NEW x \in Int, NEW n \in Nat \ {0} PROVE Quotient(x, n) \in Int
<1>1. x \div n \in Int /\ (-x) \div n \in Int
  BY Division
<1> QED
  BY <1>1 DEF Quotient

LEMMA QuotientZero == ASSUME NEW n \in Nat \ {0} PROVE Quotient(0, n) = 0
BY DEF Quotient

LEMMA QuotientGrows ==
  ASSUME NEW x \in Int, NEW y \in Int, x <= y, NEW n \in Nat \ {0}
  PROVE  Quotient(x, n) <= Quotient(y, n)
<1>1. x \div n \in Int /\ y \div n \in Int /\ (-x) \div n \in Int /\ (-y) \div n \in Int
  BY Division
<1>2. x \div n <= y \div n
  BY DivisionGrows
<1>3. -y \in Int /\ -x \in Int /\ -y <= -x
  OBVIOUS
<1>4. (-y) \div n <= (-x) \div n
  BY <1>3, DivisionGrows
<1>5. x < 0 => (-x) \div n \in Nat
  BY DivisionNat
<1>6. y >= 0 => y \div n \in Nat
  BY DivisionNat
<1> QED
  BY <1>1, <1>2, <1>4, <1>5, <1>6 DEF Quotient

LEMMA PartInt == ASSUME NEW a \in Int, NEW b \in Int PROVE Part(a, b) \in Int
<1>1. a * b \in Int /\ Scale \in Nat \ {0}
  BY DEF Scale
<1> QED
  BY <1>1, QuotientInt DEF Part

LEMMA PartZero == ASSUME NEW b \in Int PROVE Part(0, b) = 0
<1>1. 0 * b = 0 /\ Scale \in Nat \ {0}
  BY DEF Scale
<1> QED
  BY <1>1, QuotientZero DEF Part

LEMMA PartNat == ASSUME NEW a \in Nat, NEW b \in Nat PROVE Part(a, b) \in Nat
<1>1. a * b \in Nat /\ Scale \in Nat \ {0}
  BY DEF Scale
<1>2. (a * b) \div Scale \in Nat
  BY <1>1, DivisionNat
<1> QED
  BY <1>1, <1>2 DEF Part, Quotient

LEMMA PartGrows ==
  ASSUME NEW a \in Int, NEW b \in Int, a <= b, NEW c \in Nat
  PROVE  Part(a, c) \in Int /\ Part(b, c) \in Int /\ Part(a, c) <= Part(b, c)
<1>1. a * c \in Int /\ b * c \in Int /\ a * c <= b * c /\ Scale \in Nat \ {0}
  BY DEF Scale
<1> QED
  BY <1>1, QuotientInt, QuotientGrows DEF Part

-----------------------------------------------------------------------------
(* What is on record stays of its type and within its window.              *)

\* The newest elements of a sequence: its end, in order.
LEMMA NewestElements ==
  ASSUME NEW T, NEW s \in Seq(T), NEW n \in Nat \ {0}
  PROVE  LET w == Newest(s, n)
         IN  /\ w \in Seq(T) /\ Len(w) <= n
             /\ Len(w) = (IF Len(s) > n THEN n ELSE Len(s))
             /\ \A i \in DOMAIN w : /\ Len(s) - Len(w) + i \in DOMAIN s
                                    /\ w[i] = s[Len(s) - Len(w) + i]
<1>1. CASE Len(s) > n
  <2> DEFINE w == SubSeq(s, Len(s) - n + 1, Len(s))
  <2>1. Len(s) - n + 1 \in 1 .. Len(s) + 1 /\ Len(s) \in Nat
    BY <1>1
  <2>2. w \in Seq(T) /\ Len(w) = n /\ \A i \in 1 .. n : w[i] = s[Len(s) - n + i]
    BY <1>1, <2>1
  <2> QED
    BY <1>1, <2>2 DEF Newest
<1>2. CASE ~(Len(s) > n)
  BY <1>2 DEF Newest
<1> QED
  BY <1>1, <1>2

\* The downstream outcomes as they are kept, and the records of all batches.
Kept == {[event EXCEPT !.severity = Clamp01(@)] : event \in Downstream}

Records == UNION {Range(batch) : batch \in Batches}

LEMMA AppliedMultipliers ==
  ASSUME NEW m, NEW deltas, NEW rate
  PROVE  ApplyDeltas(m, deltas, rate) \in [RiskDimension -> Multiplier]
<1>1. MinMultiplier \in Int /\ MaxMultiplier \in Int /\ MinMultiplier <= MaxMultiplier
  BY DEF MinMultiplier, MaxMultiplier
<1>2. \A value : ClampMultiplier(value) \in Multiplier
  BY <1>1, ClampRange, Zenon DEF ClampMultiplier, Multiplier
<1> QED
  BY <1>2, SMT DEF ApplyDeltas

\* The limits of an assumption of the simulation.
LowOf(key) == IF key = "impactfulPermissionBoost" THEN 8000 ELSE 0

HighOf(key) ==
    CASE key = "noiseAmplitude" -> 3000 [] key = "impactfulPermissionBoost" -> 18000
      [] OTHER -> 15000

LEMMA AssumptionLimits ==
  ASSUME NEW key
  PROVE  /\ LowOf(key) \in Nat /\ HighOf(key) \in Nat /\ LowOf(key) <= HighOf(key)
         /\ \A value : ClampAssumption(key, value) = Clamp(value, LowOf(key), HighOf(key))
<1>1. CASE key = "noiseAmplitude"
  BY <1>1, "noiseAmplitude" # "impactfulPermissionBoost" DEF LowOf, HighOf, ClampAssumption
<1>2. CASE key = "impactfulPermissionBoost"
  BY <1>2, "noiseAmplitude" # "impactfulPermissionBoost" DEF LowOf, HighOf, ClampAssumption
<1>3. CASE key # "noiseAmplitude" /\ key # "impactfulPermissionBoost"
  BY <1>3 DEF LowOf, HighOf, ClampAssumption
<1> QED
  BY <1>1, <1>2, <1>3

LEMMA AssumptionClamped ==
  ASSUME NEW key, NEW value
  PROVE  ClampAssumption(key, value) \in LowOf(key) .. HighOf(key)
<1>1. LowOf(key) \in Int /\ HighOf(key) \in Int /\ LowOf(key) <= HighOf(key)
      /\ ClampAssumption(key, value) = Clamp(value, LowOf(key), HighOf(key))
  BY AssumptionLimits
<1> QED
  BY <1>1, ClampRange, Zenon

AssumptionsOK ==
    /\ DOMAIN assumptions = Assumption
    /\ \A k \in Assumption : assumptions[k] \in LowOf(k) .. HighOf(k)

LEMMA AssumptionsAdjusted ==
  ASSUME NEW deltas, NEW rate, assumptions' = AdjustedAssumptions(deltas, rate)
  PROVE  AssumptionsOK'
BY AssumptionClamped, SMT DEF AdjustedAssumptions, AssumptionsOK

BiasesOK ==
    /\ stageBias \in [Stage -> -MaxStageBias .. MaxStageBias]
    /\ violationBias \in [ActionTypes -> -MaxTypeBias .. MaxTypeBias]
    /\ driftBias \in -MaxDriftBias .. MaxDriftBias

LEMMA BoundsAreNatural == /\ MaxStageBias \in Nat /\ MaxTypeBias \in Nat /\ MaxDriftBias \in Nat
BY DEF MaxStageBias, MaxTypeBias, MaxDriftBias

LEMMA ClampAround == ASSUME NEW value, NEW n \in Nat PROVE Clamp(value, -n, n) \in -n .. n
<1>1. -n \in Int /\ n \in Int /\ -n <= n
  OBVIOUS
<1> QED
  BY <1>1, ClampRange, Zenon

LEMMA BiasesCalibrated ==
  ASSUME NEW stages, NEW types, NEW drift, NEW rate,
         ApplyHistoricalCalibration(stages, types, drift, rate)
  PROVE  BiasesOK'
<1>1. stageBias' \in [Stage -> -MaxStageBias .. MaxStageBias]
  BY BoundsAreNatural, ClampAround DEF ApplyHistoricalCalibration, CalibratedStages
<1>2. violationBias' \in [ActionTypes -> -MaxTypeBias .. MaxTypeBias]
  BY BoundsAreNatural, ClampAround DEF ApplyHistoricalCalibration, CalibratedTypes
<1>3. driftBias' \in -MaxDriftBias .. MaxDriftBias
  BY BoundsAreNatural, ClampAround DEF ApplyHistoricalCalibration
<1> QED
  BY <1>1, <1>2, <1>3 DEF BiasesOK

OutcomesOK == outcomes \in Seq(Kept) /\ Len(outcomes) <= MaxOutcomes

FeedbackOK == feedback \in Seq(Records) /\ Len(feedback) <= MaxFeedback

LEMMA DownstreamRecorded ==
  ASSUME OutcomesOK, NEW event \in Downstream, RecordDownstream(event)
  PROVE  OutcomesOK'
<1> DEFINE kept == [event EXCEPT !.severity = Clamp01(@)]
           all == Append(outcomes, kept)
<1>1. kept \in Kept
  BY DEF Kept
<1> HIDE DEF kept
<1>2. all \in Seq(Kept) /\ MaxOutcomes \in Nat \ {0}
  BY <1>1, PreemptiveAssumption DEF OutcomesOK
<1> HIDE DEF all
<1>3. Newest(all, MaxOutcomes) \in Seq(Kept) /\ Len(Newest(all, MaxOutcomes)) <= MaxOutcomes
  BY <1>2, NewestElements
<1>4. outcomes' = Newest(all, MaxOutcomes)
  BY DEF RecordDownstream, all, kept
<1> QED
  BY <1>3, <1>4 DEF OutcomesOK

LEMMA BatchJoined ==
  ASSUME FeedbackOK, NEW batch \in Batches
  PROVE  Joined(batch) \in Seq(Records) /\ Len(Joined(batch)) <= MaxFeedback
<1>1. Range(batch) \subseteq Records /\ batch \in Seq(Range(batch))
  BY BlockingAssumption DEF Records
<1>2. batch \in Seq(Records)
  BY <1>1
<1>3. feedback \o batch \in Seq(Records) /\ MaxFeedback \in Nat \ {0}
  BY <1>2, FeedbackAssumption DEF FeedbackOK
<1> DEFINE all == feedback \o batch
<1> HIDE DEF all
<1>4. Newest(all, MaxFeedback) \in Seq(Records) /\ Len(Newest(all, MaxFeedback)) <= MaxFeedback
  BY <1>3, NewestElements DEF all
<1> QED
  BY <1>4 DEF Joined, all

LEMMA ViolationsRecorded ==
  ASSUME violationHistory \in Seq(Outcome), NEW new \in Seq(Outcome), RecordOutcomes(new)
  PROVE  violationHistory' \in Seq(Outcome) /\ Len(violationHistory') <= HistoryWindow
<1> DEFINE all == violationHistory \o new
<1>1. all \in Seq(Outcome) /\ HistoryWindow \in Nat \ {0}
  BY HistoryWindowAssumption
<1>2. violationHistory' = Newest(all, HistoryWindow)
  BY DEF RecordOutcomes
<1> HIDE DEF all
<1> QED
  BY <1>1, <1>2, NewestElements

-----------------------------------------------------------------------------
(* An answer.                                                              *)

LEMMA VerdictIsState ==
  ASSUME NEW history, NEW decision, NEW request
  PROVE  VerdictAfter(history, decision, request) \in ClassificationState
BY Zenon DEF VerdictAfter, Classify, Escalated, ResolveState, ClassificationState

\* All directives carry the outcome, so they agree.
LEMMA DirectivesAgree ==
  ASSUME NEW target, NEW outcome
  PROVE  Consistent(Directives(target, outcome))
<1> DEFINE D == Directives(target, outcome)
<1>1. \A d \in D : d.action = outcome
  BY DEF Directives
<1> HIDE DEF D
<1>2. {d.action : d \in D} \subseteq {outcome}
  BY <1>1
<1>3. IsFiniteSet({outcome}) /\ Cardinality({outcome}) = 1
  BY FS_Singleton
<1>4. Cardinality({d.action : d \in D}) <= 1
  BY <1>2, <1>3, FS_Subset
<1> QED
  BY <1>4 DEF Consistent, D

-----------------------------------------------------------------------------
(* The lift of a decision that keeps failing.                              *)

\* A non-empty set of integers with an upper bound has a greatest element.
LEMMA GreatestElement ==
  ASSUME NEW T \in SUBSET Int, T # {}, NEW top \in Int, \A x \in T : x <= top
  PROVE  \E m \in T : \A k \in T : m >= k
<1> DEFINE below == {top - x : x \in T}
<1>1. below \in SUBSET Nat /\ below # {}
  <2>1. \A x \in T : top - x \in Nat
    OBVIOUS
  <2> QED
    BY <2>1
<1>2. PICK n \in below : \A k \in below : n <= k
  BY <1>1, LeastElement, Zenon
<1>3. PICK m \in T : n = top - m
  BY <1>2
<1>4. \A k \in T : top - m <= top - k
  BY <1>2, <1>3
<1>5. \A k \in T : m >= k
  BY <1>4
<1> QED
  BY <1>5

LEMMA SignalRange ==
  ASSUME NEW event \in Kept
  PROVE  /\ FailureSignal(event) \in Nat
         /\ event.complianceFailure => 6500 <= FailureSignal(event)
         /\ Part(FailureSignal(event), event.severity) \in Nat
<1>1. PICK e \in Downstream : event = [e EXCEPT !.severity = Clamp01(@)]
  BY DEF Kept
<1>2. e \in [profile : {Profile([type |-> e.profile.action, agent |-> e.profile.agent])},
             complianceFailure : BOOLEAN, downstreamFailure : BOOLEAN, severity : Int]
  BY BlockingAssumption
<1>3. event.severity = Clamp01(e.severity)
  BY <1>1, <1>2
<1>4. event.severity \in Nat
  BY <1>3, Clamp01Nat
<1>5. /\ FailureSignal(event) \in Nat
      /\ event.complianceFailure => 6500 <= FailureSignal(event)
  BY DEF FailureSignal
<1>6. Part(FailureSignal(event), event.severity) \in Nat
  <2>1. FailureSignal(event) \in Nat
    BY <1>5
  <2> QED
    BY <1>4, <2>1, PartNat, Zenon
<1> QED
  BY <1>5, <1>6

LEMMA RiskLiftRange ==
  ASSUME NEW n \in Nat, NEW rate \in Nat, NEW severity \in Nat
  PROVE  /\ RiskLift(n, rate, severity) \in 0 .. MaxRiskLift
         /\ n >= MinSamples /\ rate >= 6500 => ReviewLift <= RiskLift(n, rate, severity)
<1> DEFINE confidence == Clamp01((n * Scale) \div (MinSamples + 4))
           a == Part(rate, 6500)
           b == Part(severity, 2500)
           c == Part(confidence, 1000)
           sum == Clamp01(a + b + c)
<1>1. confidence \in Nat
  BY Clamp01Nat
<1>2. a \in Nat /\ b \in Nat /\ c \in Nat
  <2> HIDE DEF confidence
  <2>1. a \in Nat
    BY PartNat
  <2>2. b \in Nat
    BY PartNat
  <2>3. c \in Nat
    BY <1>1, PartNat
  <2> QED
    BY <2>1, <2>2, <2>3
<1>3. rate >= 6500 => 4225 <= a
  <2>1. SUFFICES ASSUME rate >= 6500 PROVE 4225 <= a
    OBVIOUS
  <2>2. 6500 \in Int /\ rate \in Int /\ 6500 <= rate /\ 6500 \in Nat
    BY <2>1
  <2>3. Part(6500, 6500) <= Part(rate, 6500)
    BY <2>2, PartGrows
  <2>4. Part(6500, 6500) = 4225
    BY DEF Part, Quotient, Scale
  <2> QED
    BY <2>3, <2>4
<1> HIDE DEF confidence, a, b, c
<1>4. sum \in 0 .. Scale /\ (rate >= 6500 => 4225 <= sum)
  <2>1. sum \in 0 .. Scale
    BY Clamp01Range
  <2>2. ASSUME 4225 <= a
        PROVE  4225 <= sum
    <3>1. 4225 \in Int /\ a + b + c \in Int /\ 4225 <= a + b + c
      BY <1>2, <2>2
    <3>2. Clamp01(4225) <= Clamp01(a + b + c)
      BY <3>1, Clamp01Grows
    <3>3. Clamp01(4225) = 4225
      BY DEF Clamp01, Clamp, Scale
    <3> QED
      BY <3>2, <3>3
  <2> QED
    BY <1>3, <2>1, <2>2
<1> HIDE DEF sum
<1>5. Part(sum, MaxRiskLift) \in 0 .. MaxRiskLift
      /\ (rate >= 6500 => ReviewLift <= Part(sum, MaxRiskLift))
  <2>1. MaxRiskLift \in Nat /\ sum \in Int /\ Scale \in Int /\ sum <= Scale /\ sum \in Nat
    BY <1>4 DEF MaxRiskLift, Scale
  <2>2. Part(sum, MaxRiskLift) <= Part(Scale, MaxRiskLift)
    BY <2>1, PartGrows
  <2>3. Part(Scale, MaxRiskLift) = MaxRiskLift
    BY DEF Part, Quotient, Scale, MaxRiskLift
  <2>4. Part(sum, MaxRiskLift) \in Nat
    BY <2>1, PartNat
  <2>5. ASSUME 4225 <= sum
        PROVE  ReviewLift <= Part(sum, MaxRiskLift)
    <3>1. 4225 \in Int /\ 4225 <= sum
      BY <2>5
    <3>2. Part(4225, MaxRiskLift) <= Part(sum, MaxRiskLift)
      BY <2>1, <3>1, PartGrows
    <3>3. Part(4225, MaxRiskLift) = 1478
      BY DEF Part, Quotient, Scale, MaxRiskLift
    <3> QED
      BY <2>4, <3>2, <3>3 DEF ReviewLift
  <2> QED
    BY <1>4, <2>1, <2>2, <2>3, <2>4, <2>5
<1>6. RiskLift(n, rate, severity) =
        IF n < MinSamples \/ rate < 4500 THEN 0 ELSE Part(sum, MaxRiskLift)
  BY DEF RiskLift, MinFailureRate, sum, a, b, c, confidence
<1>7. MinSamples \in Nat /\ MaxRiskLift \in Nat
  BY PreemptiveAssumption DEF MaxRiskLift
<1> QED
  BY <1>5, <1>6, <1>7

\* The lift of one pattern; where every outcome of it was a compliance failure, and there
\* are enough, it reaches the review threshold.
LEMMA PatternLiftRange ==
  ASSUME OutcomesOK, NEW signature
  PROVE  LET events == {i \in DOMAIN outcomes : signature \in Signatures(outcomes[i].profile)}
         IN  /\ PatternLift(signature) \in 0 .. MaxRiskLift
             /\ /\ Cardinality(events) >= MinSamples
                /\ \A i \in events : outcomes[i].complianceFailure
                => ReviewLift <= PatternLift(signature)
<1> DEFINE events == {i \in DOMAIN outcomes : signature \in Signatures(outcomes[i].profile)}
           signals == [i \in events |-> FailureSignal(outcomes[i])]
           severities == [i \in events |-> Part(FailureSignal(outcomes[i]), outcomes[i].severity)]
           n == Cardinality(events)
           failures == SumFunction(signals)
           severity == SumFunction(severities)
<1>1. IsFiniteSet(events) /\ n \in Nat
  <2>1. IsFiniteSet(DOMAIN outcomes) /\ events \subseteq DOMAIN outcomes
    BY FS_Interval DEF OutcomesOK
  <2>2. IsFiniteSet(events)
    BY <2>1, FS_Subset
  <2> QED
    BY <2>2, FS_CardinalityType
<1>2. \A i \in events : outcomes[i] \in Kept
  BY DEF OutcomesOK
<1>3. /\ \A i \in events : signals[i] \in Nat /\ severities[i] \in Nat
      /\ \A i \in events : outcomes[i].complianceFailure => 6500 <= signals[i]
  BY <1>2, SignalRange
<1>4. PatternLift(signature) =
        IF failures = 0 THEN 0
        ELSE RiskLift(n, failures \div n, (severity * Scale) \div failures)
  BY DEF PatternLift
<1>5. DOMAIN signals = events /\ DOMAIN severities = events
  OBVIOUS
<1> HIDE DEF events, signals, severities
<1>6. failures \in Nat /\ severity \in Nat
  <2>1. 0 \in Nat /\ \A x, y \in Nat : x + y \in Nat
    OBVIOUS
  <2>2. \A x \in DOMAIN signals : signals[x] \in Nat
    BY <1>3, <1>5
  <2>3. \A x \in DOMAIN severities : severities[x] \in Nat
    BY <1>3, <1>5
  <2>4. failures \in Nat
    BY <1>1, <1>5, <2>1, <2>2, SumStays, Zenon
  <2>5. severity \in Nat
    BY <1>1, <1>5, <2>1, <2>3, SumStays, Zenon
  <2> QED
    BY <2>4, <2>5
<1>7. events = {} => failures = 0
  <2>1. SUFFICES ASSUME events = {} PROVE failures \in {0}
    OBVIOUS
  <2>2. 0 \in {0} /\ \A x, y \in {0} : x + y \in {0}
    OBVIOUS
  <2> QED
    BY <1>1, <1>5, <2>1, <2>2, SumStays
<1>8. n = 0 => events = {}
  BY <1>1, FS_EmptySet
<1> HIDE DEF failures, severity, n
<1>9. MaxRiskLift \in Nat /\ MinSamples \in Nat \ {0} /\ Scale \in Nat
  BY PreemptiveAssumption DEF MaxRiskLift, Scale
<1>10. ASSUME failures # 0
       PROVE  PatternLift(signature) \in 0 .. MaxRiskLift
  <2>1. n \in Nat \ {0} /\ failures \in Nat \ {0} /\ severity * Scale \in Nat
    BY <1>1, <1>6, <1>7, <1>8, <1>9, <1>10 DEF n
  <2>2. failures \div n \in Nat /\ (severity * Scale) \div failures \in Nat
    BY <2>1, DivisionNat
  <2> QED
    BY <1>4, <1>10, <2>1, <2>2, RiskLiftRange
<1>11. ASSUME n >= MinSamples, \A i \in events : outcomes[i].complianceFailure
       PROVE  ReviewLift <= PatternLift(signature)
  <2>1. 6500 \in Nat /\ signals \in [events -> Int] /\ \A i \in events : 6500 <= signals[i]
    <3>1. signals \in [events -> Int]
      BY <1>3 DEF signals
    <3> QED
      BY <1>3, <1>11, <3>1
  <2>2. n * 6500 <= failures
    BY <1>1, <2>1, SumAtLeast DEF n, failures
  <2>3. n \in Nat \ {0}
    BY <1>1, <1>9, <1>11 DEF n
  <2>4. failures \in Nat \ {0} /\ severity * Scale \in Nat
    BY <1>6, <1>9, <2>2, <2>3
  <2>5. failures \div n \in Nat /\ (severity * Scale) \div failures \in Nat
    BY <2>3, <2>4, DivisionNat
  <2>6. 6500 \in Int /\ failures \in Int
    BY <1>6
  <2>7. 6500 <= failures \div n
    BY <2>2, <2>3, <2>6, DivisionAtLeast
  <2> DEFINE rate == failures \div n
             weight == (severity * Scale) \div failures
  <2>8. n \in Nat /\ rate \in Nat /\ weight \in Nat /\ n >= MinSamples /\ rate >= 6500
    BY <1>11, <2>3, <2>5, <2>7
  <2>9. PatternLift(signature) = RiskLift(n, rate, weight)
    BY <1>4, <2>4
  <2> HIDE DEF rate, weight
  <2>10. ReviewLift <= RiskLift(n, rate, weight)
    BY <2>8, RiskLiftRange
  <2> QED
    BY <2>9, <2>10
<1>12. PatternLift(signature) \in 0 .. MaxRiskLift
  BY <1>4, <1>9, <1>10
<1> QED
  BY <1>11, <1>12 DEF n, events

\* The signature by action, layer and agent matches the outcomes of that very profile alone.
LEMMA OwnSignature ==
  ASSUME OutcomesOK, NEW raw
  PROVE  LET own == [f \in {"action", "layer", "agent"} |-> Profile(raw)[f]]
         IN  /\ own \in Signatures(Profile(raw))
             /\ {i \in DOMAIN outcomes : own \in Signatures(outcomes[i].profile)}
                  = {i \in DOMAIN outcomes : outcomes[i].profile = Profile(raw)}
<1> DEFINE F == {"action", "layer", "agent"}
           p == Profile(raw)
           own == [f \in F |-> p[f]]
<1>1. F \in SignatureFields
  BY DEF SignatureFields
<1>2. own \in Signatures(p)
  BY <1>1 DEF Signatures
<1>3. ASSUME NEW i \in DOMAIN outcomes, own \in Signatures(outcomes[i].profile)
      PROVE  outcomes[i].profile = p
  <2> DEFINE q == outcomes[i].profile
  <2>1. PICK e \in Downstream : outcomes[i] = [e EXCEPT !.severity = Clamp01(@)]
    BY DEF OutcomesOK, Kept
  <2>2. e \in [profile : {Profile([type |-> e.profile.action, agent |-> e.profile.agent])},
               complianceFailure : BOOLEAN, downstreamFailure : BOOLEAN, severity : Int]
    BY BlockingAssumption
  <2>3. q = e.profile
    BY <2>1, <2>2
  <2>4. q = Profile([type |-> q.action, agent |-> q.agent])
    BY <2>2, <2>3
  <2>5. PICK G \in SignatureFields : own = [f \in G |-> q[f]]
    BY <1>3 DEF Signatures
  <2> HIDE DEF q
  <2>6. G = F
    BY <2>5
  <2>7. q["action"] = p["action"] /\ q["agent"] = p["agent"]
    <3>1. "action" \in F /\ "agent" \in F
      OBVIOUS
    <3> HIDE DEF F, p
    <3>2. \A f \in F : own[f] = p[f] /\ own[f] = q[f]
      BY <2>5, <2>6
    <3> QED
      BY <3>1, <3>2
  <2>8. p.action = raw.type /\ p.agent = raw.agent
    BY DEF Profile
  <2>9. q.action = raw.type /\ q.agent = raw.agent
    BY <2>7, <2>8
  <2>10. Profile([type |-> raw.type, agent |-> raw.agent]) = p
    BY DEF Profile
  <2> QED
    BY <2>4, <2>9, <2>10 DEF q
<1> HIDE DEF p, own
<1>4. {i \in DOMAIN outcomes : own \in Signatures(outcomes[i].profile)}
        = {i \in DOMAIN outcomes : outcomes[i].profile = p}
  BY <1>2, <1>3
<1> QED
  BY <1>2, <1>4 DEF p, own

LEMMA RecurringLift ==
  ASSUME OutcomesOK, NEW raw, Recurring(Profile(raw))
  PROVE  Assess(Profile(raw)) \in 0 .. MaxRiskLift /\ ReviewLift <= Assess(Profile(raw))
<1> DEFINE p == Profile(raw)
           own == [f \in {"action", "layer", "agent"} |-> p[f]]
           seen == {i \in DOMAIN outcomes : outcomes[i].profile = p}
           lifts == {PatternLift(s) : s \in Signatures(p)}
<1>1. own \in Signatures(p)
      /\ {i \in DOMAIN outcomes : own \in Signatures(outcomes[i].profile)} = seen
  BY OwnSignature
<1>2. Cardinality(seen) >= MinSamples /\ \A i \in seen : outcomes[i].complianceFailure
  BY DEF Recurring
<1> HIDE DEF p, own, seen
<1>3. ReviewLift <= PatternLift(own) /\ PatternLift(own) \in lifts
  BY <1>1, <1>2, PatternLiftRange
<1>4. MaxRiskLift \in Int
  BY DEF MaxRiskLift
<1>5. \A x \in lifts : x \in 0 .. MaxRiskLift
  BY PatternLiftRange
<1> HIDE DEF lifts
<1>6. lifts \in SUBSET Int /\ lifts # {} /\ \A x \in lifts : x <= MaxRiskLift
  BY <1>3, <1>4, <1>5
<1>7. \E m \in lifts : \A k \in lifts : m >= k
  BY <1>4, <1>6, GreatestElement, Zenon
<1>8. Assess(p) = CHOOSE lift \in lifts : \A other \in lifts : lift >= other
  BY DEF Assess, lifts
<1>9. Assess(p) \in lifts /\ \A other \in lifts : Assess(p) >= other
  BY <1>7, <1>8
<1> DEFINE lift == Assess(p)
           low == PatternLift(own)
<1>10. lift \in 0 .. MaxRiskLift /\ low \in Int /\ ReviewLift <= low /\ lift >= low
  BY <1>3, <1>5, <1>6, <1>9
<1> HIDE DEF lift, low
<1>11. ReviewLift <= lift
  BY <1>4, <1>10 DEF ReviewLift
<1> QED
  BY <1>10, <1>11 DEF lift, p

-----------------------------------------------------------------------------
(* The invariant.                                                          *)

\* A pending request asks for an escalation at ReviewLift, and carries a lift that reaches
\* it if its caller passes on the assessment of a decision that keeps failing.
PendingOK ==
    \/ pending = None
    \/ /\ pending.stage = "evaluated"
       /\ pending.request.classification.preemptiveEscalationThreshold = ReviewLift
       /\ pending.informed /\ pending.recurring
             => pending.request.classification.preemptiveRiskLift \in ReviewLift .. MaxRiskLift

ResultOK == \/ result = None
            \/ /\ result.state \in ClassificationState
               /\ "cross-platform-enforcement" \notin result.warnings

BlockingInv ==
    /\ AdaptiveTypeOK
    /\ AssumptionsOK /\ BiasesOK
    /\ OutcomesOK /\ FeedbackOK
    /\ PendingOK /\ ResultOK

LEMMA BlockingInitially == BlockingInit => BlockingInv
<1> SUFFICES ASSUME BlockingInit PROVE BlockingInv
  OBVIOUS
<1>1. AdaptiveTypeOK
  BY HistoryWindowAssumption
  DEF BlockingInit, AdaptiveInit, AdaptiveTypeOK, Neutral, Multiplier, MinMultiplier,
      MaxMultiplier, Scale
<1>2. AssumptionsOK
  BY DEF BlockingInit, LearnedInit, AssumptionsOK, Assumption, DefaultAssumptions, LowOf, HighOf
<1>3. BiasesOK
  BY BoundsAreNatural DEF BlockingInit, LearnedInit, BiasesOK
<1>4. OutcomesOK
  BY PreemptiveAssumption DEF BlockingInit, OutcomesOK
<1>5. FeedbackOK
  BY FeedbackAssumption DEF BlockingInit, FeedbackOK
<1>6. PendingOK /\ ResultOK
  BY DEF BlockingInit, PendingOK, ResultOK
<1> QED
  BY <1>1, <1>2, <1>3, <1>4, <1>5, <1>6 DEF BlockingInv

LEMMA BeginStep ==
  ASSUME BlockingInv, NEW raw, NEW circumstances, NEW target, NEW noise,
         NEW informed \in BOOLEAN, Begin(raw, circumstances, target, noise, informed)
  PROVE  BlockingInv'
<1> DEFINE lift == IF informed THEN Assess(Profile(raw)) ELSE 0
           request == Request(raw, circumstances, target, lift)
<1>1. pending' = [stage |-> "evaluated", informed |-> informed,
                  recurring |-> Recurring(Profile(raw)), decision |-> Decision(raw, noise),
                  request |-> request]
  BY DEF Begin
<1>2. request.classification.preemptiveEscalationThreshold = ReviewLift
      /\ request.classification.preemptiveRiskLift = lift
  BY DEF Request
<1>3. informed /\ Recurring(Profile(raw)) => lift \in ReviewLift .. MaxRiskLift
  <2>1. SUFFICES ASSUME informed, Recurring(Profile(raw))
                 PROVE  Assess(Profile(raw)) \in ReviewLift .. MaxRiskLift
    OBVIOUS
  <2>2. Assess(Profile(raw)) \in 0 .. MaxRiskLift /\ ReviewLift <= Assess(Profile(raw))
    BY <2>1, RecurringLift, Zenon DEF BlockingInv
  <2>3. ReviewLift \in Int /\ MaxRiskLift \in Int
    BY DEF ReviewLift, MaxRiskLift
  <2> QED
    BY <2>2, <2>3
<1> HIDE DEF request, lift
<1>4. pending'.stage = "evaluated" /\ pending'.informed = informed
      /\ pending'.recurring = Recurring(Profile(raw)) /\ pending'.request = request
  BY <1>1
<1>5. PendingOK'
  BY <1>2, <1>3, <1>4 DEF PendingOK, ReviewLift, MaxRiskLift
<1>6. result' = None
      /\ UNCHANGED <<multipliers, violationHistory, outcomes, feedback, learnedVars>>
  BY DEF Begin
<1> QED
  BY <1>5, <1>6, Zenon
  DEF BlockingInv, ResultOK, AdaptiveTypeOK, AssumptionsOK, BiasesOK, OutcomesOK, FeedbackOK,
      learnedVars

LEMMA FinishStep ==
  ASSUME BlockingInv, Finish
  PROVE  BlockingInv'
<1> DEFINE decision == pending.decision
           request == pending.request
           pressure == RiskPressure(decision, request.risk, request.system, multipliers)
           state == VerdictAfter(violationHistory, decision, request)
           directives == Directives(request.target, EnforcementOutcome(state))
<1>1. result' = [stage |-> "answered", state |-> state,
                 outcome |-> EnforcementOutcome(state), directives |-> directives,
                 warnings |-> Warnings(decision, pressure, state, directives)]
  BY DEF Finish
<1>2. state \in ClassificationState
  BY VerdictIsState
<1>3. Consistent(directives)
  BY DirectivesAgree
<1> HIDE DEF decision, request, pressure, state, directives
<1>4. "cross-platform-enforcement" \notin Warnings(decision, pressure, state, directives)
  BY <1>3 DEF Warnings
<1>5. ResultOK'
  BY <1>1, <1>2, <1>4 DEF ResultOK
<1>6. pending' = None
      /\ UNCHANGED <<multipliers, violationHistory, outcomes, feedback, learnedVars>>
  BY DEF Finish
<1> QED
  BY <1>5, <1>6, Zenon
  DEF BlockingInv, PendingOK, AdaptiveTypeOK, AssumptionsOK, BiasesOK, OutcomesOK, FeedbackOK,
      learnedVars

LEMMA ViolationStep ==
  ASSUME BlockingInv, NEW outcome \in Violations, RecordViolation(outcome)
  PROVE  BlockingInv'
<1>1. <<outcome>> \in Seq(Outcome)
  BY BlockingAssumption
<1>2. violationHistory' \in Seq(Outcome) /\ Len(violationHistory') <= HistoryWindow
  BY <1>1, ViolationsRecorded, Zenon DEF BlockingInv, AdaptiveTypeOK, RecordViolation
<1>3. result' = None /\ UNCHANGED <<multipliers, outcomes, feedback, learnedVars, pending>>
  BY DEF RecordViolation, Learn
<1> QED
  BY <1>2, <1>3, Zenon
  DEF BlockingInv, PendingOK, ResultOK, AdaptiveTypeOK, AssumptionsOK, BiasesOK, OutcomesOK,
      FeedbackOK, learnedVars

LEMMA DownstreamStep ==
  ASSUME BlockingInv, NEW event \in Downstream, RecordDownstreamOutcome(event)
  PROVE  BlockingInv'
<1>1. OutcomesOK'
  BY DownstreamRecorded, Zenon DEF BlockingInv, RecordDownstreamOutcome
<1>2. result' = None
      /\ UNCHANGED <<multipliers, violationHistory, feedback, learnedVars, pending>>
  BY DEF RecordDownstreamOutcome, Learn
<1> QED
  BY <1>1, <1>2, Zenon
  DEF BlockingInv, PendingOK, ResultOK, AdaptiveTypeOK, AssumptionsOK, BiasesOK, FeedbackOK,
      learnedVars

LEMMA FeedbackStep ==
  ASSUME BlockingInv, NEW batch \in Batches, IntegrateFeedback(batch)
  PROVE  BlockingInv'
<1> DEFINE lesson == Lesson(Joined(batch))
<1>1. /\ result' = None /\ UNCHANGED <<violationHistory, outcomes, pending>>
      /\ feedback' = Joined(batch)
      /\ \/ UNCHANGED <<multipliers, learnedVars>>
         \/ /\ multipliers' = ApplyDeltas(multipliers, lesson.weights, WeightLearningRate)
            /\ assumptions' = AdjustedAssumptions(lesson.assumptions, SimulationLearningRate)
            /\ ApplyHistoricalCalibration(lesson.stages, lesson.types, lesson.drift, ComplianceLearningRate)
  BY Zenon DEF IntegrateFeedback, Integrate, Learn
<1> HIDE DEF lesson
<1>2. FeedbackOK'
  BY <1>1, BatchJoined, Zenon DEF BlockingInv, FeedbackOK
<1>3. multipliers' \in [RiskDimension -> Multiplier]
  <2>1. multipliers' = multipliers
        \/ multipliers' = ApplyDeltas(multipliers, lesson.weights, WeightLearningRate)
    BY <1>1
  <2> QED
    BY <2>1, AppliedMultipliers DEF BlockingInv, AdaptiveTypeOK
<1>4. AssumptionsOK'
  BY <1>1, AssumptionsAdjusted, Zenon DEF BlockingInv, AssumptionsOK, learnedVars
<1>5. BiasesOK'
  BY <1>1, BiasesCalibrated, Zenon DEF BlockingInv, BiasesOK, learnedVars
<1> QED
  BY <1>1, <1>2, <1>3, <1>4, <1>5, Zenon
  DEF BlockingInv, PendingOK, ResultOK, AdaptiveTypeOK, OutcomesOK

LEMMA BlockingStep == BlockingInv /\ [BlockingNext]_blockingVars => BlockingInv'
<1> SUFFICES ASSUME BlockingInv, [BlockingNext]_blockingVars PROVE BlockingInv'
  OBVIOUS
<1>1. ASSUME NEW raw \in RawActions, NEW c \in Circumstances, NEW t \in Targets,
             NEW noise \in {-assumptions.noiseAmplitude, assumptions.noiseAmplitude},
             NEW informed \in BOOLEAN, Begin(raw, c, t, noise, informed)
      PROVE  BlockingInv'
  BY <1>1, BeginStep, Zenon
<1>2. CASE Finish
  BY <1>2, FinishStep, Zenon
<1>3. CASE \E outcome \in Violations : RecordViolation(outcome)
  BY <1>3, ViolationStep, Zenon
<1>4. CASE \E event \in Downstream : RecordDownstreamOutcome(event)
  BY <1>4, DownstreamStep, Zenon
<1>5. CASE \E batch \in Batches : IntegrateFeedback(batch)
  BY <1>5, FeedbackStep, Zenon
<1>6. CASE UNCHANGED blockingVars
  BY <1>6, Zenon
  DEF blockingVars, BlockingInv, PendingOK, ResultOK, AdaptiveTypeOK, AssumptionsOK, BiasesOK,
      OutcomesOK, FeedbackOK, learnedVars
<1> QED
  BY <1>1, <1>2, <1>3, <1>4, <1>5, <1>6, Zenon DEF BlockingNext

\* Whatever was learned in between, what is on record stays of its type and in its window,
\* and a pending request keeps the lift it was given.
THEOREM BlockingInvariant == BlockingSpec => []BlockingInv
BY BlockingInitially, BlockingStep, PTL DEF BlockingSpec

\* Everything that is learned stays within the limits of its module, and an answer says the
\* same to every platform (clampAssumption, applyHistoricalCalibration, recordOutcome,
\* isCrossPlatformConsistent).
THEOREM BlockingTypes == BlockingSpec => []BlockingTypeOK
<1>1. BlockingInv => BlockingTypeOK
  <2> SUFFICES ASSUME BlockingInv PROVE BlockingTypeOK
    OBVIOUS
  <2>1. ASSUME NEW k \in Assumption
        PROVE  assumptions[k] = ClampAssumption(k, assumptions[k])
    <3>1. assumptions[k] \in LowOf(k) .. HighOf(k)
      BY DEF BlockingInv, AssumptionsOK
    <3> QED
      BY <3>1, AssumptionLimits, ClampKeeps, Zenon
  <2>2. LearnedTypeOK
    BY <2>1, Zenon DEF BlockingInv, AssumptionsOK, BiasesOK, LearnedTypeOK
  <2>3. pending.stage \in {"none", "evaluated"}
    BY DEF BlockingInv, PendingOK, None
  <2> QED
    BY <2>2, <2>3, Zenon DEF BlockingInv, OutcomesOK, FeedbackOK, ResultOK, BlockingTypeOK
<1> QED
  BY <1>1, BlockingInvariant, PTL

-----------------------------------------------------------------------------
(* A decision that keeps failing.                                          *)

LEMMA LiftEscalates ==
  ASSUME NEW state, NEW lift \in ReviewLift .. MaxRiskLift, NEW block
  PROVE  Escalated(state, Clamp01(lift), Clamp01(ReviewLift), block) # "auto-approve"
<1>0. /\ ReviewLift \in Nat /\ MaxRiskLift \in Nat /\ Scale \in Nat
      /\ ReviewLift <= Scale /\ MaxRiskLift <= Scale
  BY DEF ReviewLift, MaxRiskLift, Scale
<1>1. ReviewLift \in 0 .. Scale /\ lift \in 0 .. Scale /\ lift >= ReviewLift
  BY <1>0
<1>2. Clamp01(lift) = lift /\ Clamp01(ReviewLift) = ReviewLift
  BY <1>1, ClampKeeps, Zenon DEF Clamp01
<1> QED
  BY <1>1, <1>2 DEF Escalated

\* What an agent repeats is not waved through (PreemptiveDetectionLayer.assess with
\* ClassificationEngine.applyPreemptiveEscalation).
THEOREM BlockingRecurrenceEscalates == BlockingSpec => RecurrenceEscalates
<1> DEFINE A == pending.stage = "evaluated" /\ pending' = None
                /\ pending.recurring /\ pending.informed => result'.state # "auto-approve"
<1>1. ASSUME BlockingInv, [BlockingNext]_blockingVars
      PROVE  [A]_blockingVars
  <2>1. SUFFICES ASSUME BlockingNext, pending.stage = "evaluated", pending' = None,
                        pending.recurring, pending.informed
                 PROVE  result'.state # "auto-approve"
    BY <1>1
  <2>2. pending # None
    BY <2>1 DEF None
  <2>3. Finish
    BY <2>1, <2>2, Zenon
    DEF BlockingNext, Begin, RecordViolation, RecordDownstreamOutcome, IntegrateFeedback, Learn
  <2> DEFINE context == pending.request.classification
             state == VerdictAfter(violationHistory, pending.decision, pending.request)
  <2>4. context.preemptiveRiskLift \in ReviewLift .. MaxRiskLift
        /\ context.preemptiveEscalationThreshold = ReviewLift
    BY <1>1, <2>1, <2>2 DEF BlockingInv, PendingOK
  <2>5. result'.state = state
    BY <2>3 DEF Finish
  <2>6. state # "auto-approve"
    BY <2>4, LiftEscalates, Zenon DEF VerdictAfter, Classify
  <2> QED
    BY <2>5, <2>6
<1>2. BlockingSpec => [][A]_blockingVars
  BY <1>1, BlockingInvariant, PTL DEF BlockingSpec
<1> QED
  BY <1>2 DEF RecurrenceEscalates

-----------------------------------------------------------------------------
(* A violation in the place of a clean outcome.                            *)

\* b is g with a violation instead of a clean outcome at i.
Worsened(g, b, i) ==
    /\ g \in Seq(Outcome) /\ b \in Seq(Outcome) /\ Len(g) = Len(b) /\ i \in DOMAIN g
    /\ \A j \in DOMAIN g : j = i \/ g[j] = b[j]
    /\ ~g[i].violated /\ b[i].violated

LEMMA RateIsInt == ASSUME NEW x \in Seq(Outcome) PROVE ViolationRate(x) \in Int
<1> DEFINE X == {j \in DOMAIN x : x[j].violated}
           n == Len(x)
<1>1. n \in Nat /\ DOMAIN x = 1 .. n /\ (n = 0 => x = <<>>)
  OBVIOUS
<1>2. ViolationRate(x) = IF x = <<>> THEN 0 ELSE (Cardinality(X) * Scale) \div n
  BY DEF ViolationRate
<1>3. X \subseteq 1 .. n
  BY <1>1
<1> HIDE DEF X, n
<1>4. Cardinality(X) \in Nat
  <2>1. IsFiniteSet(1 .. n)
    BY <1>1, FS_Interval
  <2>2. IsFiniteSet(X)
    BY <1>3, <2>1, FS_Subset
  <2> QED
    BY <2>2, FS_CardinalityType
<1>5. CASE x # <<>>
  <2>1. n \in Nat \ {0} /\ Cardinality(X) * Scale \in Int
    BY <1>1, <1>4, <1>5 DEF Scale
  <2>2. (Cardinality(X) * Scale) \div n \in Int
    BY <2>1, Division
  <2> QED
    BY <1>2, <1>5, <2>2
<1> QED
  BY <1>2, <1>5

\* One violation more raises the rate, by one in Len(x) at most (the quotients are cut off).
LEMMA RateRaised ==
  ASSUME NEW x, NEW y, NEW i, Worsened(x, y, i)
  PROVE  /\ ViolationRate(x) \in Int /\ ViolationRate(y) \in Int
         /\ ViolationRate(x) <= ViolationRate(y)
         /\ Len(x) * ViolationRate(y) <= Len(x) * ViolationRate(x) + Scale + Len(x) - 1
<1> DEFINE n == Len(x)
           X == {j \in DOMAIN x : x[j].violated}
           Y == {j \in DOMAIN y : y[j].violated}
<1>1. n \in Nat \ {0} /\ DOMAIN x = 1 .. n /\ DOMAIN y = 1 .. n /\ x # <<>> /\ y # <<>>
  BY DEF Worsened
<1>2. X \subseteq 1 .. n /\ Y = X \cup {i} /\ i \notin X
  BY <1>1 DEF Worsened
<1>3. ViolationRate(x) = (Cardinality(X) * Scale) \div n
  BY <1>1 DEF ViolationRate
<1>4. ViolationRate(y) = (Cardinality(Y) * Scale) \div n
  BY <1>1 DEF ViolationRate, Worsened
<1> HIDE DEF n, X, Y
<1>5. IsFiniteSet(X)
  <2>1. IsFiniteSet(1 .. n)
    BY <1>1, FS_Interval
  <2> QED
    BY <1>2, <2>1, FS_Subset
<1>6. Cardinality(X) \in Nat /\ Cardinality(Y) = Cardinality(X) + 1
  BY <1>2, <1>5, FS_CardinalityType, FS_AddElement
<1> DEFINE a == Cardinality(X) * Scale
           b == Cardinality(Y) * Scale
<1>7. a \in Int /\ b \in Int /\ b = a + Scale /\ Scale \in Nat
  BY <1>6 DEF Scale
<1> HIDE DEF a, b
<1> DEFINE p == a \div n
           q == b \div n
<1>8. p \in Int /\ a < n * p + n /\ q \in Int /\ n * q <= b
  BY <1>1, <1>7, Division
<1>9. p <= q
  BY <1>1, <1>7, DivisionGrows
<1> HIDE DEF p, q
<1>10. n * p \in Int /\ n * q \in Int
  BY <1>1, <1>8
<1>11. n * q <= n * p + Scale + n - 1
  BY <1>1, <1>7, <1>8, <1>10
<1> QED
  BY <1>3, <1>4, <1>8, <1>9, <1>11 DEF a, b, p, q, n

\* The mean of the severities rises by the violation's share of it at least.
LEMMA SeverityRaised ==
  ASSUME NEW g, NEW b, NEW i, Worsened(g, b, i)
  PROVE  /\ SeverityRate(g) \in Nat /\ SeverityRate(b) \in Nat
         /\ b[i].severity \div Len(g) \in Nat
         /\ SeverityRate(g) + b[i].severity \div Len(g) <= SeverityRate(b)
<1> DEFINE n == Len(g)
           S == 1 .. n
           d == b[i].severity
           Severity(e) == IF e.violated THEN Clamp(e.severity, 1000, Scale) ELSE 0
           clean == [j \in S |-> Severity(g[j])]
           bad == [j \in S |-> Severity(b[j])]
<1>1. n \in Nat \ {0} /\ DOMAIN g = S /\ DOMAIN b = S /\ Len(b) = n /\ i \in S
  BY DEF Worsened
<1>2. ASSUME NEW e
      PROVE  Severity(e) \in Nat
  <2>1. 1000 \in Int /\ Scale \in Int /\ 1000 <= Scale
    BY DEF Scale
  <2>2. Clamp(e.severity, 1000, Scale) \in 1000 .. Scale
    BY <2>1, ClampRange
  <2> QED
    BY <2>1, <2>2
<1>3. SeverityRate(g) = SumFunction(clean) \div n
  BY <1>1 DEF SeverityRate
<1>4. SeverityRate(b) = SumFunction(bad) \div n
  BY <1>1 DEF SeverityRate
<1>5. \A j \in S : j = i \/ g[j] = b[j]
  BY <1>1 DEF Worsened
<1>6. d \in Nat /\ Severity(g[i]) = 0 /\ Severity(b[i]) >= d
  <2>1. b[i] \in Outcome
    BY <1>1 DEF Worsened
  <2>2. d \in 0 .. Scale
    BY <2>1, Zenon DEF Outcome
  <2>3. Severity(b[i]) = Clamp(d, 1000, Scale) /\ Severity(g[i]) = 0
    BY DEF Worsened
  <2> HIDE DEF d
  <2>4. Clamp(d, 1000, Scale) >= d /\ d \in Nat
    <3>1. d \in Int /\ 0 <= d /\ d <= Scale /\ Scale \in Int /\ 1000 \in Int /\ 1000 <= Scale
      <4>1. Scale \in Int /\ 1000 <= Scale
        BY DEF Scale
      <4> QED
        BY <2>2, <4>1
    <3>2. Clamp(d, 1000, Scale) = IF d < 1000 THEN 1000 ELSE IF d > Scale THEN Scale ELSE d
      BY <3>1, ClampForm
    <3> QED
      BY <3>1, <3>2
  <2> HIDE DEF d, Severity
  <2> QED
    BY <2>3, <2>4
<1> HIDE DEF Severity, d
<1>7. clean \in [S -> Nat] /\ bad \in [S -> Nat]
  BY <1>2
<1>8. \A j \in S : clean[j] <= bad[j]
  BY <1>2, <1>5, <1>6
<1>9. IsFiniteSet(S)
  BY <1>1, FS_Interval
<1>10. clean[i] + d <= bad[i]
  BY <1>1, <1>2, <1>6
<1> HIDE DEF clean, bad, S, n
<1> DEFINE x == SumFunction(clean)
           y == SumFunction(bad)
<1>11. x + d <= y
  <2>1. bad \in [S -> Int] /\ clean \in [S -> Int]
    BY <1>7
  <2> QED
    BY <1>1, <1>6, <1>8, <1>9, <1>10, <2>1, SumRaised
<1>12. x \in Nat /\ y \in Nat
  <2>1. \A k, l \in Nat : k + l \in Nat
    OBVIOUS
  <2>2. DOMAIN clean = S /\ DOMAIN bad = S
    BY <1>7
  <2>3. x \in Nat
    BY <1>7, <1>9, <2>1, <2>2, SumStays
  <2>4. y \in Nat
    BY <1>7, <1>9, <2>1, <2>2, SumStays
  <2> QED
    BY <2>3, <2>4
<1> HIDE DEF x, y
<1>13. x \div n \in Nat /\ y \div n \in Nat /\ d \div n \in Nat
  BY <1>1, <1>6, <1>12, DivisionNat
<1>14. x \div n + d \div n <= y \div n
  <2> DEFINE p == x \div n
             q == d \div n
  <2>1. n * p <= x /\ n * q <= d
    BY <1>1, <1>6, <1>12, Division
  <2>2. p \in Nat /\ q \in Nat
    BY <1>13
  <2> HIDE DEF p, q
  <2>3. n * (p + q) = n * p + n * q /\ n * p \in Nat /\ n * q \in Nat
    BY <1>1, <2>2
  <2>4. n * (p + q) <= y /\ p + q \in Int
    BY <1>6, <1>11, <1>12, <2>1, <2>2, <2>3
  <2>5. p + q <= y \div n
    BY <1>1, <1>12, <2>4, DivisionAtLeast
  <2> QED
    BY <2>5 DEF p, q
<1> QED
  BY <1>3, <1>4, <1>13, <1>14 DEF x, y, n, d

LEMMA HalfOf ==
  ASSUME NEW g \in Seq(Outcome), g # <<>>
  PROVE  /\ OlderHalf(g) \in Nat /\ 1 <= OlderHalf(g)
         /\ OlderHalf(g) <= Len(g) /\ Len(g) <= 2 * OlderHalf(g) + 1
<1> DEFINE n == Len(g)
<1>1. n \in Nat /\ n # 0
  OBVIOUS
<1>2. OlderHalf(g) = IF n = 1 THEN 1 ELSE n \div 2
  BY DEF OlderHalf
<1> HIDE DEF n
<1>3. LET s == IF n = 1 THEN 1 ELSE n \div 2
      IN  s \in Nat /\ 1 <= s /\ s <= n /\ n <= 2 * s + 1
  BY <1>1
<1> QED
  BY <1>2, <1>3 DEF n

\* The halves of a history, and the rates that the momentum compares.
Older(g) == SubSeq(g, 1, OlderHalf(g))
Recent(g) == SubSeq(g, OlderHalf(g) + 1, Len(g))

LEMMA MomentumForm ==
  ASSUME NEW g
  PROVE  Momentum(g) = Clamp01((ViolationRate(Recent(g)) - ViolationRate(Older(g)) + Scale) \div 2)
BY DEF Momentum, Older, Recent

LEMMA Halves ==
  ASSUME NEW g \in Seq(Outcome), g # <<>>
  PROVE  /\ Older(g) \in Seq(Outcome) /\ Recent(g) \in Seq(Outcome)
         /\ Len(Older(g)) = OlderHalf(g) /\ Len(Recent(g)) = Len(g) - OlderHalf(g)
         /\ \A j \in 1 .. OlderHalf(g) : Older(g)[j] = g[j]
         /\ \A j \in 1 .. Len(g) - OlderHalf(g) : Recent(g)[j] = g[OlderHalf(g) + j]
<1> DEFINE n == Len(g)
           s == OlderHalf(g)
<1>1. n \in Nat /\ s \in Nat /\ 1 <= s /\ s <= n
  BY HalfOf
<1> HIDE DEF s
<1>2. /\ SubSeq(g, 1, s) \in Seq(Outcome) /\ Len(SubSeq(g, 1, s)) = s
      /\ \A j \in 1 .. s : SubSeq(g, 1, s)[j] = g[j]
  BY <1>1
<1>3. /\ SubSeq(g, s + 1, n) \in Seq(Outcome) /\ Len(SubSeq(g, s + 1, n)) = n - s
      /\ \A j \in 1 .. n - s : SubSeq(g, s + 1, n)[j] = g[s + j]
  BY <1>1
<1> QED
  BY <1>2, <1>3 DEF Older, Recent, s

\* A violation in the recent half raises the momentum.
LEMMA RecentRaises ==
  ASSUME NEW g, NEW b, NEW i, Worsened(g, b, i), i > OlderHalf(g)
  PROVE  Momentum(g) \in Nat /\ Momentum(b) \in Nat /\ Momentum(g) <= Momentum(b)
<1> DEFINE s == OlderHalf(g)
           n == Len(g)
<1>1. /\ g \in Seq(Outcome) /\ b \in Seq(Outcome) /\ g # <<>> /\ b # <<>>
      /\ n \in Nat /\ Len(b) = n /\ OlderHalf(b) = s /\ i \in 1 .. n
      /\ \A j \in 1 .. n : j = i \/ g[j] = b[j]
  BY DEF Worsened, OlderHalf
<1>2. s \in Nat /\ 1 <= s /\ s <= n
  BY <1>1, HalfOf
<1> HIDE DEF s, n
<1>3. /\ Older(g) \in Seq(Outcome) /\ Recent(g) \in Seq(Outcome)
      /\ Len(Older(g)) = s /\ Len(Recent(g)) = n - s
      /\ \A j \in 1 .. s : Older(g)[j] = g[j]
      /\ \A j \in 1 .. n - s : Recent(g)[j] = g[s + j]
  BY <1>1, Halves DEF s, n
<1>4. /\ Older(b) \in Seq(Outcome) /\ Recent(b) \in Seq(Outcome)
      /\ Len(Older(b)) = s /\ Len(Recent(b)) = n - s
      /\ \A j \in 1 .. s : Older(b)[j] = b[j]
      /\ \A j \in 1 .. n - s : Recent(b)[j] = b[s + j]
  BY <1>1, Halves
<1>5. i \in Int /\ s < i
  BY <1>1, <1>2 DEF s
<1>6. Older(g) = Older(b)
  <2>1. \A j \in 1 .. s : j \in 1 .. n /\ j # i
    BY <1>1, <1>2, <1>5
  <2>2. \A j \in 1 .. s : Older(g)[j] = Older(b)[j]
    BY <1>1, <1>3, <1>4, <2>1
  <2> QED
    BY <1>2, <1>3, <1>4, <2>2
<1>7. Worsened(Recent(g), Recent(b), i - s)
  <2> DEFINE x == Recent(g)
             y == Recent(b)
             k == i - s
  <2>1. k \in 1 .. n - s /\ s + k = i /\ DOMAIN x = 1 .. n - s
    BY <1>1, <1>2, <1>3, <1>5
  <2>2. ~x[k].violated /\ y[k].violated
    <3>1. x[k] = g[i] /\ y[k] = b[i]
      BY <1>3, <1>4, <2>1
    <3> QED
      BY <3>1 DEF Worsened
  <2>3. \A j \in DOMAIN x : j = k \/ x[j] = y[j]
    <3>1. \A j \in 1 .. n - s : s + j \in 1 .. n /\ (s + j = i => j = k)
      <4>1. k \in Int /\ s + k = i
        BY <2>1
      <4> HIDE DEF k
      <4> QED
        BY <1>1, <1>2, <1>5, <4>1
    <3>2. \A j \in 1 .. n - s : x[j] = g[s + j] /\ y[j] = b[s + j]
      BY <1>3, <1>4
    <3> QED
      BY <1>1, <2>1, <3>1, <3>2
  <2> HIDE DEF x, y, k
  <2>4. x \in Seq(Outcome) /\ y \in Seq(Outcome) /\ Len(x) = Len(y)
    BY <1>3, <1>4 DEF x, y
  <2>5. Worsened(x, y, k)
    BY <2>1, <2>2, <2>3, <2>4 DEF Worsened
  <2> QED
    BY <2>5 DEF x, y, k
<1>8. ViolationRate(Older(g)) \in Int
  BY <1>3, RateIsInt
<1>9. /\ ViolationRate(Recent(g)) \in Int /\ ViolationRate(Recent(b)) \in Int
      /\ ViolationRate(Recent(g)) <= ViolationRate(Recent(b))
  BY <1>7, RateRaised
<1> DEFINE x == ViolationRate(Recent(g)) - ViolationRate(Older(g)) + Scale
           y == ViolationRate(Recent(b)) - ViolationRate(Older(g)) + Scale
<1>10. x \in Int /\ y \in Int /\ x <= y /\ 2 \in Nat \ {0}
  BY <1>8, <1>9 DEF Scale
<1>11. Momentum(g) = Clamp01(x \div 2) /\ Momentum(b) = Clamp01(y \div 2)
  BY <1>6, MomentumForm
<1> HIDE DEF x, y
<1>12. x \div 2 \in Int /\ y \div 2 \in Int /\ x \div 2 <= y \div 2
  BY <1>10, Division, DivisionGrows
<1>13. Clamp01(x \div 2) <= Clamp01(y \div 2)
  BY <1>12, Clamp01Grows
<1> QED
  BY <1>11, <1>13, Clamp01Nat

\* A value is not clamped by more than a larger one.
LEMMA Clamp01Near ==
  ASSUME NEW a \in Int, NEW c \in Int, NEW m \in Nat, a <= c + m
  PROVE  Clamp01(a) <= Clamp01(c) + m
<1>1. 0 \in Int /\ Scale \in Int /\ 0 <= Scale
  BY DEF Scale
<1>2. /\ Clamp01(a) = IF a < 0 THEN 0 ELSE IF a > Scale THEN Scale ELSE a
      /\ Clamp01(c) = IF c < 0 THEN 0 ELSE IF c > Scale THEN Scale ELSE c
  BY <1>1, ClampForm DEF Clamp01
<1> QED
  BY <1>1, <1>2

\* The momentum falls by m when a rate of the older half, of s outcomes, rises by d.
Falls(s, d, m) == s * d <= Scale + s - 1 /\ 2 * m <= d + 1

\* A violation in the older half lowers the momentum, by half of the rate d that one
\* outcome is in this half (the quotients are cut off).
LEMMA OlderLowers ==
  ASSUME NEW g, NEW b, NEW i, Worsened(g, b, i), i <= OlderHalf(g)
  PROVE  /\ Momentum(g) \in Nat /\ Momentum(b) \in Nat
         /\ \E d, m \in Nat : Falls(OlderHalf(g), d, m) /\ Momentum(g) <= Momentum(b) + m
<1> DEFINE s == OlderHalf(g)
           n == Len(g)
<1>1. /\ g \in Seq(Outcome) /\ b \in Seq(Outcome) /\ g # <<>> /\ b # <<>>
      /\ n \in Nat /\ Len(b) = n /\ OlderHalf(b) = s /\ i \in 1 .. n
      /\ \A j \in 1 .. n : j = i \/ g[j] = b[j]
  BY DEF Worsened, OlderHalf
<1>2. s \in Nat /\ 1 <= s /\ s <= n
  BY <1>1, HalfOf
<1>3. i \in 1 .. s
  BY <1>1, <1>2
<1> HIDE DEF s, n
<1>4. /\ Older(g) \in Seq(Outcome) /\ Recent(g) \in Seq(Outcome)
      /\ Len(Older(g)) = s /\ Len(Recent(g)) = n - s
      /\ \A j \in 1 .. s : Older(g)[j] = g[j]
      /\ \A j \in 1 .. n - s : Recent(g)[j] = g[s + j]
  BY <1>1, Halves DEF s, n
<1>5. /\ Older(b) \in Seq(Outcome) /\ Recent(b) \in Seq(Outcome)
      /\ Len(Older(b)) = s /\ Len(Recent(b)) = n - s
      /\ \A j \in 1 .. s : Older(b)[j] = b[j]
      /\ \A j \in 1 .. n - s : Recent(b)[j] = b[s + j]
  BY <1>1, Halves
<1>6. Recent(g) = Recent(b)
  <2>1. \A j \in 1 .. n - s : s + j \in 1 .. n /\ s + j # i
    BY <1>1, <1>2, <1>3
  <2>2. \A j \in 1 .. n - s : Recent(g)[j] = Recent(b)[j]
    BY <1>1, <1>4, <1>5, <2>1
  <2> QED
    BY <1>2, <1>4, <1>5, <2>2
<1>7. Worsened(Older(g), Older(b), i)
  <2> DEFINE x == Older(g)
             y == Older(b)
  <2>1. DOMAIN x = 1 .. s /\ \A j \in 1 .. s : j \in 1 .. n
    BY <1>1, <1>2, <1>4
  <2>2. ~x[i].violated /\ y[i].violated
    <3>1. x[i] = g[i] /\ y[i] = b[i]
      BY <1>3, <1>4, <1>5
    <3> QED
      BY <3>1 DEF Worsened
  <2>3. \A j \in DOMAIN x : j = i \/ x[j] = y[j]
    BY <1>1, <1>4, <1>5, <2>1
  <2> HIDE DEF x, y
  <2>4. x \in Seq(Outcome) /\ y \in Seq(Outcome) /\ Len(x) = Len(y)
    BY <1>4, <1>5 DEF x, y
  <2>5. Worsened(x, y, i)
    BY <1>3, <2>1, <2>2, <2>3, <2>4 DEF Worsened
  <2> QED
    BY <2>5 DEF x, y
<1> DEFINE r == ViolationRate(Recent(g))
           p == ViolationRate(Older(g))
           q == ViolationRate(Older(b))
<1>8. r \in Int
  BY <1>4, RateIsInt
<1>9. p \in Int /\ q \in Int /\ p <= q /\ s * q <= s * p + Scale + s - 1
  BY <1>4, <1>7, RateRaised
<1>10. /\ Momentum(g) = Clamp01((r - p + Scale) \div 2)
       /\ Momentum(b) = Clamp01((r - q + Scale) \div 2)
  BY <1>6, MomentumForm
<1> HIDE DEF r, p, q
<1> DEFINE d == q - p
           x == (r - p + Scale) \div 2
           y == (r - q + Scale) \div 2
<1>11. d \in Nat /\ s * d <= Scale + s - 1
  <2>1. s * d = s * q - s * p /\ s * q \in Int /\ s * p \in Int /\ Scale \in Int
    BY <1>2, <1>9 DEF Scale
  <2> QED
    BY <1>2, <1>9, <2>1
<1>12. x \in Int /\ y \in Int /\ y <= x /\ 2 * (x - y) <= d + 1
  <2>1. Scale \in Int
    BY DEF Scale
  <2>2. 2 * x <= r - p + Scale /\ r - q + Scale < 2 * y + 2 /\ x \in Int /\ y \in Int
    BY <1>8, <1>9, <2>1
  <2>3. y <= x
    BY <1>8, <1>9, <2>1
  <2> HIDE DEF x, y
  <2> QED
    BY <1>8, <1>9, <2>1, <2>2, <2>3
<1> DEFINE m == x - y
<1> HIDE DEF d, x, y
<1>13. m \in Nat /\ 2 * m <= d + 1 /\ x <= y + m
  BY <1>12
<1>14. Clamp01(x) <= Clamp01(y) + m
  BY <1>12, <1>13, Clamp01Near
<1>15. Momentum(g) = Clamp01(x) /\ Momentum(b) = Clamp01(y)
  BY <1>10 DEF x, y
<1> HIDE DEF m
<1>16. Falls(OlderHalf(g), d, m) /\ Momentum(g) <= Momentum(b) + m
  BY <1>11, <1>13, <1>14, <1>15 DEF s, Falls
<1>17. Momentum(g) \in Nat /\ Momentum(b) \in Nat
  BY <1>15, Clamp01Nat
<1> QED
  BY <1>11, <1>13, <1>16, <1>17

\* An older half of s outcomes, 250 at most, in a history of n.
Sizes(s, n) == s \in 1 .. 250 /\ n \in Nat /\ s <= n /\ n <= 2 * s + 1

\* A rise of the severity by q outweighs a fall of the momentum by m: 0.7 q against 0.3 m,
\* and what is cut off.
Outweighs(q, m) == 7 * q - 3 * m >= 10

LEMMA SeverityOutweighs ==
  ASSUME NEW s, NEW n, Sizes(s, n), NEW severity \in Nat, severity >= OutweighsTrend,
         NEW d \in Nat, NEW m \in Nat, Falls(s, d, m)
  PROVE  Outweighs(severity \div n, m)
<1> DEFINE q == severity \div n
           a == s * q
           c == s * m
           e == s * s
<1>a. s \in 1 .. 250 /\ n \in Nat \ {0} /\ s <= n /\ n <= 2 * s + 1 /\ severity >= 6500
  BY DEF Sizes, OutweighsTrend
<1>b. s * d <= 10000 + s - 1 /\ 2 * m <= d + 1
  BY DEF Falls, Scale
<1>1. q \in Nat /\ severity < n * q + n
  BY <1>a, Division, DivisionNat
<1> HIDE DEF q
<1>2. n * q <= 2 * a + q
  <2>1. n * q <= (2 * s + 1) * q
    BY <1>a, <1>1
  <2>2. (2 * s + 1) * q = 2 * a + q
    BY <1>a, <1>1
  <2> QED
    BY <2>1, <2>2
<1>3. 2 * c <= 10000 + 2 * s - 1
  <2>1. s * (2 * m) <= s * (d + 1)
    BY <1>a, <1>b
  <2>2. s * (2 * m) = 2 * c /\ s * (d + 1) = s * d + s
    BY <1>a
  <2> QED
    BY <1>a, <1>b, <2>1, <2>2
<1>4. a \in Nat /\ c \in Nat /\ e \in Nat /\ n * q \in Nat
  BY <1>a, <1>1
<1>5. 6500 - 2 * s <= 2 * a + q
  BY <1>a, <1>1, <1>2, <1>4
<1> SUFFICES ASSUME 7 * q <= 3 * m + 9 PROVE FALSE
  BY <1>1 DEF q, Outweighs
<1>6. 7 * a <= 3 * c + 9 * s
  <2>1. s * (7 * q) <= s * (3 * m + 9)
    BY <1>a, <1>1
  <2>2. s * (7 * q) = 7 * a /\ s * (3 * m + 9) = 3 * c + 9 * s
    BY <1>a, <1>1
  <2> QED
    BY <2>1, <2>2
<1>7. 15494 <= 38 * s + 3 * m
  <2> HIDE DEF a, c, e
  <2> QED
    BY <1>a, <1>1, <1>3, <1>4, <1>5, <1>6
<1>8. 30988 * s <= 76 * e + 6 * c
  <2>1. (2 * s) * 15494 <= (2 * s) * (38 * s + 3 * m)
    BY <1>a, <1>7
  <2>2. (2 * s) * 15494 = 30988 * s /\ (2 * s) * (38 * s + 3 * m) = 76 * e + 6 * c
    BY <1>a
  <2> QED
    BY <2>1, <2>2
<1>9. e <= 250 * s
  BY <1>a
<1>10. CASE s = 1 \/ s = 2
  <2>1. (s = 1 /\ e = 1) \/ (s = 2 /\ e = 4)
    BY <1>10
  <2> HIDE DEF a, c, e
  <2> QED
    BY <1>3, <1>4, <1>8, <2>1
<1>11. CASE s >= 3
  <2> HIDE DEF a, c, e
  <2> QED
    BY <1>a, <1>3, <1>4, <1>8, <1>9, <1>11
<1> QED
  BY <1>a, <1>10, <1>11

\* What is cut off a part is less than a unit.
CutOff(x, p) == 10000 * p <= x /\ x < 10000 * p + 10000

LEMMA PartBounds ==
  ASSUME NEW a \in Nat, NEW c \in Nat
  PROVE  Part(a, c) \in Nat /\ CutOff(a * c, Part(a, c))
<1> DEFINE x == a * c
<1>1. x \in Nat
  OBVIOUS
<1>2. Part(a, c) = x \div 10000
  BY <1>1 DEF Part, Quotient, Scale
<1> HIDE DEF x
<1>3. x \div 10000 \in Nat /\ 10000 * (x \div 10000) <= x /\ x < 10000 * (x \div 10000) + 10000
  BY <1>1, Division, DivisionNat
<1> QED
  BY <1>2, <1>3 DEF x, CutOff

\* The trend of a rate and a momentum.
TrendOf(severity, momentum) == Clamp01(Part(severity, 7000) + Part(momentum, 3000))

\* The trend, when nothing falls.
LEMMA TrendOfBoth ==
  ASSUME NEW mild \in Nat, NEW strict \in Nat, mild <= strict,
         NEW x \in Nat, NEW y \in Nat, x <= y
  PROVE  TrendOf(mild, x) <= TrendOf(strict, y)
<1>1. /\ Part(mild, 7000) \in Int /\ Part(strict, 7000) \in Int
      /\ Part(mild, 7000) <= Part(strict, 7000)
  BY PartGrows
<1>2. Part(x, 3000) \in Int /\ Part(y, 3000) \in Int /\ Part(x, 3000) <= Part(y, 3000)
  BY PartGrows
<1> QED
  BY <1>1, <1>2, Clamp01Grows DEF TrendOf

\* The same, for a severity that rises by q while the momentum falls by m at most.
LEMMA TrendOfSeverity ==
  ASSUME NEW mild \in Nat, NEW strict \in Nat, NEW q \in Nat, mild + q <= strict,
         NEW x \in Nat, NEW y \in Nat, NEW m \in Nat, x <= y + m, Outweighs(q, m)
  PROVE  TrendOf(mild, x) <= TrendOf(strict, y)
<1> DEFINE w == 7000
           v == 3000
           e == Part(mild, w)
           f == Part(strict, w)
           k == Part(x, v)
           l == Part(y, v)
<1>1. TrendOf(mild, x) = Clamp01(e + k) /\ TrendOf(strict, y) = Clamp01(f + l)
  BY DEF TrendOf
<1>2. w \in Nat /\ v \in Nat
  OBVIOUS
<1> HIDE DEF w, v
<1>3. e \in Nat /\ CutOff(mild * w, e) /\ f \in Nat /\ CutOff(strict * w, f)
  BY <1>2, PartBounds, Zenon
<1>4. k \in Nat /\ CutOff(x * v, k) /\ l \in Nat /\ CutOff(y * v, l)
  BY <1>2, PartBounds, Zenon
<1> HIDE DEF e, f, k, l
<1>5. e + k <= f + l /\ e + k \in Int /\ f + l \in Int
  BY <1>3, <1>4 DEF Outweighs, CutOff, w, v
<1>6. Clamp01(e + k) <= Clamp01(f + l)
  BY <1>5, Clamp01Grows
<1> QED
  BY <1>1, <1>6

\* A trend is not lower after a violation in the recent half, or a severe one anywhere.
LEMMA TrendGrows ==
  ASSUME NEW g, NEW b, NEW i, Worsened(g, b, i), Sizes(OlderHalf(g), Len(g)),
         i > OlderHalf(g) \/ b[i].severity >= OutweighsTrend
  PROVE  ViolationTrend(g) \in Nat /\ ViolationTrend(b) \in Nat
         /\ ViolationTrend(g) <= ViolationTrend(b)
<1> DEFINE s == OlderHalf(g)
           n == Len(g)
           severity == b[i].severity
           q == severity \div n
           mild == SeverityRate(g)
           strict == SeverityRate(b)
           x == Momentum(g)
           y == Momentum(b)
<1>1. g # <<>> /\ b # <<>> /\ g \in Seq(Outcome) /\ i \in Nat /\ b[i] \in Outcome
  BY DEF Worsened
<1>2. mild \in Nat /\ strict \in Nat /\ q \in Nat /\ mild + q <= strict
  BY SeverityRaised
<1>3. ViolationTrend(g) = TrendOf(mild, x) /\ ViolationTrend(b) = TrendOf(strict, y)
  BY <1>1 DEF ViolationTrend, TrendOf
<1>4. TrendOf(mild, x) \in Nat /\ TrendOf(strict, y) \in Nat
  BY Clamp01Nat DEF TrendOf
<1>5. s \in Nat
  BY <1>1, HalfOf
<1>6. severity \in Nat
  <2>1. severity \in 0 .. Scale
    BY <1>1, Zenon DEF Outcome
  <2> QED
    BY <2>1
<1>7. CASE i > s
  <2>1. x \in Nat /\ y \in Nat /\ x <= y
    BY <1>7, RecentRaises
  <2> HIDE DEF mild, strict, x, y, q
  <2>2. mild <= strict
    BY <1>2
  <2>3. TrendOf(mild, x) <= TrendOf(strict, y)
    BY <1>2, <2>1, <2>2, TrendOfBoth
  <2> QED
    BY <1>3, <1>4, <2>3
<1>8. CASE ~(i > s)
  <2>1. i <= s
    BY <1>1, <1>5, <1>8
  <2>2. x \in Nat /\ y \in Nat
    BY <2>1, OlderLowers
  <2>3. PICK d \in Nat, m \in Nat : Falls(s, d, m) /\ x <= y + m
    BY <2>1, OlderLowers
  <2>4. severity >= OutweighsTrend
    BY <1>8
  <2>5. Outweighs(q, m)
    BY <1>6, <2>3, <2>4, SeverityOutweighs
  <2> HIDE DEF mild, strict, x, y, q
  <2>6. TrendOf(mild, x) <= TrendOf(strict, y)
    BY <1>2, <2>2, <2>3, <2>5, TrendOfSeverity
  <2> QED
    BY <1>3, <1>4, <2>6
<1> QED
  BY <1>7, <1>8

\* A higher trend moves both thresholds up.
LEMMA ShiftGrows ==
  ASSUME NEW posture \in Nat, NEW entropy \in Nat, NEW s \in Nat, NEW t \in Nat, s <= t
  PROVE  /\ ThresholdShift(posture, entropy, s) \in Int
         /\ ThresholdShift(posture, entropy, t) \in Int
         /\ ThresholdShift(posture, entropy, s) <= ThresholdShift(posture, entropy, t)
<1> DEFINE base == Part(posture, 4500) + Part(entropy, 2500)
           x == Clamp01(base + Part(s, 3000))
           y == Clamp01(base + Part(t, 3000))
           rest == Part(entropy - 5000, 800)
<1>1. base \in Int /\ rest \in Int
  <2>1. Part(posture, 4500) \in Int
    BY PartInt
  <2>2. Part(entropy, 2500) \in Int
    BY PartInt
  <2>4. rest \in Int
    <3> DEFINE d == entropy - 5000
    <3>1. d \in Int
      OBVIOUS
    <3> HIDE DEF d
    <3>2. Part(d, 800) \in Int
      BY <3>1, PartInt
    <3> QED
      BY <3>2 DEF d
  <2> QED
    BY <2>1, <2>2, <2>4
<1>2. Part(s, 3000) \in Int /\ Part(t, 3000) \in Int /\ Part(s, 3000) <= Part(t, 3000)
  BY PartGrows
<1> HIDE DEF base, rest
<1>3. base + Part(s, 3000) \in Int /\ base + Part(t, 3000) \in Int
      /\ base + Part(s, 3000) <= base + Part(t, 3000)
  BY <1>1, <1>2
<1>4. x \in Nat /\ y \in Nat /\ x <= y
  BY <1>3, Clamp01Grows, Clamp01Nat
<1>5. ThresholdShift(posture, entropy, s) = Part(2 * (x - 5000), MaxShift) + rest
      /\ ThresholdShift(posture, entropy, t) = Part(2 * (y - 5000), MaxShift) + rest
  BY DEF ThresholdShift, base, rest
<1> HIDE DEF x, y
<1> DEFINE v == 2 * (x - 5000)
           w == 2 * (y - 5000)
<1>6. v \in Int /\ w \in Int /\ v <= w /\ MaxShift \in Nat
  BY <1>4 DEF MaxShift
<1> HIDE DEF v, w
<1>7. Part(v, MaxShift) \in Int /\ Part(w, MaxShift) \in Int
      /\ Part(v, MaxShift) <= Part(w, MaxShift)
  BY <1>6, PartGrows
<1> QED
  BY <1>1, <1>5, <1>7 DEF v, w

\* The band is never too narrow, so both limits only follow the shift.
LEMMA BandOfShift ==
  ASSUME NEW shift \in Int
  PROVE  NormalizedBand(7200 + shift, 4200 + shift)
           = [autoApproveMin |-> Clamp(7200 + shift, 5000, 9500),
              blockMax |-> Clamp(4200 + shift, 500, 7000)]
<1> DEFINE a == Clamp(7200 + shift, 5000, 9500)
           b == Clamp(4200 + shift, 500, 7000)
<1>1. /\ a = IF 7200 + shift < 5000 THEN 5000 ELSE IF 7200 + shift > 9500 THEN 9500
              ELSE 7200 + shift
      /\ b = IF 4200 + shift < 500 THEN 500 ELSE IF 4200 + shift > 7000 THEN 7000
              ELSE 4200 + shift
  BY ClampForm
<1> HIDE DEF a, b
<1>2. ~(a - b < 1200)
  BY <1>1
<1> QED
  BY <1>2 DEF NormalizedBand, MinReviewGap, a, b

LEMMA BandGrows ==
  ASSUME NEW posture \in Nat, NEW entropy \in Nat, NEW s \in Nat, NEW t \in Nat, s <= t
  PROVE  LET mild == ThresholdBand(posture, entropy, s)
             strict == ThresholdBand(posture, entropy, t)
         IN  /\ mild.autoApproveMin \in Int /\ strict.autoApproveMin \in Int
             /\ mild.blockMax \in Int /\ strict.blockMax \in Int
             /\ mild.autoApproveMin <= strict.autoApproveMin
             /\ mild.blockMax <= strict.blockMax
<1> DEFINE x == ThresholdShift(posture, entropy, s)
           y == ThresholdShift(posture, entropy, t)
<1>1. x \in Int /\ y \in Int /\ x <= y
  BY ShiftGrows
<1>2. ThresholdBand(posture, entropy, s) = NormalizedBand(7200 + x, 4200 + x)
      /\ ThresholdBand(posture, entropy, t) = NormalizedBand(7200 + y, 4200 + y)
  BY DEF ThresholdBand
<1> HIDE DEF x, y
<1>3. /\ Clamp(7200 + x, 5000, 9500) \in Int /\ Clamp(7200 + y, 5000, 9500) \in Int
      /\ Clamp(7200 + x, 5000, 9500) <= Clamp(7200 + y, 5000, 9500)
  BY <1>1, ClampForm
<1>4. /\ Clamp(4200 + x, 500, 7000) \in Int /\ Clamp(4200 + y, 500, 7000) \in Int
      /\ Clamp(4200 + x, 500, 7000) <= Clamp(4200 + y, 500, 7000)
  BY <1>1, ClampForm
<1>5. ThresholdBand(posture, entropy, s)
        = [autoApproveMin |-> Clamp(7200 + x, 5000, 9500), blockMax |-> Clamp(4200 + x, 500, 7000)]
  BY <1>1, <1>2, BandOfShift
<1>6. ThresholdBand(posture, entropy, t)
        = [autoApproveMin |-> Clamp(7200 + y, 5000, 9500), blockMax |-> Clamp(4200 + y, 500, 7000)]
  BY <1>1, <1>2, BandOfShift
<1> QED
  BY <1>3, <1>4, <1>5, <1>6

\* Higher thresholds or a lower score, and the same lift: never a milder state.
LEMMA StricterState ==
  ASSUME NEW score \in Int, NEW lower \in Int, lower <= score, NEW mild, NEW strict,
         mild.autoApproveMin \in Int, strict.autoApproveMin \in Int,
         mild.blockMax \in Int, strict.blockMax \in Int,
         mild.autoApproveMin <= strict.autoApproveMin, mild.blockMax <= strict.blockMax,
         NEW lift, NEW review, NEW block
  PROVE  Strictness(Escalated(ResolveState(lower, strict), lift, review, block))
           >= Strictness(Escalated(ResolveState(score, mild), lift, review, block))
<1> DEFINE a == ResolveState(score, mild)
           b == ResolveState(lower, strict)
<1>1. a \in ClassificationState /\ b \in ClassificationState
  BY DEF ResolveState, ClassificationState
<1>2. b = "auto-approve" => a = "auto-approve"
  BY DEF ResolveState
<1>3. b = "flag-for-review" => a # "block"
  BY DEF ResolveState
<1> HIDE DEF a, b
<1>4. /\ Strictness("auto-approve") = 0 /\ Strictness("flag-for-review") = 1
      /\ Strictness("block") = 2
  BY DEF Strictness
<1>5. \A state \in ClassificationState : Strictness(state) \in 0 .. 2
  BY <1>4 DEF ClassificationState
<1>6. CASE lift >= block
  BY <1>4, <1>6 DEF Escalated, a, b
<1>7. CASE ~(lift >= block) /\ lift >= review
  <2>1. /\ Escalated(a, lift, review, block)
              = IF a = "auto-approve" THEN "flag-for-review" ELSE a
        /\ Escalated(b, lift, review, block)
              = IF b = "auto-approve" THEN "flag-for-review" ELSE b
    BY <1>7 DEF Escalated
  <2>2. Strictness(Escalated(b, lift, review, block))
          >= Strictness(Escalated(a, lift, review, block))
    BY <1>1, <1>2, <1>3, <1>4, <2>1 DEF ClassificationState
  <2> QED
    BY <2>2 DEF a, b
<1>8. CASE ~(lift >= block) /\ ~(lift >= review)
  <2>1. Escalated(a, lift, review, block) = a /\ Escalated(b, lift, review, block) = b
    BY <1>8 DEF Escalated
  <2>2. Strictness(Escalated(b, lift, review, block))
          >= Strictness(Escalated(a, lift, review, block))
    BY <1>1, <1>2, <1>3, <1>4, <2>1 DEF ClassificationState
  <2> QED
    BY <2>2 DEF a, b
<1> QED
  BY <1>6, <1>7, <1>8

LEMMA ScoreIsInt ==
  ASSUME NEW decision, NEW context, NEW system, NEW m
  PROVE  DecisionScore(decision, context, system, m) \in Int
<1>1. RiskPressure(decision, context, system, m) \in Nat
  BY Clamp01Nat, SMT DEF RiskPressure
<1> QED
  BY <1>1 DEF DecisionScore, Scale

\* The older half of a window of at most 500 outcomes.
LEMMA SizesOf ==
  ASSUME HistoryWindow \in Nat, HistoryWindow <= 500,
         NEW g \in Seq(Outcome), g # <<>>, Len(g) <= HistoryWindow
  PROVE  Sizes(OlderHalf(g), Len(g))
<1> DEFINE n == Len(g)
           s == OlderHalf(g)
<1>1. s \in Nat /\ 1 <= s /\ s <= n /\ n <= 2 * s + 1
  BY HalfOf
<1>2. n \in Nat /\ n <= 500 /\ s = IF n = 1 THEN 1 ELSE n \div 2
  BY DEF OlderHalf
<1> HIDE DEF n, s
<1>3. s <= 250
  BY <1>1, <1>2
<1>4. Sizes(s, n)
  BY <1>1, <1>2, <1>3 DEF Sizes
<1> QED
  BY <1>4 DEF s, n

\* A history with another outcome in the place of one.
LEMMA Replaced ==
  ASSUME NEW history \in Seq(Outcome), NEW i \in DOMAIN history, NEW v \in Outcome
  PROVE  LET h == [history EXCEPT ![i] = v]
         IN  /\ h \in Seq(Outcome) /\ Len(h) = Len(history) /\ OlderHalf(h) = OlderHalf(history)
             /\ DOMAIN h = DOMAIN history /\ h[i] = v
             /\ \A j \in DOMAIN history : j = i \/ h[j] = history[j]
<1> DEFINE h == [history EXCEPT ![i] = v]
<1>1. h \in Seq(Outcome) /\ Len(h) = Len(history) /\ DOMAIN h = DOMAIN history /\ h[i] = v
      /\ \A j \in DOMAIN history : j = i \/ h[j] = history[j]
  OBVIOUS
<1> QED
  BY <1>1 DEF OlderHalf

\* In a window of at most 500 outcomes, a violation in the recent half of the history, or one
\* of severity 0.65 or more anywhere in it, never gives a waiting request lower thresholds
\* than a clean outcome in its place, whatever the rest of the history holds
\* (computeViolationTrendSnapshot, normalizeThresholdBand).
THEOREM BlockingViolationNeverRelaxes ==
  ASSUME HistoryWindow <= 500
  PROVE  BlockingSpec => []ViolationNeverRelaxes
<1>1. BlockingInv => ViolationNeverRelaxes
  <2> SUFFICES ASSUME BlockingInv, NEW i \in DOMAIN violationHistory,
                      NEW bad \in {v \in Violations : v.violated},
                      NEW good \in {v \in Violations : ~v.violated},
                      i > OlderHalf(violationHistory) \/ bad.severity >= OutweighsTrend
               PROVE  LET with(v) == BandAfter([violationHistory EXCEPT ![i] = v],
                                               pending.request)
                      IN  /\ with(bad).autoApproveMin >= with(good).autoApproveMin
                          /\ with(bad).blockMax >= with(good).blockMax
    BY Zenon DEF ViolationNeverRelaxes
  <2> DEFINE g == [violationHistory EXCEPT ![i] = good]
             b == [violationHistory EXCEPT ![i] = bad]
             s == OlderHalf(violationHistory)
             n == Len(violationHistory)
             posture == Clamp01(pending.request.classification.riskPosture)
             entropy == Clamp01(pending.request.classification.entropyLevel)
             mild == BandAfter(g, pending.request)
             strict == BandAfter(b, pending.request)
  <2>1. /\ violationHistory \in Seq(Outcome) /\ n <= HistoryWindow /\ HistoryWindow \in Nat
        /\ good \in Outcome /\ bad \in Outcome /\ bad.violated /\ ~good.violated
    BY HistoryWindowAssumption, BlockingAssumption DEF BlockingInv, AdaptiveTypeOK
  <2>2. /\ g \in Seq(Outcome) /\ Len(g) = n /\ OlderHalf(g) = s /\ DOMAIN g = DOMAIN violationHistory
        /\ g[i] = good /\ \A j \in DOMAIN violationHistory : j = i \/ g[j] = violationHistory[j]
    BY <2>1, Replaced
  <2>3. /\ b \in Seq(Outcome) /\ Len(b) = n /\ b[i] = bad
        /\ \A j \in DOMAIN violationHistory : j = i \/ b[j] = violationHistory[j]
    BY <2>1, Replaced
  <2> HIDE DEF g, b
  <2>4. Worsened(g, b, i)
    BY <2>1, <2>2, <2>3 DEF Worsened
  <2>5. Sizes(OlderHalf(g), Len(g))
    <3>1. g # <<>>
      BY <2>2
    <3>2. Len(g) <= HistoryWindow
      BY <2>1, <2>2
    <3> QED
      BY <2>1, <2>2, <3>1, <3>2, SizesOf
  <2>6. i > OlderHalf(g) \/ b[i].severity >= OutweighsTrend
    BY <2>2, <2>3
  <2>7. ViolationTrend(g) \in Nat /\ ViolationTrend(b) \in Nat
        /\ ViolationTrend(g) <= ViolationTrend(b)
    BY <2>4, <2>5, <2>6, TrendGrows
  <2>8. mild = ThresholdBand(posture, entropy, ViolationTrend(g))
        /\ strict = ThresholdBand(posture, entropy, ViolationTrend(b))
    BY DEF BandAfter
  <2>9. posture \in Nat /\ entropy \in Nat
    BY Clamp01Nat
  <2> HIDE DEF posture, entropy, mild, strict
  <2>10. /\ mild.autoApproveMin \in Int /\ strict.autoApproveMin \in Int
         /\ mild.blockMax \in Int /\ strict.blockMax \in Int
         /\ mild.autoApproveMin <= strict.autoApproveMin
         /\ mild.blockMax <= strict.blockMax
    BY <2>7, <2>8, <2>9, BandGrows
  <2>11. strict.autoApproveMin >= mild.autoApproveMin /\ strict.blockMax >= mild.blockMax
    BY <2>10
  <2> QED
    BY <2>11 DEF mild, strict, g, b
<1> QED
  BY <1>1, BlockingInvariant, PTL

-----------------------------------------------------------------------------
(* Predictions that came true.                                             *)

\* Every record of the history saw exactly what was predicted.
Exact(records) == \A i \in DOMAIN records : records[i].predicted = records[i].realized

ZeroErrors == [k \in Measure |-> 0]

LEMMA RecordIsTyped ==
  ASSUME NEW r \in Records
  PROVE  /\ DOMAIN r.predicted \subseteq Measure /\ DOMAIN r.realized \subseteq Measure
         /\ \A k \in DOMAIN r.predicted : r.predicted[k] \in Int
         /\ \A k \in DOMAIN r.realized : r.realized[k] \in Int
<1>1. IsFeedbackRecord(r)
  BY BlockingAssumption DEF Records
<1> QED
  BY <1>1 DEF IsFeedbackRecord

LEMMA ExactErrors ==
  ASSUME NEW s \in Seq(Records), Exact(s), NEW k
  PROVE  /\ IsFiniteSet(DOMAIN Errors(s, k)) /\ DOMAIN Errors(s, k) \subseteq DOMAIN s
         /\ \A i \in DOMAIN Errors(s, k) : Errors(s, k)[i] = 0
<1> DEFINE complete == {i \in DOMAIN s : k \in DOMAIN s[i].predicted \cap DOMAIN s[i].realized}
<1>1. Errors(s, k) = [i \in complete |-> Error(s[i], k)]
  BY DEF Errors
<1>2. IsFiniteSet(complete)
  <2>1. DOMAIN s = 1 .. Len(s) /\ Len(s) \in Int /\ complete \subseteq 1 .. Len(s)
    OBVIOUS
  <2> HIDE DEF complete
  <2>2. IsFiniteSet(1 .. Len(s))
    BY <2>1, FS_Interval
  <2> QED
    BY <2>1, <2>2, FS_Subset
<1>3. ASSUME NEW i \in complete
      PROVE  Error(s[i], k) = 0
  <2> DEFINE v == s[i].predicted[k]
  <2>1. s[i] \in Records /\ k \in DOMAIN s[i].predicted
    OBVIOUS
  <2>2. s[i].realized[k] = v
    BY DEF Exact
  <2>3. v \in Int /\ Clamp01(v) \in Nat
    BY <2>1, RecordIsTyped, Clamp01Nat
  <2> HIDE DEF v
  <2>4. Error(s[i], k) = IF k \in SimulationMeasure THEN v - v ELSE Clamp01(v) - Clamp01(v)
    BY <2>2 DEF Error, v
  <2> QED
    BY <2>3, <2>4
<1> HIDE DEF complete
<1> QED
  BY <1>1, <1>2, <1>3 DEF complete

LEMMA SumOfZeros ==
  ASSUME NEW f, IsFiniteSet(DOMAIN f), \A x \in DOMAIN f : f[x] = 0
  PROVE  SumFunction(f) = 0
<1>1. 0 \in {0} /\ (\A a, b \in {0} : a + b \in {0}) /\ \A x \in DOMAIN f : f[x] \in {0}
  OBVIOUS
<1>2. SumFunction(f) \in {0}
  BY <1>1, SumStays, Zenon
<1> QED
  BY <1>2

LEMMA MeanOfZeros ==
  ASSUME NEW f, IsFiniteSet(DOMAIN f), \A x \in DOMAIN f : f[x] = 0
  PROVE  Mean(f) = 0
<1>1. SumFunction(f) = 0
  BY SumOfZeros
<1>2. DOMAIN f # {} => Cardinality(DOMAIN f) \in Nat \ {0}
  BY FS_EmptySet, FS_CardinalityType
<1> QED
  BY <1>1, <1>2, QuotientZero DEF Mean

LEMMA PositiveSquare == ASSUME NEW q \in Int, q > 0 PROVE ~(q * q <= 0)
OBVIOUS

LEMMA RootOfZero == SquareRoot(0) = 0
<1> DEFINE isRoot(r, step) == r * r <= 0 /\ 0 < (r + step) * (r + step)
           coarse == CHOOSE h \in 0 .. 127 : isRoot(128 * h, 128)
<1>1. isRoot(128 * 0, 128) /\ 0 \in 0 .. 127
  OBVIOUS
<1>2. \A h \in 0 .. 127 : isRoot(128 * h, 128) => h = 0
  <2>1. SUFFICES ASSUME NEW h \in 0 .. 127, h > 0 PROVE ~((128 * h) * (128 * h) <= 0)
    OBVIOUS
  <2> DEFINE q == 128 * h
  <2>2. h \in Int /\ h > 0
    BY <2>1
  <2>3. q \in Int /\ q > 0
    BY <2>2
  <2> HIDE DEF q
  <2>4. ~(q * q <= 0)
    BY <2>3, PositiveSquare
  <2> QED
    BY <2>4 DEF q
<1>3. coarse = 0
  BY <1>1, <1>2
<1> HIDE DEF coarse
<1>4. SquareRoot(0) = CHOOSE r \in 128 * coarse .. 128 * coarse + 127 : isRoot(r, 1)
  BY DEF SquareRoot, coarse
<1>5. 128 * coarse = 0 /\ 128 * coarse + 127 = 127
  BY <1>3
<1>6. isRoot(0, 1) /\ 0 \in 0 .. 127
  OBVIOUS
<1>7. \A r \in 0 .. 127 : isRoot(r, 1) => r = 0
  <2>1. SUFFICES ASSUME NEW r \in 0 .. 127, r > 0 PROVE ~(r * r <= 0)
    OBVIOUS
  <2>2. r \in Int /\ r > 0
    BY <2>1
  <2> QED
    BY <2>2, PositiveSquare
<1> HIDE DEF isRoot
<1> QED
  BY <1>4, <1>5, <1>6, <1>7

LEMMA DeviationOfZeros ==
  ASSUME NEW f, IsFiniteSet(DOMAIN f), \A x \in DOMAIN f : f[x] = 0
  PROVE  StdDev(f) = 0
<1> DEFINE squares == [i \in DOMAIN f |-> (f[i] - Mean(f)) * (f[i] - Mean(f))]
           n == Cardinality(DOMAIN f)
<1>1. Mean(f) = 0 /\ n \in Nat
  BY MeanOfZeros, FS_CardinalityType
<1>2. \A i \in DOMAIN f : squares[i] = 0
  BY <1>1
<1>3. DOMAIN squares = DOMAIN f
  OBVIOUS
<1>4. StdDev(f) = IF n <= 1 THEN 0 ELSE SquareRoot(SumFunction(squares) \div n)
  BY DEF StdDev
<1> HIDE DEF squares, n
<1>5. SumFunction(squares) = 0
  BY <1>2, <1>3, SumOfZeros, Zenon
<1>6. ~(n <= 1) => 0 \div n = 0
  BY <1>1
<1> QED
  BY <1>4, <1>5, <1>6, RootOfZero

LEMMA ExactMeans ==
  ASSUME NEW s \in Seq(Records), Exact(s)
  PROVE  MeanErrors(s) = ZeroErrors
<1>1. \A k \in Measure : Mean(Errors(s, k)) = 0
  BY ExactErrors, MeanOfZeros, Zenon
<1> QED
  BY <1>1, Zenon DEF MeanErrors, ZeroErrors

LEMMA Zeros ==
  /\ \A n \in Int : -n = 0 - n
  /\ \A c \in Int : Part(0, c) = 0
  /\ Clamp01(0) = 0 /\ Magnitude(0) = 0
  /\ \A n \in Nat : Clamp(0, -n, n) = 0
<1>1. \A n \in Nat : Clamp(0, -n, n) = 0
  BY DEF Clamp
<1>2. Clamp01(0) = 0
  BY DEF Clamp01, Clamp, Scale
<1>3. \A n \in Int : -n = 0 - n
  OBVIOUS
<1>5. Magnitude(0) = 0
  BY DEF Magnitude
<1>4. \A c \in Int : Part(0, c) = 0
  BY PartZero
<1> QED
  BY <1>1, <1>2, <1>3, <1>4, <1>5

LEMMA ZeroErrorsAre ==
  /\ \A s \in Stage : s \in Measure /\ ZeroErrors[s] = 0
  /\ \A k \in SimulationMeasure : ZeroErrors[k] = 0
  /\ ZeroErrors["score"] = 0 /\ ZeroErrors["overall"] = 0
BY DEF ZeroErrors, Measure

LEMMA NoWeightDeltas ==
  ASSUME NEW d \in RiskDimension
  PROVE  WeightDeltas(ZeroErrors)[d] = 0
<1> DEFINE error == ZeroErrors
           over == Clamp01(-error["score"])
           under == Clamp01(error["score"])
           compliance == Clamp01(-error["overall"])
           simulation == Clamp01(Part(Magnitude(error["taskImpact"]), 4000)
                                 + Part(Magnitude(error["synergy"]), 2000)
                                 + Part(Magnitude(error["trust"]), 2000)
                                 + Part(Magnitude(error["intelligenceEvolution"]), 2000))
<1>1. /\ error["score"] = 0 /\ error["overall"] = 0 /\ error["taskImpact"] = 0
      /\ error["synergy"] = 0 /\ error["trust"] = 0 /\ error["intelligenceEvolution"] = 0
  BY ZeroErrorsAre DEF SimulationMeasure
<1>2. over = 0 /\ under = 0 /\ compliance = 0
  BY <1>1, Zeros
<1>3. simulation = 0
  BY <1>1, Zeros
<1>4. WeightDeltas(error) =
        [operationalRisk |-> Part(over, 9000) - Part(under, 4000),
         regulatoryExposure |-> Part(over, 8000) + Part(compliance, 11000) - Part(under, 3000),
         financialCost |-> Part(over, 2500) - Part(under, 1500),
         reputationalImpact |-> Part(over, 5000) + Part(compliance, 4000),
         cooperativeSystemStability |-> Part(over, 7000) + Part(simulation, 4000),
         predictedComplianceProbability |-> Part(compliance, 12000) - Part(under, 2000),
         simulationImpact |-> Part(simulation, 9000) - Part(under, 2000),
         opportunityCostProjection |-> Part(under, 4000) - Part(over, 6000),
         strategicMisalignment |-> Part(over, 3500) - Part(under, 2000)]
  BY DEF WeightDeltas
<1> HIDE DEF over, under, compliance, simulation, error
<1>5. \A c \in Int : /\ Part(over, c) = 0 /\ Part(under, c) = 0
                     /\ Part(compliance, c) = 0 /\ Part(simulation, c) = 0
  BY <1>2, <1>3, Zeros
<1> QED
  BY <1>4, <1>5 DEF RiskDimension, error

LEMMA NoAssumptionDeltas ==
  /\ \A k \in Assumption \ {"noiseAmplitude"} : AssumptionDeltas(ZeroErrors, 0)[k] = 0
  /\ AssumptionDeltas(ZeroErrors, 0).noiseAmplitude \in Int
  /\ AssumptionDeltas(ZeroErrors, 0).noiseAmplitude <= 0
<1> DEFINE error == ZeroErrors
<1>1. /\ error["taskImpact"] = 0 /\ error["synergy"] = 0 /\ error["trust"] = 0
      /\ error["intelligenceEvolution"] = 0
  BY ZeroErrorsAre DEF SimulationMeasure
<1> HIDE DEF error
<1>2. \A c \in Int : /\ Part(error["taskImpact"], c) = 0 /\ Part(error["synergy"], c) = 0
                     /\ Part(error["trust"], c) = 0
                     /\ Part(error["intelligenceEvolution"], c) = 0
  BY <1>1, Zeros
<1>3. \A k \in Assumption \ {"noiseAmplitude"} : AssumptionDeltas(error, 0)[k] = 0
  BY <1>2 DEF AssumptionDeltas, Assumption, DefaultAssumptions
<1>4. AssumptionDeltas(error, 0).noiseAmplitude = Part(0 - 1200, 5000)
  BY DEF AssumptionDeltas
<1>5. Part(0 - 1200, 5000) = -600
  BY DEF Part, Quotient, Scale
<1> QED
  BY <1>3, <1>4, <1>5 DEF error

\* What is learned from such a history.
LEMMA ExactLesson ==
  ASSUME NEW s \in Seq(Records), Exact(s)
  PROVE  /\ \A d \in RiskDimension : Lesson(s).weights[d] = 0
         /\ \A k \in Stage : Lesson(s).stages[k] = 0
         /\ \A t \in ActionTypes : Lesson(s).types[t] = 0
         /\ Lesson(s).drift = 0
         /\ Lesson(s).assumptions = AssumptionDeltas(ZeroErrors, 0)
<1>1. MeanErrors(s) = ZeroErrors
  BY ExactMeans
<1>2. Clamp(StdDev(Errors(s, "score")), 0, 4000) = 0
  <2>1. StdDev(Errors(s, "score")) = 0
    BY ExactErrors, DeviationOfZeros, Zenon
  <2> QED
    BY <2>1 DEF Clamp
<1>3. Clamp(0, -2500, 2500) = 0
  BY Zeros
<1>4. \A k \in Stage : StageDeltas(ZeroErrors)[k] = 0
  BY <1>3, ZeroErrorsAre DEF StageDeltas
<1>5. ASSUME NEW t \in ActionTypes
      PROVE  ViolationDeltas(s)[t] = 0
  <2> DEFINE error == Errors(s, "overall")
             ofType == {i \in DOMAIN error : s[i].actionType = t}
             errors == Restrict(error, ofType)
  <2>1. IsFiniteSet(DOMAIN error) /\ \A i \in DOMAIN error : error[i] = 0
    BY ExactErrors
  <2>2. ofType \subseteq DOMAIN error
    OBVIOUS
  <2>3. ViolationDeltas(s)[t] = Clamp(-Part(Mean(errors), 8000), -2500, 2500)
    BY DEF ViolationDeltas
  <2> HIDE DEF error, ofType
  <2>4. DOMAIN errors = ofType /\ \A i \in ofType : errors[i] = 0
    BY <2>1, <2>2 DEF Restrict
  <2>5. IsFiniteSet(ofType)
    BY <2>1, <2>2, FS_Subset
  <2> HIDE DEF errors
  <2>6. Mean(errors) = 0
    BY <2>4, <2>5, MeanOfZeros
  <2>7. -Part(Mean(errors), 8000) = 0
    BY <2>6, Zeros
  <2> QED
    BY <1>3, <2>3, <2>7
<1>6. DriftDelta(ZeroErrors, StageDeltas(ZeroErrors)) = 0
  <2>1. ZeroErrors["overall"] = 0 /\ StageDeltas(ZeroErrors)["persistence"] = 0
    BY <1>4, ZeroErrorsAre DEF Stage
  <2>2. -Part(0, 6000) - Part(0, 4000) = 0
    BY Zeros
  <2> QED
    BY <1>3, <2>1, <2>2 DEF DriftDelta
<1>7. /\ Lesson(s).weights = WeightDeltas(ZeroErrors)
      /\ Lesson(s).stages = StageDeltas(ZeroErrors)
      /\ Lesson(s).types = ViolationDeltas(s)
      /\ Lesson(s).drift = DriftDelta(ZeroErrors, StageDeltas(ZeroErrors))
      /\ Lesson(s).assumptions = AssumptionDeltas(ZeroErrors, 0)
  BY <1>1, <1>2 DEF Lesson
<1> QED
  BY <1>4, <1>5, <1>6, <1>7, NoWeightDeltas, Zenon

LEMMA RateIsNat ==
  ASSUME NEW rate
  PROVE  /\ \A low, high \in Nat : low <= high => Clamp(rate, low, high) \in Nat
         /\ Clamp(rate, 100, 5000) \in Nat
<1>1. \A low, high \in Nat : low <= high => Clamp(rate, low, high) \in Nat
  BY ClampRange
<1> QED
  BY <1>1

\* A delta of zero moves nothing.
LEMMA NothingMoves ==
  ASSUME BlockingInv, NEW deltas, NEW rate
  PROVE  /\ (\A d \in RiskDimension : deltas[d] = 0)
               => ApplyDeltas(multipliers, deltas, rate) = multipliers
         /\ (\A s \in Stage : deltas[s] = 0) => CalibratedStages(deltas, rate) = stageBias
         /\ (\A t \in ActionTypes : deltas[t] = 0)
               => CalibratedTypes(deltas, rate) = violationBias
<1> DEFINE lr == Clamp(rate, 100, 5000)
<1>1. lr \in Int /\ Part(0, lr) = 0
  BY RateIsNat, Zeros
<1>2. ASSUME \A d \in RiskDimension : deltas[d] = 0
      PROVE  ApplyDeltas(multipliers, deltas, rate) = multipliers
  <2>1. multipliers \in [RiskDimension -> Multiplier]
    BY DEF BlockingInv, AdaptiveTypeOK
  <2>2. ApplyDeltas(multipliers, deltas, rate)
          = [d \in RiskDimension |-> ClampMultiplier(multipliers[d] + Part(deltas[d], lr))]
    BY DEF ApplyDeltas
  <2> HIDE DEF lr
  <2>3. ASSUME NEW d \in RiskDimension
        PROVE  ClampMultiplier(multipliers[d] + Part(deltas[d], lr)) = multipliers[d]
    <3>1. multipliers[d] \in MinMultiplier .. MaxMultiplier /\ multipliers[d] \in Int
      <4>1. multipliers[d] \in Multiplier /\ MinMultiplier \in Int /\ MaxMultiplier \in Int
        BY <2>1 DEF MinMultiplier, MaxMultiplier
      <4> QED
        BY <4>1 DEF Multiplier
    <3>2. multipliers[d] + Part(deltas[d], lr) = multipliers[d]
      BY <1>1, <1>2, <3>1
    <3> QED
      BY <3>1, <3>2, ClampKeeps, Zenon DEF ClampMultiplier
  <2> QED
    BY <2>1, <2>2, <2>3
<1>3. ASSUME \A s \in Stage : deltas[s] = 0
      PROVE  CalibratedStages(deltas, rate) = stageBias
  <2>1. stageBias \in [Stage -> -MaxStageBias .. MaxStageBias]
    BY DEF BlockingInv, BiasesOK
  <2>2. CalibratedStages(deltas, rate)
          = [s \in Stage |-> Clamp(stageBias[s] + Part(deltas[s], lr), -MaxStageBias, MaxStageBias)]
    BY DEF CalibratedStages
  <2> HIDE DEF lr
  <2>3. ASSUME NEW s \in Stage
        PROVE  Clamp(stageBias[s] + Part(deltas[s], lr), -MaxStageBias, MaxStageBias) = stageBias[s]
    <3>1. stageBias[s] \in -MaxStageBias .. MaxStageBias /\ stageBias[s] \in Int
      BY <2>1, BoundsAreNatural
    <3>2. stageBias[s] + Part(deltas[s], lr) = stageBias[s]
      BY <1>1, <1>3, <3>1
    <3> QED
      BY <3>1, <3>2, ClampKeeps, Zenon
  <2> QED
    BY <2>1, <2>2, <2>3
<1>4. ASSUME \A t \in ActionTypes : deltas[t] = 0
      PROVE  CalibratedTypes(deltas, rate) = violationBias
  <2>1. violationBias \in [ActionTypes -> -MaxTypeBias .. MaxTypeBias]
    BY DEF BlockingInv, BiasesOK
  <2>2. CalibratedTypes(deltas, rate)
          = [t \in ActionTypes |->
                Clamp(violationBias[t] + Part(deltas[t], lr), -MaxTypeBias, MaxTypeBias)]
    BY DEF CalibratedTypes
  <2> HIDE DEF lr
  <2>3. ASSUME NEW t \in ActionTypes
        PROVE  Clamp(violationBias[t] + Part(deltas[t], lr), -MaxTypeBias, MaxTypeBias)
                 = violationBias[t]
    <3>1. violationBias[t] \in -MaxTypeBias .. MaxTypeBias /\ violationBias[t] \in Int
      BY <2>1, BoundsAreNatural
    <3>2. violationBias[t] + Part(deltas[t], lr) = violationBias[t]
      BY <1>1, <1>4, <3>1
    <3> QED
      BY <3>1, <3>2, ClampKeeps, Zenon
  <2> QED
    BY <2>1, <2>2, <2>3
<1> QED
  BY <1>2, <1>3, <1>4

LEMMA AssumptionsCalm ==
  ASSUME BlockingInv,
         assumptions' = AdjustedAssumptions(AssumptionDeltas(ZeroErrors, 0), SimulationLearningRate)
  PROVE  /\ \A k \in Assumption \ {"noiseAmplitude"} : assumptions'[k] = assumptions[k]
         /\ assumptions'.noiseAmplitude <= assumptions.noiseAmplitude
<1> DEFINE lr == Clamp(SimulationLearningRate, 100, 5000)
           deltas == AssumptionDeltas(ZeroErrors, 0)
           noise == "noiseAmplitude"
<1>1. lr \in Nat /\ Part(0, lr) = 0
  BY RateIsNat, Zeros
<1>2. assumptions' = [k \in Assumption |->
                        ClampAssumption(k, assumptions[k] + Part(deltas[k], lr))]
  BY DEF AdjustedAssumptions
<1>3. (\A k \in Assumption \ {noise} : deltas[k] = 0)
      /\ deltas[noise] \in Int /\ deltas[noise] <= 0 /\ noise \in Assumption
  BY NoAssumptionDeltas DEF Assumption, DefaultAssumptions
<1> HIDE DEF deltas, lr, noise
<1>4. ASSUME NEW k \in Assumption
      PROVE  /\ assumptions[k] \in LowOf(k) .. HighOf(k) /\ assumptions[k] \in Int
             /\ LowOf(k) \in Int /\ HighOf(k) \in Int /\ LowOf(k) <= HighOf(k)
             /\ \A value : ClampAssumption(k, value) = Clamp(value, LowOf(k), HighOf(k))
             /\ ClampAssumption(k, assumptions[k]) = assumptions[k]
  <2>1. assumptions[k] \in LowOf(k) .. HighOf(k)
    BY DEF BlockingInv, AssumptionsOK
  <2>2. /\ LowOf(k) \in Nat /\ HighOf(k) \in Nat /\ LowOf(k) <= HighOf(k)
        /\ \A value : ClampAssumption(k, value) = Clamp(value, LowOf(k), HighOf(k))
    BY AssumptionLimits, Zenon
  <2>3. Clamp(assumptions[k], LowOf(k), HighOf(k)) = assumptions[k]
    BY <2>1, ClampKeeps, Zenon
  <2> QED
    BY <2>1, <2>2, <2>3
<1>5. ASSUME NEW k \in Assumption \ {noise}
      PROVE  assumptions'[k] = assumptions[k]
  <2>1. assumptions[k] + Part(deltas[k], lr) = assumptions[k]
    BY <1>1, <1>3, <1>4
  <2> QED
    BY <1>2, <1>4, <2>1
<1>6. assumptions'[noise] <= assumptions[noise]
  <2> DEFINE before == assumptions[noise]
             after == before + Part(deltas[noise], lr)
             low == LowOf(noise)
             high == HighOf(noise)
  <2>1. Part(deltas[noise], lr) \in Int /\ Part(deltas[noise], lr) <= Part(0, lr)
    BY <1>1, <1>3, PartGrows
  <2>2. /\ before \in Int /\ after \in Int /\ after <= before
        /\ low \in Int /\ high \in Int /\ low <= high
    BY <1>1, <1>3, <1>4, <2>1
  <2>3. assumptions'[noise] = Clamp(after, low, high) /\ Clamp(before, low, high) = before
    BY <1>2, <1>3, <1>4
  <2> HIDE DEF before, after, low, high
  <2>4. Clamp(after, low, high) <= Clamp(before, low, high)
    BY <2>2, ClampGrows
  <2> QED
    BY <2>3, <2>4 DEF before
<1> QED
  BY <1>5, <1>6 DEF noise

\* A history of predictions that all came true leaves every multiplier, weight and bias
\* alone, and only calms the noise of the simulation (integrate, and the three modules it
\* adjusts).
THEOREM BlockingExactTeachesNothing == BlockingSpec => ExactTeachesNothing
<1> DEFINE A == feedback' # feedback
                  /\ (\A i \in DOMAIN feedback' : feedback'[i].predicted = feedback'[i].realized)
                  => /\ UNCHANGED <<multipliers, stageBias, violationBias, driftBias>>
                     /\ \A k \in Assumption \ {"noiseAmplitude"} : assumptions'[k] = assumptions[k]
                     /\ assumptions'.noiseAmplitude <= assumptions.noiseAmplitude
<1>1. ASSUME BlockingInv, [BlockingNext]_blockingVars
      PROVE  [A]_blockingVars
  <2>1. SUFFICES ASSUME BlockingNext, feedback' # feedback,
                        \A i \in DOMAIN feedback' : feedback'[i].predicted = feedback'[i].realized
                 PROVE  /\ UNCHANGED <<multipliers, stageBias, violationBias, driftBias>>
                        /\ \A k \in Assumption \ {"noiseAmplitude"} :
                              assumptions'[k] = assumptions[k]
                        /\ assumptions'.noiseAmplitude <= assumptions.noiseAmplitude
    BY <1>1
  <2>2. PICK batch \in Batches : IntegrateFeedback(batch)
    BY <2>1 DEF BlockingNext, Begin, Finish, RecordViolation, RecordDownstreamOutcome
  <2> DEFINE sample == Joined(batch)
             lesson == Lesson(sample)
  <2>3. /\ feedback' = sample
        /\ \/ UNCHANGED <<multipliers, learnedVars>>
           \/ /\ multipliers' = ApplyDeltas(multipliers, lesson.weights, WeightLearningRate)
              /\ assumptions' = AdjustedAssumptions(lesson.assumptions, SimulationLearningRate)
              /\ ApplyHistoricalCalibration(lesson.stages, lesson.types, lesson.drift, ComplianceLearningRate)
    BY <2>2, Zenon DEF IntegrateFeedback, Integrate
  <2>4. sample \in Seq(Records)
    BY BatchJoined, <1>1, Zenon DEF BlockingInv
  <2> HIDE DEF sample
  <2>5. Exact(sample)
    BY <2>1, <2>3 DEF Exact
  <2>6. /\ \A d \in RiskDimension : lesson.weights[d] = 0
        /\ \A k \in Stage : lesson.stages[k] = 0
        /\ \A t \in ActionTypes : lesson.types[t] = 0
        /\ lesson.drift = 0
        /\ lesson.assumptions = AssumptionDeltas(ZeroErrors, 0)
    BY <2>4, <2>5, ExactLesson, Zenon
  <2> HIDE DEF lesson
  <2>7. assumptions.noiseAmplitude \in Int
    <3>1. "noiseAmplitude" \in Assumption
      BY DEF Assumption, DefaultAssumptions
    <3>2. assumptions["noiseAmplitude"] \in LowOf("noiseAmplitude") .. HighOf("noiseAmplitude")
      BY <1>1, <3>1 DEF BlockingInv, AssumptionsOK
    <3> QED
      BY <3>2, AssumptionLimits
  <2>8. CASE UNCHANGED <<multipliers, learnedVars>>
    BY <2>7, <2>8 DEF learnedVars
  <2>9. CASE /\ multipliers' = ApplyDeltas(multipliers, lesson.weights, WeightLearningRate)
             /\ assumptions' = AdjustedAssumptions(lesson.assumptions, SimulationLearningRate)
             /\ ApplyHistoricalCalibration(lesson.stages, lesson.types, lesson.drift, ComplianceLearningRate)
    <3>1. multipliers' = multipliers
      BY <1>1, <2>6, <2>9, NothingMoves, Zenon
    <3>2. stageBias' = stageBias
      BY <1>1, <2>6, <2>9, NothingMoves, Zenon DEF ApplyHistoricalCalibration
    <3>3. violationBias' = violationBias
      BY <1>1, <2>6, <2>9, NothingMoves, Zenon DEF ApplyHistoricalCalibration
    <3>4. driftBias' = driftBias
      <4> DEFINE lr == Clamp(ComplianceLearningRate, 100, 5000)
      <4>1. driftBias' = Clamp(driftBias + Part(lesson.drift, lr), -MaxDriftBias, MaxDriftBias)
        BY <2>9 DEF ApplyHistoricalCalibration
      <4>2. lr \in Int
        BY RateIsNat
      <4> HIDE DEF lr
      <4>3. driftBias \in -MaxDriftBias .. MaxDriftBias /\ driftBias \in Int
        BY <1>1, BoundsAreNatural DEF BlockingInv, BiasesOK
      <4>4. driftBias + Part(lesson.drift, lr) = driftBias
        BY <2>6, <4>2, <4>3, Zeros
      <4> QED
        BY <4>1, <4>3, <4>4, ClampKeeps, Zenon
    <3>5. /\ \A k \in Assumption \ {"noiseAmplitude"} : assumptions'[k] = assumptions[k]
          /\ assumptions'.noiseAmplitude <= assumptions.noiseAmplitude
      BY <1>1, <2>6, <2>9, AssumptionsCalm, Zenon
    <3> QED
      BY <3>1, <3>2, <3>3, <3>4, <3>5
  <2> QED
    BY <2>3, <2>8, <2>9, Zenon
<1>2. BlockingSpec => [][A]_blockingVars
  BY <1>1, BlockingInvariant, PTL DEF BlockingSpec
<1> QED
  BY <1>2 DEF ExactTeachesNothing

-----------------------------------------------------------------------------
(* The root of the compliance forecast.                                    *)

\* Of a property that some number has and 0 has or does not have, the least one is 0 or its
\* predecessor has it not.
LEMMA FirstNumber ==
  ASSUME NEW P \in SUBSET Nat, NEW n \in P
  PROVE  \E m \in P : m <= n /\ (m = 0 \/ m - 1 \in Nat \ P)
<1>1. PICK m \in P : \A k \in P : m <= k
  BY LeastElement, Zenon
<1>2. m \in Nat /\ m <= n
  BY <1>1
<1>3. m # 0 => m - 1 \in Nat /\ ~(m <= m - 1)
  BY <1>2
<1> QED
  BY <1>1, <1>2, <1>3

\* What the two searches of SquareRoot look for.
IsRoot(x, r, step) == r * r <= x /\ x < (r + step) * (r + step)

LEMMA CoarseRoot ==
  ASSUME NEW x \in Nat, x < 16384 * 16384
  PROVE  \E h \in 0 .. 127 : IsRoot(x, 128 * h, 128)
<1> DEFINE P == {h \in Nat : x < (128 * h + 128) * (128 * h + 128)}
<1>1. 127 \in P
  OBVIOUS
<1>2. P \in SUBSET Nat
  OBVIOUS
<1> HIDE DEF P
<1>3. PICK h \in P : h <= 127 /\ (h = 0 \/ h - 1 \in Nat \ P)
  <2>1. \A n \in P : \E m \in P : m <= n /\ (m = 0 \/ m - 1 \in Nat \ P)
    BY <1>2, FirstNumber
  <2> QED
    BY <1>1, <2>1
<1>4. h \in Nat /\ h \in 0 .. 127
  BY <1>2, <1>3
<1>5. x < (128 * h + 128) * (128 * h + 128)
  BY <1>3 DEF P
<1>6. CASE h = 0
  BY <1>4, <1>5, <1>6 DEF IsRoot
<1>7. CASE h # 0
  <2>1. ~(x < (128 * (h - 1) + 128) * (128 * (h - 1) + 128))
    BY <1>3, <1>7 DEF P
  <2>2. 128 * (h - 1) + 128 = 128 * h
    BY <1>4
  <2>3. (128 * h) * (128 * h) \in Int
    BY <1>4
  <2>4. (128 * h) * (128 * h) <= x
    BY <2>1, <2>2, <2>3
  <2> QED
    BY <1>4, <1>5, <2>4 DEF IsRoot
<1> QED
  BY <1>6, <1>7

LEMMA FineRoot ==
  ASSUME NEW x \in Nat, NEW low \in Nat, low * low <= x, x < (low + 128) * (low + 128)
  PROVE  \E r \in low .. low + 127 : IsRoot(x, r, 1)
<1> DEFINE P == {k \in Nat : x < (low + k + 1) * (low + k + 1)}
<1>1. low + 127 + 1 = low + 128
  OBVIOUS
<1>2. 127 \in P
  BY <1>1
<1>3. P \in SUBSET Nat
  OBVIOUS
<1> HIDE DEF P
<1>4. PICK k \in P : k <= 127 /\ (k = 0 \/ k - 1 \in Nat \ P)
  <2>1. \A n \in P : \E m \in P : m <= n /\ (m = 0 \/ m - 1 \in Nat \ P)
    BY <1>3, FirstNumber
  <2> QED
    BY <1>2, <2>1
<1> DEFINE r == low + k
<1>5. k \in Nat /\ r \in low .. low + 127 /\ r \in Nat
  BY <1>3, <1>4
<1>6. x < (r + 1) * (r + 1)
  BY <1>4 DEF P
<1>7. r * r <= x
  <2>1. CASE k = 0
    <3>1. r = low
      BY <2>1
    <3> QED
      BY <3>1
  <2>2. CASE k # 0
    <3>1. ~(x < (low + (k - 1) + 1) * (low + (k - 1) + 1))
      BY <1>4, <2>2 DEF P
    <3>2. low + (k - 1) + 1 = r
      BY <1>5
    <3>3. ~(x < r * r) /\ r * r \in Int
      BY <1>5, <3>1, <3>2
    <3> QED
      BY <3>3
  <2> QED
    BY <2>1, <2>2
<1> QED
  BY <1>5, <1>6, <1>7 DEF IsRoot

LEMMA CoarseChosen ==
  ASSUME NEW x, \E h \in 0 .. 127 : IsRoot(x, 128 * h, 128)
  PROVE  LET coarse == CHOOSE h \in 0 .. 127 : IsRoot(x, 128 * h, 128)
         IN  coarse \in 0 .. 127 /\ IsRoot(x, 128 * coarse, 128)
BY Zenon

LEMMA FineChosen ==
  ASSUME NEW x, NEW low, \E r \in low .. low + 127 : IsRoot(x, r, 1)
  PROVE  LET root == CHOOSE r \in low .. low + 127 : IsRoot(x, r, 1)
         IN  root \in low .. low + 127 /\ IsRoot(x, root, 1)
BY Zenon

LEMMA RootIs ==
  ASSUME NEW x \in Nat, x < 16384 * 16384
  PROVE  LET r == SquareRoot(x) IN r \in Nat /\ r * r <= x /\ x < (r + 1) * (r + 1)
<1> DEFINE coarse == CHOOSE h \in 0 .. 127 : IsRoot(x, 128 * h, 128)
           low == 128 * coarse
           root == CHOOSE r \in low .. low + 127 : IsRoot(x, r, 1)
<1>1. \E h \in 0 .. 127 : IsRoot(x, 128 * h, 128)
  BY CoarseRoot
<1>2. coarse \in 0 .. 127 /\ IsRoot(x, low, 128)
  BY <1>1, CoarseChosen
<1>3. SquareRoot(x) = root
  BY DEF SquareRoot, IsRoot
<1> HIDE DEF coarse
<1>4. low \in Nat /\ low * low <= x /\ x < (low + 128) * (low + 128)
  BY <1>2 DEF IsRoot
<1> HIDE DEF low
<1>5. \E r \in low .. low + 127 : IsRoot(x, r, 1)
  BY <1>4, FineRoot
<1>6. root \in low .. low + 127 /\ IsRoot(x, root, 1)
  BY <1>5, FineChosen
<1> HIDE DEF root
<1> QED
  BY <1>3, <1>4, <1>6 DEF IsRoot

\* The geometric mean of two shares is a share.
LEMMA RootOfShares ==
  ASSUME NEW a \in 0 .. Scale, NEW b \in 0 .. Scale
  PROVE  SquareRoot(a * b) \in 0 .. Scale
<1>1. a \in Nat /\ b \in Nat /\ a <= Scale /\ b <= Scale /\ Scale \in Nat
  BY DEF Scale
<1>2. a * b \in Nat /\ a * b <= Scale * b /\ Scale * b <= Scale * Scale
  BY <1>1
<1>3. a * b <= Scale * Scale
  BY <1>1, <1>2
<1>4. a * b < 16384 * 16384
  <2>1. Scale * Scale < 16384 * 16384 /\ Scale * Scale \in Nat
    BY DEF Scale
  <2> QED
    BY <1>2, <1>3, <2>1
<1> DEFINE r == SquareRoot(a * b)
<1>5. r \in Nat /\ r * r <= a * b
  BY <1>2, <1>4, RootIs
<1> HIDE DEF r
<1>6. ~(Scale < r)
  <2> SUFFICES ASSUME Scale < r PROVE FALSE
    OBVIOUS
  <2>1. Scale * Scale < r * r
    BY <1>1, <1>5
  <2> QED
    BY <1>1, <1>2, <1>3, <1>5, <2>1
<1> QED
  BY <1>1, <1>5, <1>6 DEF r

LEMMA ForecastRange ==
  ASSUME NEW raw, NEW impact, NEW stages, NEW violations
  PROVE  OverallProbability(StageCompliance(raw, impact, stages, violations)) \in 0 .. Scale
<1> DEFINE p == StageCompliance(raw, impact, stages, violations)
<1>1. /\ p.initiation \in 0 .. Scale /\ p.execution \in 0 .. Scale
      /\ p.persistence \in 0 .. Scale /\ p.termination \in 0 .. Scale
  BY Clamp01Range DEF StageCompliance, Stage
<1> HIDE DEF p
<1> QED
  BY <1>1, RootOfShares DEF OverallProbability, p

-----------------------------------------------------------------------------
(* What every decision and every request of a run are.                     *)

LEMMA ScaleIsNat == Scale \in Nat
BY DEF Scale

LEMMA FractionInt ==
  ASSUME NEW x \in Int, NEW whole \in Nat \ {0}
  PROVE  Fraction(x, whole) \in Int
<1>1. x * Scale \in Int /\ Scale \in Int
  BY DEF Scale
<1>2. (x * Scale) \div whole \in Int
  BY <1>1, Division
<1> QED
  BY <1>1, <1>2 DEF Fraction

LEMMA FractionGrows ==
  ASSUME NEW x \in Int, NEW y \in Int, x <= y, NEW whole \in Nat \ {0}
  PROVE  Fraction(x, whole) <= Fraction(y, whole)
<1>1. Scale \in Nat /\ x * Scale \in Int /\ y * Scale \in Int /\ x * Scale <= y * Scale
  BY DEF Scale
<1>2. (x * Scale) \div whole \in Int /\ (x * Scale) \div whole <= (y * Scale) \div whole
  BY <1>1, Division, DivisionGrows
<1>3. x < whole => (x * Scale) \div whole <= Scale
  <2> SUFFICES ASSUME x < whole PROVE (x * Scale) \div whole <= Scale
    OBVIOUS
  <2> DEFINE q == (x * Scale) \div whole
  <2>1. q \in Int /\ whole * q <= x * Scale
    BY <1>1, Division
  <2> HIDE DEF q
  <2>2. x * Scale <= whole * Scale
    BY <1>1
  <2>3. q > Scale => whole * q > whole * Scale
    BY <1>1, <2>1
  <2>4. q <= Scale
    BY <1>1, <2>1, <2>2, <2>3
  <2> QED
    BY <2>4 DEF q
<1> QED
  BY <1>1, <1>2, <1>3 DEF Fraction

LEMMA FractionNat ==
  ASSUME NEW x \in Nat, NEW whole \in Nat \ {0}
  PROVE  Fraction(x, whole) \in Nat /\ Fraction(x, whole) <= Scale
<1>1. Scale \in Nat /\ x * Scale \in Nat
  BY DEF Scale
<1>2. (x * Scale) \div whole \in Nat
  BY <1>1, DivisionNat
<1>3. Fraction(x, whole) \in Nat
  BY <1>1, <1>2 DEF Fraction
<1>4. Fraction(x, whole) <= Fraction(IF x <= whole THEN whole ELSE x, whole)
  BY FractionGrows
<1>5. Fraction(IF x <= whole THEN whole ELSE x, whole) = Scale
  BY DEF Fraction
<1> QED
  BY <1>3, <1>4, <1>5

\* A share of a share.
LEMMA PartWithin ==
  ASSUME NEW a \in Nat, a <= Scale, NEW c \in Nat
  PROVE  Part(a, c) \in Nat /\ Part(a, c) <= c
<1>1. Scale \in Nat \ {0} /\ a * c \in Nat /\ Scale * c \in Nat /\ a * c <= Scale * c
  BY DEF Scale
<1>2. Part(a, c) \in Nat
  BY PartNat
<1>3. Part(a, c) = (a * c) \div Scale
  BY <1>1 DEF Part, Quotient
<1> DEFINE q == (a * c) \div Scale
<1>4. q \in Int /\ Scale * q <= a * c
  BY <1>1, Division
<1> HIDE DEF q
<1>5. q > c => Scale * q > Scale * c
  BY <1>1, <1>4
<1>6. q <= c
  BY <1>1, <1>4, <1>5
<1> QED
  BY <1>2, <1>3, <1>6 DEF q

\* What a decision consists of.
DecisionField ==
    {"actionType", "requiredResources", "permissions", "policyExposure", "systemStabilityScore",
     "estimatedRecoveryTimeSeconds", "realWorldTaskImpact", "predictiveSynergyDensity",
     "trustWeightedPropagation", "cooperativeIntelligenceEvolution", "computationalCostScore",
     "estimatedFinancialExpenditure", "bandwidthUtilization", "opportunityTradeoffScore",
     "projectedOpportunityCostOfBlocking", "economicEfficiencyScore", "overallProbability",
     "misalignmentPenalty"}

\* The types of the fields that the riskier decisions change, and of those beside them.
DecisionOK(d) ==
    /\ DOMAIN d = DecisionField
    /\ d = [f \in DecisionField |-> d[f]]
    /\ DOMAIN d.requiredResources = 1 .. 3
    /\ \A i \in 1 .. 3 : /\ d.requiredResources[i].amount \in Int
                         /\ d.requiredResources[i].criticality \in {"HIGH", "MEDIUM", "LOW"}
    /\ IsFiniteSet(d.permissions)
    /\ d.policyExposure = <<[exposureLevel |-> DefaultExposure, potentialViolations |-> 0]>>
    /\ d.systemStabilityScore \in Int /\ d.estimatedRecoveryTimeSeconds \in Int
    /\ d.computationalCostScore \in 0 .. Scale
    /\ d.estimatedFinancialExpenditure \in Int /\ d.bandwidthUtilization \in Int
    /\ d.overallProbability \in 0 .. Scale /\ d.misalignmentPenalty \in 0 .. Scale

SystemOK(system) == system.loadFactor \in Int /\ system.recoveryBacklogSeconds \in Int

BoostsOK(context) ==
    \A d \in DOMAIN context.dimensionPriorities : context.dimensionPriorities[d] \in Int

EvaluatedOK ==
    pending.stage = "evaluated" =>
        /\ DecisionOK(pending.decision)
        /\ SystemOK(pending.request.system) /\ BoostsOK(pending.request.risk)

LEMMA ResourcesRequired ==
  ASSUME NEW raw, raw.params \in Nat, raw.bytes \in Nat
  PROVE  LET resources == RequiredResources(raw)
         IN  /\ DOMAIN resources = 1 .. 3
             /\ \A i \in 1 .. 3 : /\ resources[i].amount \in Nat
                                  /\ resources[i].criticality \in {"HIGH", "MEDIUM", "LOW"}
<1> DEFINE cpu == (raw.bytes * 40 + 256) \div 512
           network == raw.bytes \div 1048576
           resources == RequiredResources(raw)
<1>1. raw.bytes * 40 + 256 \in Nat /\ 512 \in Nat \ {0} /\ 1048576 \in Nat \ {0}
  OBVIOUS
<1>2. cpu \in Nat /\ network \in Nat
  BY <1>1, DivisionNat
<1> HIDE DEF cpu, network
<1>3. /\ DOMAIN resources = 1 .. 3
      /\ resources[1].amount \in Nat /\ resources[2].amount \in Nat /\ resources[3].amount \in Nat
      /\ resources[1].criticality \in {"MEDIUM", "LOW"}
      /\ resources[2].criticality \in {"MEDIUM", "LOW"} /\ resources[3].criticality = "LOW"
  BY <1>2 DEF RequiredResources, cpu, network
<1> HIDE DEF resources
<1>4. \A i \in 1 .. 3 : i = 1 \/ i = 2 \/ i = 3
  OBVIOUS
<1> QED
  BY <1>3, <1>4 DEF resources

LEMMA DecisionIsTyped ==
  ASSUME NEW raw \in RawActions, NEW noise
  PROVE  DecisionOK(Decision(raw, noise))
<1> DEFINE d == Decision(raw, noise)
           cpu == CpuMillis(raw)
           calls == ApiCalls(raw)
           network == NetworkMegabytes(raw)
<1>1. raw.params \in Nat /\ raw.bytes \in Nat
  BY BlockingAssumption
<1>2. /\ DOMAIN RequiredResources(raw) = 1 .. 3
      /\ \A i \in 1 .. 3 : /\ RequiredResources(raw)[i].amount \in Nat
                           /\ RequiredResources(raw)[i].criticality \in {"HIGH", "MEDIUM", "LOW"}
  BY <1>1, ResourcesRequired
<1>3. cpu \in Nat /\ calls \in Nat /\ network \in Nat
  BY <1>2 DEF CpuMillis, ApiCalls, NetworkMegabytes
<1>4. FinancialExpenditure(raw) \in Int
  <2>1. FinancialExpenditure(raw) = cpu \div 5 + calls + (3 * network) \div 20
    BY DEF FinancialExpenditure
  <2> HIDE DEF cpu, calls, network
  <2>2. cpu \div 5 \in Int /\ (3 * network) \div 20 \in Int
    BY <1>3, Division
  <2> QED
    BY <1>3, <2>1, <2>2
<1>5. ComputationalCost(raw) \in 0 .. Scale
  <2> DEFINE io == 15 * calls + 8 * network
  <2>1. io \in Nat
    BY <1>3
  <2>2. ComputationalCost(raw)
          = Part(Fraction(cpu, 1500), 7000) + Part(Fraction(io, 120), 3000)
    BY DEF ComputationalCost
  <2> HIDE DEF cpu, io
  <2>3. /\ Fraction(cpu, 1500) \in Nat /\ Fraction(cpu, 1500) <= Scale
        /\ Fraction(io, 120) \in Nat /\ Fraction(io, 120) <= Scale
    BY <1>3, <2>1, FractionNat
  <2>4. /\ Part(Fraction(cpu, 1500), 7000) \in Nat /\ Part(Fraction(cpu, 1500), 7000) <= 7000
        /\ Part(Fraction(io, 120), 3000) \in Nat
        /\ Part(Fraction(io, 120), 3000) <= 3000
    BY <2>3, PartWithin
  <2>5. Scale = 7000 + 3000
    BY DEF Scale
  <2>6. ComputationalCost(raw) \in Nat
    BY <2>2, <2>4
  <2>7. ComputationalCost(raw) <= Scale
    BY <2>2, <2>4, <2>5
  <2> QED
    BY <2>6, <2>7, ScaleIsNat
<1> HIDE DEF cpu, calls, network
<1> DEFINE impact == Simulation(raw, assumptions, noise)
           forecast == OverallProbability(StageCompliance(raw, impact, stageBias, violationBias))
           penalty == MisalignmentPenalty(raw.text, {"api_call", "cpu", "network_egress_mb"},
                                          impact)
<1>6. forecast \in 0 .. Scale
  BY ForecastRange
<1>7. penalty \in 0 .. Scale
  BY Clamp01Range DEF MisalignmentPenalty
<1>8. IsFiniteSet({"EXECUTE"})
  BY FS_Singleton
<1>9. /\ d.overallProbability = forecast /\ d.misalignmentPenalty = penalty
      /\ d.computationalCostScore = ComputationalCost(raw)
      /\ d.estimatedFinancialExpenditure = FinancialExpenditure(raw)
      /\ d.requiredResources = RequiredResources(raw)
      /\ d.permissions = {"EXECUTE"} /\ d.systemStabilityScore = 9500
      /\ d.estimatedRecoveryTimeSeconds = 0 /\ d.bandwidthUtilization = 10 * network
      /\ d.policyExposure = <<[exposureLevel |-> DefaultExposure, potentialViolations |-> 0]>>
  BY DEF Decision, network
<1>10. DOMAIN d = DecisionField /\ d = [f \in DecisionField |-> d[f]]
  BY DEF Decision, DecisionField
<1> HIDE DEF d, forecast, penalty
<1> QED
  <2>1. /\ DOMAIN d.requiredResources = 1 .. 3
        /\ \A i \in 1 .. 3 : /\ d.requiredResources[i].amount \in Int
                             /\ d.requiredResources[i].criticality \in {"HIGH", "MEDIUM", "LOW"}
    BY <1>2, <1>9
  <2>2. /\ d.systemStabilityScore \in Int /\ d.estimatedRecoveryTimeSeconds \in Int
        /\ d.bandwidthUtilization \in Int /\ d.estimatedFinancialExpenditure \in Int
    BY <1>3, <1>4, <1>9
  <2>3. d.computationalCostScore \in 0 .. Scale /\ d.overallProbability \in 0 .. Scale
        /\ d.misalignmentPenalty \in 0 .. Scale
    BY <1>5, <1>6, <1>7, <1>9
  <2>4. IsFiniteSet(d.permissions)
    BY <1>8, <1>9
  <2>5. DecisionOK(d)
    BY <1>9, <1>10, <2>1, <2>2, <2>3, <2>4 DEF DecisionOK
  <2> QED
    BY <2>5 DEF d

LEMMA EvaluatedStep == BlockingInv /\ EvaluatedOK /\ [BlockingNext]_blockingVars => EvaluatedOK'
<1> SUFFICES ASSUME EvaluatedOK, [BlockingNext]_blockingVars PROVE EvaluatedOK'
  OBVIOUS
<1>1. ASSUME NEW raw \in RawActions, NEW c \in Circumstances, NEW t, NEW noise,
             NEW informed, Begin(raw, c, t, noise, informed)
      PROVE  EvaluatedOK'
  <2> DEFINE request == Request(raw, c, t, IF informed THEN Assess(Profile(raw)) ELSE 0)
  <2>1. pending'.decision = Decision(raw, noise) /\ pending'.request = request
    BY <1>1 DEF Begin
  <2>2. DecisionOK(Decision(raw, noise))
    BY DecisionIsTyped
  <2>3. request.system = c.system
        /\ request.risk.dimensionPriorities = c.dimensionPriorities
    BY DEF Request
  <2>4. SystemOK(request.system) /\ BoostsOK(request.risk)
    BY <2>3, BlockingAssumption DEF SystemOK, BoostsOK
  <2> HIDE DEF request
  <2> QED
    BY <2>1, <2>2, <2>4, Zenon DEF EvaluatedOK
<1>2. CASE Finish
  BY <1>2 DEF Finish, EvaluatedOK, None
<1>3. CASE \E outcome \in Violations : RecordViolation(outcome)
  BY <1>3, Zenon DEF RecordViolation, Learn, EvaluatedOK
<1>4. CASE \E event \in Downstream : RecordDownstreamOutcome(event)
  BY <1>4, Zenon DEF RecordDownstreamOutcome, Learn, EvaluatedOK
<1>5. CASE \E batch \in Batches : IntegrateFeedback(batch)
  BY <1>5, Zenon DEF IntegrateFeedback, Learn, EvaluatedOK
<1>6. CASE UNCHANGED blockingVars
  BY <1>6, Zenon DEF blockingVars, EvaluatedOK
<1> QED
  BY <1>1, <1>2, <1>3, <1>4, <1>5, <1>6, Zenon DEF BlockingNext

LEMMA BlockingEvaluated == BlockingSpec => []EvaluatedOK
<1>1. BlockingInit => EvaluatedOK
  BY DEF BlockingInit, EvaluatedOK, None
<1> QED
  BY <1>1, BlockingInvariant, EvaluatedStep, PTL DEF BlockingSpec

-----------------------------------------------------------------------------
(* More risk, more pressure.                                               *)

\* Every dimension is at least as bad in t as in s.
WorseScores(s, t) ==
    /\ \A d \in RiskDimension : s[d] \in Int /\ t[d] \in Int
    /\ \A d \in AveragedDimensions : s[d] <= t[d]
    /\ t["predictedComplianceProbability"] <= s["predictedComplianceProbability"]
    /\ t["simulationImpact"] = s["simulationImpact"]
    /\ t["opportunityCostProjection"] = s["opportunityCostProjection"]

LEMMA SumOfNats ==
  ASSUME NEW fun, IsFiniteSet(DOMAIN fun), \A x \in DOMAIN fun : fun[x] \in Nat
  PROVE  SumFunction(fun) \in Nat
<1>1. 0 \in Nat /\ \A a, b \in Nat : a + b \in Nat
  OBVIOUS
<1> QED
  BY <1>1, SumStays

LEMMA SumOfInts ==
  ASSUME NEW fun, IsFiniteSet(DOMAIN fun), \A x \in DOMAIN fun : fun[x] \in Int
  PROVE  SumFunction(fun) \in Int
<1>1. 0 \in Int /\ \A a, b \in Int : a + b \in Int
  OBVIOUS
<1> QED
  BY <1>1, SumStays

LEMMA DimensionsAreFinite == IsFiniteSet(RiskDimension) /\ IsFiniteSet(AveragedDimensions)
                             /\ AveragedDimensions \subseteq RiskDimension
<1>1. RiskDimension = {"operationalRisk", "regulatoryExposure"}
         \cup {"financialCost", "reputationalImpact"}
         \cup {"cooperativeSystemStability", "predictedComplianceProbability"}
         \cup {"simulationImpact", "opportunityCostProjection"}
         \cup {"strategicMisalignment", "strategicMisalignment"}
  BY DEF RiskDimension
<1>2. IsFiniteSet(RiskDimension)
  <2>1. \A x, y : IsFiniteSet({x, y})
    <3>1. ASSUME NEW x, NEW y PROVE IsFiniteSet({x, y})
      <4>1. {x, y} = {x} \cup {y} /\ IsFiniteSet({x}) /\ IsFiniteSet({y})
        BY FS_Singleton
      <4> QED
        BY <4>1, FS_Union
    <3> QED
      BY <3>1
  <2>2. \A S, T : IsFiniteSet(S) /\ IsFiniteSet(T) => IsFiniteSet(S \cup T)
    BY FS_Union
  <2> QED
    BY <1>1, <2>1, <2>2, Zenon
<1>3. AveragedDimensions \subseteq RiskDimension
  BY DEF AveragedDimensions, RiskDimension
<1> QED
  BY <1>2, <1>3, FS_Subset

LEMMA WeightsAreNatural ==
  ASSUME NEW decision, NEW context, NEW system, NEW m,
         SystemOK(system), BoostsOK(context), \A d \in RiskDimension : m[d] \in Int
  PROVE  \A d \in RiskDimension : Weights(decision, context, system, m)[d] \in Nat
<1> DEFINE raw == [d \in RiskDimension |-> RawWeight(d, decision, context, system, m)]
           sum == SumFunction(raw)
           factors == WeightFactors(decision, context, system)
<1>1. ASSUME NEW d \in RiskDimension
      PROVE  /\ factors[d][1] \in Int /\ factors[d][2] \in Int /\ factors[d][3] \in Int
             /\ BaseWeights[d] \in Int
  <2>1. Part(system.loadFactor, 4000) \in Int /\ Part(system.loadFactor, 8000) \in Int
    BY PartGrows DEF SystemOK
  <2> DEFINE budget == Clamp01(context.budgetPressure)
             data == Clamp01(context.dataSensitivity)
  <2>2. budget \in Nat /\ data \in Nat /\ Scale - budget \in Int /\ Scale - data \in Int
    BY Clamp01Nat, ScaleIsNat
  <2> HIDE DEF budget, data
  <2>3. \A n \in Nat : \A x \in Int : Part(x, n) \in Int
    BY PartInt
  <2>7. /\ Part(data, 7000) \in Int /\ Part(data, 5000) \in Int /\ Part(budget, 9000) \in Int
    BY <2>2, <2>3
  <2>8. Part(Scale - budget, 3500) \in Int /\ Part(Scale - data, 1500) \in Int
    BY <2>2, <2>3
  <2>4. \A condition : \A factor \in Int : When(condition, factor) \in Int
    BY ScaleIsNat DEF When
  <2>5. Scale \in Int
    BY ScaleIsNat
  <2>6. BaseWeights[d] \in Int
    BY DEF BaseWeights, RiskDimension
  <2> QED
    BY <2>1, <2>4, <2>5, <2>6, <2>7, <2>8 DEF WeightFactors, RiskDimension, budget, data
<1> HIDE DEF factors
<1>2. ASSUME NEW d \in RiskDimension
      PROVE  Boost(context, d) \in Int
  BY ScaleIsNat DEF Boost, BoostsOK
<1>3. ASSUME NEW d \in RiskDimension
      PROVE  raw[d] \in Nat
  <2> DEFINE a == Part(BaseWeights[d], factors[d][1])
             b == Part(a, factors[d][2])
             c == Part(b, factors[d][3])
             boosted == Part(c, Boost(context, d))
             weight == Part(boosted, m[d])
  <2>1. a \in Int
    BY <1>1, PartInt
  <2>2. b \in Int
    BY <1>1, <2>1, PartInt
  <2>3. c \in Int
    BY <1>1, <2>2, PartInt
  <2>4. boosted \in Int
    BY <1>2, <2>3, PartInt
  <2>5. weight \in Int
    BY <2>4, PartInt
  <2>6. raw[d] = IF weight < 0 THEN 0 ELSE weight
    BY DEF RawWeight, factors
  <2> HIDE DEF weight, raw
  <2> QED
    BY <2>5, <2>6
<1>4. DOMAIN raw = RiskDimension
  OBVIOUS
<1>5. Weights(decision, context, system, m)
        = [d \in RiskDimension |-> IF sum = 0 THEN Scale \div 9 ELSE (raw[d] * Scale) \div sum]
  BY DEF Weights
<1> HIDE DEF raw
<1>6. sum \in Nat
  BY <1>3, <1>4, DimensionsAreFinite, SumOfNats
<1>7. Scale \div 9 \in Nat
  BY ScaleIsNat, DivisionNat
<1> HIDE DEF sum
<1>8. ASSUME NEW d \in RiskDimension, sum # 0
      PROVE  (raw[d] * Scale) \div sum \in Nat
  <2>1. raw[d] * Scale \in Nat /\ sum \in Nat \ {0}
    BY <1>3, <1>6, <1>8, ScaleIsNat
  <2> QED
    BY <2>1, DivisionNat
<1> QED
  BY <1>5, <1>7, <1>8

LEMMA WeightedRiskGrows ==
  ASSUME NEW s, NEW t, WorseScores(s, t), NEW w, \A d \in RiskDimension : w[d] \in Nat
  PROVE  /\ WeightedRisk(s, w) \in Int /\ WeightedRisk(t, w) \in Int
         /\ WeightedRisk(s, w) <= WeightedRisk(t, w)
<1> DEFINE D == AveragedDimensions
           sum == SumFunction([d \in D |-> w[d]])
           mild == [d \in D |-> s[d] * w[d]]
           severe == [d \in D |-> t[d] * w[d]]
<1>1. IsFiniteSet(D) /\ D \subseteq RiskDimension
  BY DimensionsAreFinite
<1>2. sum \in Nat
  BY <1>1, SumOfNats
<1>3. ASSUME NEW d \in D
      PROVE  mild[d] \in Int /\ severe[d] \in Int /\ mild[d] <= severe[d]
  <2>1. s[d] \in Int /\ t[d] \in Int /\ s[d] <= t[d] /\ w[d] \in Nat
    BY <1>1 DEF WorseScores
  <2>2. s[d] * w[d] \in Int /\ t[d] * w[d] \in Int /\ s[d] * w[d] <= t[d] * w[d]
    BY <2>1
  <2> QED
    BY <2>2
<1>4. mild \in [D -> Int] /\ severe \in [D -> Int]
  BY <1>3
<1>5. /\ WeightedRisk(s, w) = IF sum = 0 THEN 0 ELSE Quotient(SumFunction(mild), sum)
      /\ WeightedRisk(t, w) = IF sum = 0 THEN 0 ELSE Quotient(SumFunction(severe), sum)
  BY DEF WeightedRisk
<1> HIDE DEF D, sum, mild, severe
<1>6. /\ SumFunction(mild) \in Int /\ SumFunction(severe) \in Int
      /\ SumFunction(mild) <= SumFunction(severe)
  BY <1>1, <1>3, <1>4, SumGrows
<1>7. sum # 0 => /\ Quotient(SumFunction(mild), sum) \in Int
                 /\ Quotient(SumFunction(severe), sum) \in Int
                 /\ Quotient(SumFunction(mild), sum) <= Quotient(SumFunction(severe), sum)
  BY <1>2, <1>6, QuotientInt, QuotientGrows
<1> QED
  BY <1>5, <1>7

LEMMA PressureGrows ==
  ASSUME NEW s, NEW t, WorseScores(s, t), NEW w, \A d \in RiskDimension : w[d] \in Nat
  PROVE  BasePressure(s, w) <= BasePressure(t, w)
<1> DEFINE ps == Clamp01(Part(s["predictedComplianceProbability"],
                             w["predictedComplianceProbability"]))
           pt == Clamp01(Part(t["predictedComplianceProbability"],
                             w["predictedComplianceProbability"]))
           ms == Clamp01(Part(s["strategicMisalignment"], w["strategicMisalignment"]))
           mt == Clamp01(Part(t["strategicMisalignment"], w["strategicMisalignment"]))
           simulation == Clamp01(Part(s["simulationImpact"], w["simulationImpact"]))
           opportunity == Clamp01(Part(s["opportunityCostProjection"],
                                  w["opportunityCostProjection"]))
           riskS == Part(WeightedRisk(s, w), 4500)
           riskT == Part(WeightedRisk(t, w), 4500)
           lackS == Part(Scale - ps, 1300)
           lackT == Part(Scale - pt, 1300)
           lackSim == Part(Scale - simulation, 1200)
           lackOpp == Part(Scale - opportunity, 1200)
           shareS == Part(ms, 1800)
           shareT == Part(mt, 1800)
<1>1. /\ "predictedComplianceProbability" \in RiskDimension
      /\ "strategicMisalignment" \in RiskDimension
      /\ "strategicMisalignment" \in AveragedDimensions
  BY DEF RiskDimension, AveragedDimensions
<1>2. /\ ps \in Nat /\ pt \in Nat /\ ms \in Nat /\ mt \in Nat
      /\ simulation \in Nat /\ opportunity \in Nat
  BY Clamp01Nat
<1>3. pt <= ps
  BY <1>1, PartGrows, Clamp01Grows DEF WorseScores
<1>4. ms <= mt
  BY <1>1, PartGrows, Clamp01Grows DEF WorseScores
<1>5. BasePressure(s, w) = Clamp01(riskS + lackS + lackSim + lackOpp + shareS)
  BY DEF BasePressure
<1>6. BasePressure(t, w) = Clamp01(riskT + lackT + lackSim + lackOpp + shareT)
  BY DEF BasePressure, WorseScores
<1> HIDE DEF ps, pt, ms, mt, simulation, opportunity
<1>7. riskS \in Int /\ riskT \in Int /\ riskS <= riskT
  BY WeightedRiskGrows, PartGrows
<1>8. lackS \in Int /\ lackT \in Int /\ lackS <= lackT
  <2>1. Scale - ps \in Int /\ Scale - pt \in Int /\ Scale - ps <= Scale - pt
    BY <1>2, <1>3, ScaleIsNat
  <2> QED
    BY <2>1, PartGrows
<1>9. lackSim \in Int /\ lackOpp \in Int
  <2>1. Scale - simulation \in Int /\ Scale - opportunity \in Int
    BY <1>2, ScaleIsNat
  <2> QED
    BY <2>1, PartGrows
<1>10. shareS \in Int /\ shareT \in Int /\ shareS <= shareT
  BY <1>2, <1>4, PartGrows
<1> HIDE DEF riskS, riskT, lackS, lackT, lackSim, lackOpp, shareS, shareT
<1>11. /\ riskS + lackS + lackSim + lackOpp + shareS \in Int
       /\ riskT + lackT + lackSim + lackOpp + shareT \in Int
       /\ riskS + lackS + lackSim + lackOpp + shareS
            <= riskT + lackT + lackSim + lackOpp + shareT
  <2>1. /\ riskS + lackS \in Int /\ riskT + lackT \in Int
        /\ riskS + lackS <= riskT + lackT
    BY <1>7, <1>8
  <2>2. /\ riskS + lackS + lackSim + lackOpp \in Int
        /\ riskT + lackT + lackSim + lackOpp \in Int
        /\ riskS + lackS + lackSim + lackOpp <= riskT + lackT + lackSim + lackOpp
    BY <1>9, <2>1
  <2> QED
    BY <1>10, <2>2
<1> QED
  BY <1>5, <1>6, <1>11, Clamp01Grows

\* The decisions that Riskier lists, and what they have in common.
Worse(d, e) ==
    /\ \A f \in {"requiredResources", "permissions", "estimatedRecoveryTimeSeconds",
                 "realWorldTaskImpact", "predictiveSynergyDensity", "trustWeightedPropagation",
                 "cooperativeIntelligenceEvolution", "bandwidthUtilization",
                 "opportunityTradeoffScore", "projectedOpportunityCostOfBlocking",
                 "economicEfficiencyScore"} : e[f] = d[f]
    /\ e.misalignmentPenalty \in Int /\ d.misalignmentPenalty <= e.misalignmentPenalty
    /\ e.overallProbability \in Int /\ e.overallProbability <= d.overallProbability
    /\ e.systemStabilityScore \in Int /\ e.systemStabilityScore <= d.systemStabilityScore
    /\ e.computationalCostScore \in Int /\ d.computationalCostScore <= e.computationalCostScore
    /\ e.estimatedFinancialExpenditure \in Int
    /\ d.estimatedFinancialExpenditure <= e.estimatedFinancialExpenditure
    /\ \/ e.policyExposure = d.policyExposure
       \/ e.policyExposure = Append(d.policyExposure,
                                    [exposureLevel |-> Scale, potentialViolations |-> 2])

\* More or less, cut off, of a share.
LEMMA ClampedMove ==
  ASSUME NEW x \in 0 .. Scale, NEW n \in Nat
  PROVE  /\ Clamp01(x + n) \in Int /\ x <= Clamp01(x + n)
         /\ Clamp01(x - n) \in Int /\ Clamp01(x - n) <= x
<1>1. 0 \in Int /\ Scale \in Int /\ 0 <= Scale /\ x \in Int /\ x + n \in Int /\ x - n \in Int
  BY ScaleIsNat
<1>2. /\ Clamp01(x + n) = IF x + n < 0 THEN 0 ELSE IF x + n > Scale THEN Scale ELSE x + n
      /\ Clamp01(x - n) = IF x - n < 0 THEN 0 ELSE IF x - n > Scale THEN Scale ELSE x - n
  BY <1>1, ClampForm DEF Clamp01
<1> QED
  BY <1>1, <1>2

LEMMA RiskierIsWorse ==
  ASSUME NEW d, DecisionOK(d), NEW e \in Riskier(d)
  PROVE  Worse(d, e)
<1>1. DOMAIN d = DecisionField /\ d = [f \in DecisionField |-> d[f]]
  BY DEF DecisionOK
<1>2. ASSUME NEW f \in DecisionField, NEW v
      PROVE  /\ [d EXCEPT ![f] = v][f] = v
             /\ \A g \in DecisionField \ {f} : [d EXCEPT ![f] = v][g] = d[g]
  BY <1>1
<1>3. /\ d.misalignmentPenalty \in 0 .. Scale /\ d.overallProbability \in 0 .. Scale
      /\ d.computationalCostScore \in 0 .. Scale
      /\ d.systemStabilityScore \in Int /\ d.estimatedFinancialExpenditure \in Int
      /\ d.misalignmentPenalty \in Int /\ d.overallProbability \in Int
      /\ d.computationalCostScore \in Int
  BY ScaleIsNat DEF DecisionOK
<1> DEFINE Moved == Raised(d)
<1>5. /\ Moved.misalignmentPenalty \in Int /\ d.misalignmentPenalty <= Moved.misalignmentPenalty
      /\ Moved.computationalCostScore \in Int
      /\ d.computationalCostScore <= Moved.computationalCostScore
  BY <1>3, ClampedMove DEF Raised
<1>6. Moved.overallProbability \in Int /\ Moved.overallProbability <= d.overallProbability
  <2>1. \A n \in Nat : /\ Clamp01(d.overallProbability - n) \in Int
                       /\ Clamp01(d.overallProbability - n) <= d.overallProbability
    BY <1>3, ClampedMove
  <2> QED
    BY <2>1 DEF Raised
<1>7. /\ Moved.systemStabilityScore \in Int
      /\ Moved.systemStabilityScore <= d.systemStabilityScore
      /\ Moved.estimatedFinancialExpenditure \in Int
      /\ d.estimatedFinancialExpenditure <= Moved.estimatedFinancialExpenditure
  BY <1>3 DEF Raised
<1>8. Moved.policyExposure = Append(d.policyExposure,
                                    [exposureLevel |-> Scale, potentialViolations |-> 2])
  BY DEF Raised
<1>9. DOMAIN Moved = {"misalignmentPenalty", "overallProbability", "systemStabilityScore",
                      "computationalCostScore", "estimatedFinancialExpenditure", "policyExposure"}
  BY DEF Raised
<1>10. PICK f \in DOMAIN Moved : e = [d EXCEPT ![f] = Moved[f]]
  BY DEF Riskier
<1> HIDE DEF Moved
<1>11. f \in DecisionField
  BY <1>9, <1>10 DEF DecisionField
<1>12. e[f] = Moved[f] /\ \A g \in DecisionField \ {f} : e[g] = d[g]
  BY <1>2, <1>10, <1>11
<1>13. \A g \in DecisionField : e[g] = IF g = f THEN Moved[f] ELSE d[g]
  BY <1>12
<1>14. ASSUME NEW g \in {"requiredResources", "permissions", "estimatedRecoveryTimeSeconds",
                 "realWorldTaskImpact", "predictiveSynergyDensity", "trustWeightedPropagation",
                 "cooperativeIntelligenceEvolution", "bandwidthUtilization",
                 "opportunityTradeoffScore", "projectedOpportunityCostOfBlocking",
                 "economicEfficiencyScore"}
       PROVE  e[g] = d[g]
  <2>1. g \in DecisionField /\ g \notin DOMAIN Moved
    BY <1>9 DEF DecisionField
  <2> QED
    BY <1>10, <1>13, <2>1
<1>15. \A g \in DOMAIN Moved : g \in DecisionField /\ (e[g] = Moved[g] \/ e[g] = d[g])
  BY <1>9, <1>13 DEF DecisionField
<1>16. /\ e.misalignmentPenalty = Moved.misalignmentPenalty
            \/ e.misalignmentPenalty = d.misalignmentPenalty
       /\ e.overallProbability = Moved.overallProbability
            \/ e.overallProbability = d.overallProbability
       /\ e.systemStabilityScore = Moved.systemStabilityScore
            \/ e.systemStabilityScore = d.systemStabilityScore
       /\ e.computationalCostScore = Moved.computationalCostScore
            \/ e.computationalCostScore = d.computationalCostScore
       /\ e.estimatedFinancialExpenditure = Moved.estimatedFinancialExpenditure
            \/ e.estimatedFinancialExpenditure = d.estimatedFinancialExpenditure
       /\ e.policyExposure = Moved.policyExposure \/ e.policyExposure = d.policyExposure
  BY <1>9, <1>15
<1>17. /\ e.misalignmentPenalty \in Int /\ d.misalignmentPenalty <= e.misalignmentPenalty
       /\ e.overallProbability \in Int /\ e.overallProbability <= d.overallProbability
       /\ e.systemStabilityScore \in Int /\ e.systemStabilityScore <= d.systemStabilityScore
       /\ e.computationalCostScore \in Int
       /\ d.computationalCostScore <= e.computationalCostScore
       /\ e.estimatedFinancialExpenditure \in Int
       /\ d.estimatedFinancialExpenditure <= e.estimatedFinancialExpenditure
  BY <1>3, <1>5, <1>6, <1>7, <1>16
<1> QED
  BY <1>8, <1>14, <1>16, <1>17 DEF Worse

\* A sum of one or of two terms.
LEMMA SumOfFew ==
  ASSUME NEW f, \A x \in DOMAIN f : f[x] \in Int
  PROVE  /\ DOMAIN f = {1} => SumFunction(f) = f[1]
         /\ DOMAIN f = {1, 2} => SumFunction(f) = f[1] + f[2]
<1>1. IsFiniteSet({1}) /\ IsFiniteSet({2}) /\ {1, 2} = {1} \cup {2}
  BY FS_Singleton
<1>2. IsFiniteSet({1, 2})
  BY <1>1, FS_Union
<1>3. ASSUME NEW S, DOMAIN f = S, NEW g, SumsOver(f, S, g), NEW x, {x} \subseteq S
      PROVE  g[{x}] = f[x]
  <2>1. Picked({x}) = x /\ {x} \ {x} = {} /\ {} \in SUBSET S /\ {x} \in SUBSET S
    BY <1>3 DEF Picked
  <2>2. g[{}] = 0 /\ g[{x}] = f[x] + g[{}]
    BY <1>3, <2>1 DEF SumsOver
  <2> QED
    BY <1>3, <2>2
<1>4. DOMAIN f = {1} => SumFunction(f) = f[1]
  BY <1>1, <1>3, SumUnfolded
<1>5. ASSUME DOMAIN f = {1, 2}
      PROVE  SumFunction(f) = f[1] + f[2]
  <2>1. PICK g : SumsOver(f, {1, 2}, g) /\ SumFunction(f) = g[{1, 2}]
    BY <1>2, <1>5, SumUnfolded
  <2>2. g[{1}] = f[1] /\ g[{2}] = f[2]
    BY <1>3, <1>5, <2>1
  <2>3. Picked({1, 2}) = 1 \/ Picked({1, 2}) = 2
    BY DEF Picked
  <2>4. {1, 2} \ {1} = {2} /\ {1, 2} \ {2} = {1}
    OBVIOUS
  <2>5. g[{1, 2}] = f[Picked({1, 2})] + g[{1, 2} \ {Picked({1, 2})}]
    BY <2>1 DEF SumsOver
  <2>6. f[1] \in Int /\ f[2] \in Int
    BY <1>5
  <2>7. CASE Picked({1, 2}) = 1
    <3>1. g[{1, 2}] = f[1] + g[{2}]
      BY <2>4, <2>5, <2>7
    <3> QED
      BY <2>1, <2>2, <3>1
  <2>8. CASE Picked({1, 2}) = 2
    <3>1. g[{1, 2}] = f[2] + g[{1}]
      BY <2>4, <2>5, <2>8
    <3>2. f[2] + f[1] = f[1] + f[2]
      BY <2>6
    <3> QED
      BY <2>1, <2>2, <3>1, <3>2
  <2> QED
    BY <2>3, <2>7, <2>8
<1> QED
  BY <1>4, <1>5

LEMMA ExposuresGrow ==
  ASSUME NEW d, DecisionOK(d), NEW e, Worse(d, e)
  PROVE  /\ PotentialViolations(d) \in Int /\ PotentialViolations(e) \in Int
         /\ PotentialViolations(d) <= PotentialViolations(e)
         /\ d.policyExposure # <<>> /\ e.policyExposure # <<>>
         /\ ExposureSum(d) \div Len(d.policyExposure) \in Int
         /\ ExposureSum(e) \div Len(e.policyExposure) \in Int
         /\ ExposureSum(d) \div Len(d.policyExposure)
              <= ExposureSum(e) \div Len(e.policyExposure)
<1> DEFINE low == [exposureLevel |-> DefaultExposure, potentialViolations |-> 0]
           high == [exposureLevel |-> Scale, potentialViolations |-> 2]
           x == Clamp01(DefaultExposure)
           y == Clamp01(Scale)
<1>1. x \in Nat /\ y \in Nat /\ x <= y
  BY Clamp01Nat, Clamp01Grows DEF DefaultExposure, Scale
<1>2. d.policyExposure = <<low>>
  BY DEF DecisionOK
<1>3. e.policyExposure = <<low>> \/ e.policyExposure = <<low, high>>
  BY <1>2 DEF Worse
<1>4. ASSUME NEW p, p.policyExposure = <<low>>
      PROVE  /\ PotentialViolations(p) = 0 /\ ExposureSum(p) = x
             /\ p.policyExposure # <<>> /\ Len(p.policyExposure) = 1
  <2> DEFINE counts == [i \in DOMAIN p.policyExposure |-> p.policyExposure[i].potentialViolations]
             levels == [i \in DOMAIN p.policyExposure |->
                           Clamp01(p.policyExposure[i].exposureLevel)]
  <2>1. DOMAIN p.policyExposure = {1} /\ Len(p.policyExposure) = 1
    BY <1>4
  <2>2. DOMAIN counts = {1} /\ counts[1] = 0 /\ DOMAIN levels = {1} /\ levels[1] = x
    BY <1>4, <2>1
  <2>3. PotentialViolations(p) = SumFunction(counts) /\ ExposureSum(p) = SumFunction(levels)
    BY DEF PotentialViolations, ExposureSum
  <2> HIDE DEF counts, levels, x
  <2>4. SumFunction(counts) = 0 /\ SumFunction(levels) = x
    BY <1>1, <2>2, SumOfFew
  <2> QED
    BY <1>4, <2>1, <2>3, <2>4
<1>5. ASSUME NEW p, p.policyExposure = <<low, high>>
      PROVE  /\ PotentialViolations(p) = 2 /\ ExposureSum(p) = x + y
             /\ p.policyExposure # <<>> /\ Len(p.policyExposure) = 2
  <2> DEFINE counts == [i \in DOMAIN p.policyExposure |-> p.policyExposure[i].potentialViolations]
             levels == [i \in DOMAIN p.policyExposure |->
                           Clamp01(p.policyExposure[i].exposureLevel)]
  <2>1. DOMAIN p.policyExposure = {1, 2} /\ Len(p.policyExposure) = 2
    BY <1>5
  <2>2. /\ DOMAIN counts = {1, 2} /\ counts[1] = 0 /\ counts[2] = 2
        /\ DOMAIN levels = {1, 2} /\ levels[1] = x /\ levels[2] = y
    BY <1>5, <2>1
  <2>3. PotentialViolations(p) = SumFunction(counts) /\ ExposureSum(p) = SumFunction(levels)
    BY DEF PotentialViolations, ExposureSum
  <2> HIDE DEF counts, levels, x, y
  <2>4. SumFunction(counts) = 2 /\ SumFunction(levels) = x + y
    BY <1>1, <2>2, SumOfFew
  <2> QED
    BY <1>5, <2>1, <2>3, <2>4
<1> HIDE DEF low, high, x, y
<1>6. x \div 1 = x /\ (x + y) \div 2 \in Int
  BY <1>1, Division
<1>7. x <= (x + y) \div 2
  <2>1. 2 * x <= x + y /\ x + y \in Int /\ x \in Int /\ 2 \in Nat \ {0}
    BY <1>1
  <2> QED
    BY <2>1, DivisionAtLeast
<1>8. PotentialViolations(d) = 0 /\ ExposureSum(d) = x /\ d.policyExposure # <<>>
      /\ Len(d.policyExposure) = 1
  BY <1>2, <1>4
<1>9. CASE e.policyExposure = <<low>>
  BY <1>1, <1>4, <1>6, <1>8, <1>9
<1>10. CASE e.policyExposure = <<low, high>>
  BY <1>1, <1>5, <1>6, <1>7, <1>8, <1>10
<1> QED
  BY <1>3, <1>9, <1>10

LEMMA OperationalRiskGrows ==
  ASSUME NEW d, DecisionOK(d), NEW e, Worse(d, e), NEW system, SystemOK(system)
  PROVE  OperationalRisk(d, system) <= OperationalRisk(e, system)
<1> DEFINE terms(p) == [i \in DOMAIN p.requiredResources |->
                           Part(CriticalityFactor[p.requiredResources[i].criticality],
                                Fraction(p.requiredResources[i].amount, 1000))]
           pressure == Part(SumFunction(terms(d)), 3500)
           permissions == Part(Fraction(Cardinality(d.permissions), 5), 2000)
           load == Part(Clamp01(system.loadFactor), 1500)
           bandwidth == Part(Fraction(d.bandwidthUtilization, 10000), 3000)
           costD == Part(d.computationalCostScore, 7000)
           costE == Part(e.computationalCostScore, 7000)
           partD == Part(Clamp01(costD + bandwidth), 3000)
           partE == Part(Clamp01(costE + bandwidth), 3000)
<1>1. /\ e.requiredResources = d.requiredResources /\ e.permissions = d.permissions
      /\ e.bandwidthUtilization = d.bandwidthUtilization
      /\ d.computationalCostScore \in Int /\ e.computationalCostScore \in Int
      /\ d.computationalCostScore <= e.computationalCostScore
  BY ScaleIsNat DEF Worse, DecisionOK
<1>2. OperationalRisk(d, system) = Clamp01(pressure + permissions + load + partD)
  BY DEF OperationalRisk
<1>3. OperationalRisk(e, system) = Clamp01(pressure + permissions + load + partE)
  BY <1>1 DEF OperationalRisk
<1>4. pressure \in Int
  <2>1. DOMAIN terms(d) = 1 .. 3
    BY DEF DecisionOK
  <2>4. IsFiniteSet(1 .. 3)
    <3>1. 1 \in Int /\ 3 \in Int
      OBVIOUS
    <3> QED
      BY <3>1, FS_Interval, Zenon
  <2>2. ASSUME NEW i \in 1 .. 3
        PROVE  terms(d)[i] \in Int
    <3>1. Fraction(d.requiredResources[i].amount, 1000) \in Int
      BY FractionInt DEF DecisionOK
    <3>2. CriticalityFactor[d.requiredResources[i].criticality] \in Int
      BY ScaleIsNat DEF CriticalityFactor, DecisionOK
    <3> DEFINE factor == CriticalityFactor[d.requiredResources[i].criticality]
               amount == Fraction(d.requiredResources[i].amount, 1000)
    <3>3. factor \in Int /\ amount \in Int /\ terms(d)[i] = Part(factor, amount)
      BY <2>1, <3>1, <3>2
    <3> HIDE DEF factor, amount, terms
    <3> QED
      BY <3>3, PartInt
  <2> HIDE DEF terms
  <2>3. SumFunction(terms(d)) \in Int
    BY <2>1, <2>2, <2>4, SumOfInts
  <2> QED
    BY <2>3, PartGrows
<1>5. permissions \in Int
  <2>1. Cardinality(d.permissions) \in Int
    BY FS_CardinalityType DEF DecisionOK
  <2>2. Fraction(Cardinality(d.permissions), 5) \in Int
    BY <2>1, FractionInt
  <2> QED
    BY <2>2, PartGrows
<1>6. load \in Int
  BY Clamp01Nat, PartGrows
<1>7. bandwidth \in Int
  <2>1. Fraction(d.bandwidthUtilization, 10000) \in Int
    BY FractionInt DEF DecisionOK
  <2> QED
    BY <2>1, PartGrows
<1>8. costD \in Int /\ costE \in Int /\ costD <= costE
  BY <1>1, PartGrows
<1> HIDE DEF pressure, permissions, load, bandwidth, costD, costE
<1>9. Clamp01(costD + bandwidth) <= Clamp01(costE + bandwidth)
      /\ Clamp01(costD + bandwidth) \in Int /\ Clamp01(costE + bandwidth) \in Int
  <2>1. costD + bandwidth \in Int /\ costE + bandwidth \in Int
        /\ costD + bandwidth <= costE + bandwidth
    BY <1>7, <1>8
  <2> QED
    BY <2>1, Clamp01Grows, Clamp01Nat
<1>10. partD \in Int /\ partE \in Int /\ partD <= partE
  BY <1>9, PartGrows
<1> HIDE DEF partD, partE
<1>11. /\ pressure + permissions + load + partD \in Int
       /\ pressure + permissions + load + partE \in Int
       /\ pressure + permissions + load + partD <= pressure + permissions + load + partE
  <2>1. pressure + permissions + load \in Int
    BY <1>4, <1>5, <1>6
  <2> QED
    BY <1>10, <2>1
<1> QED
  BY <1>2, <1>3, <1>11, Clamp01Grows

LEMMA RegulatoryExposureGrows ==
  ASSUME NEW d, DecisionOK(d), NEW e, Worse(d, e), NEW context
  PROVE  RegulatoryExposure(d, context) <= RegulatoryExposure(e, context)
<1> DEFINE average(p) == Part(ExposureSum(p) \div Len(p.policyExposure), 7000)
           count(p) == Part(Fraction(PotentialViolations(p), 10), 2000)
           data == Part(Clamp01(context.dataSensitivity), 1000)
<1>1. /\ PotentialViolations(d) \in Int /\ PotentialViolations(e) \in Int
      /\ PotentialViolations(d) <= PotentialViolations(e)
      /\ d.policyExposure # <<>> /\ e.policyExposure # <<>>
      /\ ExposureSum(d) \div Len(d.policyExposure) \in Int
      /\ ExposureSum(e) \div Len(e.policyExposure) \in Int
      /\ ExposureSum(d) \div Len(d.policyExposure)
           <= ExposureSum(e) \div Len(e.policyExposure)
  BY ExposuresGrow
<1>2. average(d) \in Int /\ average(e) \in Int /\ average(d) <= average(e)
  BY <1>1, PartGrows
<1>3. count(d) \in Int /\ count(e) \in Int /\ count(d) <= count(e)
  <2>1. /\ PotentialViolations(d) \in Int /\ PotentialViolations(e) \in Int
        /\ PotentialViolations(d) <= PotentialViolations(e)
    BY <1>1
  <2>2. /\ Fraction(PotentialViolations(d), 10) \in Int
        /\ Fraction(PotentialViolations(e), 10) \in Int
        /\ Fraction(PotentialViolations(d), 10) <= Fraction(PotentialViolations(e), 10)
    BY <2>1, FractionInt, FractionGrows
  <2> QED
    BY <2>2, PartGrows
<1>4. data \in Int
  BY Clamp01Nat, PartGrows
<1>5. /\ RegulatoryExposure(d, context) = Clamp01(average(d) + count(d) + data)
      /\ RegulatoryExposure(e, context) = Clamp01(average(e) + count(e) + data)
  BY <1>1 DEF RegulatoryExposure
<1> HIDE DEF average, count, data
<1>6. /\ average(d) + count(d) + data \in Int /\ average(e) + count(e) + data \in Int
      /\ average(d) + count(d) + data <= average(e) + count(e) + data
  BY <1>2, <1>3, <1>4
<1> QED
  BY <1>5, <1>6, Clamp01Grows

LEMMA FinancialCostGrows ==
  ASSUME NEW d, DecisionOK(d), NEW e, Worse(d, e), NEW context
  PROVE  FinancialCost(d, context) <= FinancialCost(e, context)
<1> DEFINE spend(p) == Part(Fraction(p.estimatedFinancialExpenditure, 10000), 7500)
           budget == Part(Clamp01(context.budgetPressure), 2500)
<1>1. /\ d.estimatedFinancialExpenditure \in Int /\ e.estimatedFinancialExpenditure \in Int
      /\ d.estimatedFinancialExpenditure <= e.estimatedFinancialExpenditure
  BY DEF DecisionOK, Worse
<1>2. /\ Fraction(d.estimatedFinancialExpenditure, 10000) \in Int
      /\ Fraction(e.estimatedFinancialExpenditure, 10000) \in Int
      /\ Fraction(d.estimatedFinancialExpenditure, 10000)
           <= Fraction(e.estimatedFinancialExpenditure, 10000)
  BY <1>1, FractionInt, FractionGrows
<1>3. spend(d) \in Int /\ spend(e) \in Int /\ spend(d) <= spend(e)
  BY <1>2, PartGrows
<1>4. budget \in Int
  BY Clamp01Nat, PartGrows
<1>5. /\ FinancialCost(d, context) = Clamp01(spend(d) + budget)
      /\ FinancialCost(e, context) = Clamp01(spend(e) + budget)
  BY DEF FinancialCost
<1> HIDE DEF spend, budget
<1>6. spend(d) + budget \in Int /\ spend(e) + budget \in Int
      /\ spend(d) + budget <= spend(e) + budget
  BY <1>3, <1>4
<1> QED
  BY <1>5, <1>6, Clamp01Grows

LEMMA ReputationalImpactGrows ==
  ASSUME NEW d, DecisionOK(d), NEW e, Worse(d, e), NEW system
  PROVE  ReputationalImpact(d, system) <= ReputationalImpact(e, system)
<1> DEFINE count(p) == Part(Fraction(PotentialViolations(p), 8), 5000)
           trust == Part(Clamp01(-d.trustWeightedPropagation), 3000)
           incident == IF system.incidentActive THEN 2000 ELSE 0
<1>1. /\ PotentialViolations(d) \in Int /\ PotentialViolations(e) \in Int
      /\ PotentialViolations(d) <= PotentialViolations(e)
  BY ExposuresGrow
<1>2. /\ Fraction(PotentialViolations(d), 8) \in Int
      /\ Fraction(PotentialViolations(e), 8) \in Int
      /\ Fraction(PotentialViolations(d), 8) <= Fraction(PotentialViolations(e), 8)
  BY <1>1, FractionInt, FractionGrows
<1>3. count(d) \in Int /\ count(e) \in Int /\ count(d) <= count(e)
  BY <1>2, PartGrows
<1>4. trust \in Int /\ incident \in Int
  BY Clamp01Nat, PartGrows
<1>5. e.trustWeightedPropagation = d.trustWeightedPropagation
  BY DEF Worse
<1>6. /\ ReputationalImpact(d, system) = Clamp01(count(d) + trust + incident)
      /\ ReputationalImpact(e, system) = Clamp01(count(e) + trust + incident)
  BY <1>5 DEF ReputationalImpact
<1> HIDE DEF count, trust, incident
<1>7. /\ count(d) + trust + incident \in Int /\ count(e) + trust + incident \in Int
      /\ count(d) + trust + incident <= count(e) + trust + incident
  BY <1>3, <1>4
<1> QED
  BY <1>6, <1>7, Clamp01Grows

LEMMA InstabilityGrows ==
  ASSUME NEW d, DecisionOK(d), NEW e, Worse(d, e), NEW system, SystemOK(system)
  PROVE  CooperativeSystemStability(d, system) <= CooperativeSystemStability(e, system)
<1> DEFINE lack(p) == Part(Clamp01((Scale - p.systemStabilityScore) \div 2), 5000)
           recovery == Part(Fraction(d.estimatedRecoveryTimeSeconds, 3600), 3000)
           backlog == Part(Fraction(system.recoveryBacklogSeconds, 7200), 2000)
<1>1. /\ Scale - d.systemStabilityScore \in Int /\ Scale - e.systemStabilityScore \in Int
      /\ Scale - d.systemStabilityScore <= Scale - e.systemStabilityScore
  <2>1. /\ d.systemStabilityScore \in Int /\ e.systemStabilityScore \in Int
        /\ e.systemStabilityScore <= d.systemStabilityScore
    BY DEF DecisionOK, Worse
  <2> QED
    BY <2>1, ScaleIsNat
<1>2. /\ (Scale - d.systemStabilityScore) \div 2 \in Int
      /\ (Scale - e.systemStabilityScore) \div 2 \in Int
      /\ (Scale - d.systemStabilityScore) \div 2 <= (Scale - e.systemStabilityScore) \div 2
  BY <1>1, Division, DivisionGrows
<1> DEFINE below(p) == Clamp01((Scale - p.systemStabilityScore) \div 2)
<1>3. below(d) \in Int /\ below(e) \in Int /\ below(d) <= below(e)
  BY <1>2, Clamp01Nat, Clamp01Grows
<1> HIDE DEF below
<1>4. lack(d) = Part(below(d), 5000) /\ lack(e) = Part(below(e), 5000)
  BY DEF below
<1>5. lack(d) \in Int /\ lack(e) \in Int /\ lack(d) <= lack(e)
  <2> HIDE DEF lack
  <2> QED
    BY <1>3, <1>4, PartGrows
<1>6. recovery \in Int
  <2>1. Fraction(d.estimatedRecoveryTimeSeconds, 3600) \in Int
    BY FractionInt DEF DecisionOK
  <2> QED
    BY <2>1, PartGrows
<1>7. backlog \in Int
  <2>1. Fraction(system.recoveryBacklogSeconds, 7200) \in Int
    BY FractionInt DEF SystemOK
  <2> QED
    BY <2>1, PartGrows
<1>8. e.estimatedRecoveryTimeSeconds = d.estimatedRecoveryTimeSeconds
  BY DEF Worse
<1>9. /\ CooperativeSystemStability(d, system) = Clamp01(lack(d) + recovery + backlog)
      /\ CooperativeSystemStability(e, system) = Clamp01(lack(e) + recovery + backlog)
  BY <1>8 DEF CooperativeSystemStability
<1> HIDE DEF lack, recovery, backlog
<1>10. /\ lack(d) + recovery + backlog \in Int /\ lack(e) + recovery + backlog \in Int
      /\ lack(d) + recovery + backlog <= lack(e) + recovery + backlog
  BY <1>5, <1>6, <1>7
<1> QED
  BY <1>9, <1>10, Clamp01Grows

LEMMA ScoresGetWorse ==
  ASSUME NEW d, DecisionOK(d), NEW e, Worse(d, e), NEW context, NEW system, SystemOK(system)
  PROVE  WorseScores(DimensionScores(d, context, system), DimensionScores(e, context, system))
<1> DEFINE s == DimensionScores(d, context, system)
           t == DimensionScores(e, context, system)
<1>1. /\ s["operationalRisk"] = OperationalRisk(d, system)
      /\ s["regulatoryExposure"] = RegulatoryExposure(d, context)
      /\ s["financialCost"] = FinancialCost(d, context)
      /\ s["reputationalImpact"] = ReputationalImpact(d, system)
      /\ s["cooperativeSystemStability"] = CooperativeSystemStability(d, system)
      /\ s["predictedComplianceProbability"] = d.overallProbability
      /\ s["simulationImpact"] = SimulationImpact(d)
      /\ s["opportunityCostProjection"] = OpportunityCostProjection(d, context)
      /\ s["strategicMisalignment"] = Clamp01(d.misalignmentPenalty)
  BY DEF DimensionScores
<1>2. /\ t["operationalRisk"] = OperationalRisk(e, system)
      /\ t["regulatoryExposure"] = RegulatoryExposure(e, context)
      /\ t["financialCost"] = FinancialCost(e, context)
      /\ t["reputationalImpact"] = ReputationalImpact(e, system)
      /\ t["cooperativeSystemStability"] = CooperativeSystemStability(e, system)
      /\ t["predictedComplianceProbability"] = e.overallProbability
      /\ t["simulationImpact"] = SimulationImpact(e)
      /\ t["opportunityCostProjection"] = OpportunityCostProjection(e, context)
      /\ t["strategicMisalignment"] = Clamp01(e.misalignmentPenalty)
  BY DEF DimensionScores
<1> HIDE DEF s, t
<1>3. ASSUME NEW p
      PROVE  /\ OperationalRisk(p, system) \in Int /\ RegulatoryExposure(p, context) \in Int
             /\ FinancialCost(p, context) \in Int /\ ReputationalImpact(p, system) \in Int
             /\ CooperativeSystemStability(p, system) \in Int /\ SimulationImpact(p) \in Int
             /\ OpportunityCostProjection(p, context) \in Int
             /\ Clamp01(p.misalignmentPenalty) \in Int
  <2>1. \A value : Clamp01(value) \in Int
    BY Clamp01Nat
  <2>2. OperationalRisk(p, system) \in Int
    BY <2>1 DEF OperationalRisk
  <2>3. RegulatoryExposure(p, context) \in Int
    BY <2>1 DEF RegulatoryExposure
  <2>4. FinancialCost(p, context) \in Int
    BY <2>1 DEF FinancialCost
  <2>5. ReputationalImpact(p, system) \in Int
    BY <2>1 DEF ReputationalImpact
  <2>6. CooperativeSystemStability(p, system) \in Int
    BY <2>1 DEF CooperativeSystemStability
  <2>7. SimulationImpact(p) \in Int
    BY <2>1 DEF SimulationImpact
  <2>8. OpportunityCostProjection(p, context) \in Int
    BY <2>1 DEF OpportunityCostProjection
  <2> QED
    BY <2>1, <2>2, <2>3, <2>4, <2>5, <2>6, <2>7, <2>8
<1>4. /\ d.overallProbability \in Int /\ e.overallProbability \in Int
      /\ e.overallProbability <= d.overallProbability
      /\ Clamp01(d.misalignmentPenalty) <= Clamp01(e.misalignmentPenalty)
  BY ScaleIsNat, Clamp01Grows DEF DecisionOK, Worse
<1>5. \A x \in RiskDimension : s[x] \in Int /\ t[x] \in Int
  BY <1>1, <1>2, <1>3, <1>4 DEF RiskDimension
<1>6. SimulationImpact(e) = SimulationImpact(d)
  <2>1. /\ e.realWorldTaskImpact = d.realWorldTaskImpact
        /\ e.predictiveSynergyDensity = d.predictiveSynergyDensity
        /\ e.trustWeightedPropagation = d.trustWeightedPropagation
        /\ e.cooperativeIntelligenceEvolution = d.cooperativeIntelligenceEvolution
    BY DEF Worse
  <2> QED
    BY <2>1 DEF SimulationImpact
<1>7. OpportunityCostProjection(e, context) = OpportunityCostProjection(d, context)
  <2>1. /\ e.projectedOpportunityCostOfBlocking = d.projectedOpportunityCostOfBlocking
        /\ e.opportunityTradeoffScore = d.opportunityTradeoffScore
        /\ e.economicEfficiencyScore = d.economicEfficiencyScore
    BY DEF Worse
  <2> QED
    BY <2>1 DEF OpportunityCostProjection
<1>8. \A x \in AveragedDimensions : s[x] <= t[x]
  BY <1>1, <1>2, <1>4, OperationalRiskGrows, RegulatoryExposureGrows, FinancialCostGrows,
     ReputationalImpactGrows, InstabilityGrows DEF AveragedDimensions
<1> QED
  BY <1>1, <1>2, <1>4, <1>5, <1>6, <1>7, <1>8 DEF WorseScores, s, t

LEMMA RiskierScoresLower ==
  ASSUME NEW d, DecisionOK(d), NEW e, Worse(d, e),
         NEW context, BoostsOK(context), NEW system, SystemOK(system),
         NEW m, \A x \in RiskDimension : m[x] \in Int
  PROVE  DecisionScore(e, context, system, m) <= DecisionScore(d, context, system, m)
<1> DEFINE w == Weights(d, context, system, m)
           s == DimensionScores(d, context, system)
           t == DimensionScores(e, context, system)
           lift == Part(Clamp01(context.preemptiveRiskLift), 5500)
<1>1. Weights(e, context, system, m) = w
  <2>1. e.permissions = d.permissions
    BY DEF Worse
  <2>2. WeightFactors(e, context, system) = WeightFactors(d, context, system)
    BY <2>1 DEF WeightFactors
  <2>3. \A x : RawWeight(x, e, context, system, m) = RawWeight(x, d, context, system, m)
    BY <2>2, Zenon DEF RawWeight
  <2> QED
    BY <2>3 DEF Weights
<1>2. \A x \in RiskDimension : w[x] \in Nat
  BY WeightsAreNatural
<1>3. WorseScores(s, t)
  BY ScoresGetWorse
<1>4. RiskPressure(d, context, system, m) = Clamp01(BasePressure(s, w) + lift)
  BY DEF RiskPressure
<1>5. RiskPressure(e, context, system, m) = Clamp01(BasePressure(t, w) + lift)
  BY <1>1 DEF RiskPressure
<1>6. lift \in Int
  BY Clamp01Nat, PartGrows
<1> HIDE DEF w, s, t, lift
<1>7. BasePressure(s, w) <= BasePressure(t, w)
  BY <1>2, <1>3, PressureGrows
<1>8. BasePressure(s, w) \in Int /\ BasePressure(t, w) \in Int
  BY Clamp01Nat DEF BasePressure
<1>9. /\ BasePressure(s, w) + lift \in Int /\ BasePressure(t, w) + lift \in Int
      /\ BasePressure(s, w) + lift <= BasePressure(t, w) + lift
  BY <1>6, <1>7, <1>8
<1>10. RiskPressure(d, context, system, m) <= RiskPressure(e, context, system, m)
  BY <1>4, <1>5, <1>9, Clamp01Grows
<1>11. RiskPressure(d, context, system, m) \in Int /\ RiskPressure(e, context, system, m) \in Int
  BY <1>4, <1>5, Clamp01Nat
<1> QED
  BY <1>10, <1>11, ScaleIsNat DEF DecisionScore

\* Whatever the multipliers have become: more of one risk with the rest equal is never
\* better (scoreDecision and classify).
THEOREM BlockingRiskierNeverMilder == BlockingSpec => []RiskierNeverMilder
<1>1. BlockingInv /\ EvaluatedOK => RiskierNeverMilder
  <2> SUFFICES ASSUME BlockingInv, EvaluatedOK, pending.stage = "evaluated",
                      NEW worse \in Riskier(pending.decision)
               PROVE  LET request == pending.request
                          score == DecisionScore(pending.decision, request.risk, request.system,
                                                 multipliers)
                          lower == DecisionScore(worse, request.risk, request.system, multipliers)
                      IN  /\ lower <= score
                          /\ Strictness(Classify(lower, request.classification, violationHistory))
                               >= Strictness(Classify(score, request.classification,
                                                      violationHistory))
    BY Zenon DEF RiskierNeverMilder
  <2> DEFINE request == pending.request
             context == request.classification
             score == DecisionScore(pending.decision, request.risk, request.system, multipliers)
             lower == DecisionScore(worse, request.risk, request.system, multipliers)
             posture == Clamp01(context.riskPosture)
             entropy == Clamp01(context.entropyLevel)
             trend == ViolationTrend(violationHistory)
             band == ThresholdBand(posture, entropy, trend)
             lift == Clamp01(context.preemptiveRiskLift)
             review == Clamp01(context.preemptiveEscalationThreshold)
             block == Clamp01(context.preemptiveBlockThreshold)
  <2>1. /\ DecisionOK(pending.decision) /\ SystemOK(request.system) /\ BoostsOK(request.risk)
    BY DEF EvaluatedOK
  <2>2. Worse(pending.decision, worse)
    BY <2>1, RiskierIsWorse
  <2>3. \A x \in RiskDimension : multipliers[x] \in Int
      <3>1. multipliers \in [RiskDimension -> Multiplier]
      BY DEF BlockingInv, AdaptiveTypeOK
    <3>2. Multiplier \subseteq Int
      BY DEF Multiplier, MinMultiplier, MaxMultiplier
    <3> QED
      BY <3>1, <3>2
  <2>4. lower <= score
    BY <2>1, <2>2, <2>3, RiskierScoresLower
  <2>5. score \in Int /\ lower \in Int
    BY ScoreIsInt
  <2>6. posture \in Nat /\ entropy \in Nat /\ trend \in Nat /\ trend <= trend
    BY Clamp01Nat DEF ViolationTrend
  <2>7. /\ Classify(score, context, violationHistory)
              = Escalated(ResolveState(score, band), lift, review, block)
        /\ Classify(lower, context, violationHistory)
              = Escalated(ResolveState(lower, band), lift, review, block)
    BY Zenon DEF Classify
  <2> HIDE DEF score, lower, posture, entropy, trend, lift, review, block
  <2>8. /\ band.autoApproveMin \in Int /\ band.blockMax \in Int
        /\ band.autoApproveMin <= band.autoApproveMin /\ band.blockMax <= band.blockMax
    BY <2>6, BandGrows
  <2> HIDE DEF band
  <2>9. Strictness(Classify(lower, context, violationHistory))
          >= Strictness(Classify(score, context, violationHistory))
    BY <2>4, <2>5, <2>7, <2>8, StricterState, Zenon
  <2> QED
    BY <2>4, <2>9 DEF score, lower
<1> QED
  BY <1>1, BlockingInvariant, BlockingEvaluated, PTL

-----------------------------------------------------------------------------
(* Predictions that were missed.                                           *)

LEMMA ErrorsAreTyped ==
  ASSUME NEW s \in Seq(Records), NEW k
  PROVE  /\ IsFiniteSet(DOMAIN Errors(s, k)) /\ DOMAIN Errors(s, k) \subseteq DOMAIN s
         /\ \A i \in DOMAIN Errors(s, k) : Errors(s, k)[i] \in Int
<1> DEFINE complete == {i \in DOMAIN s : k \in DOMAIN s[i].predicted \cap DOMAIN s[i].realized}
<1>1. Errors(s, k) = [i \in complete |-> Error(s[i], k)]
  BY DEF Errors
<1>2. IsFiniteSet(complete)
  <2>1. DOMAIN s = 1 .. Len(s) /\ Len(s) \in Int /\ complete \subseteq 1 .. Len(s)
    OBVIOUS
  <2> HIDE DEF complete
  <2>2. IsFiniteSet(1 .. Len(s))
    BY <2>1, FS_Interval
  <2> QED
    BY <2>1, <2>2, FS_Subset
<1>3. ASSUME NEW i \in complete
      PROVE  Error(s[i], k) \in Int
  <2> DEFINE p == s[i].predicted[k]
             r == s[i].realized[k]
  <2>1. s[i] \in Records /\ k \in DOMAIN s[i].predicted /\ k \in DOMAIN s[i].realized
    OBVIOUS
  <2>2. p \in Int /\ r \in Int /\ Clamp01(p) \in Nat /\ Clamp01(r) \in Nat
    BY <2>1, RecordIsTyped, Clamp01Nat
  <2>3. Error(s[i], k) = IF k \in SimulationMeasure THEN r - p ELSE Clamp01(r) - Clamp01(p)
    BY DEF Error
  <2> HIDE DEF p, r
  <2> QED
    BY <2>2, <2>3
<1> HIDE DEF complete
<1> QED
  BY <1>1, <1>2, <1>3 DEF complete

LEMMA MeanIsNotPositive ==
  ASSUME NEW f, IsFiniteSet(DOMAIN f), \A x \in DOMAIN f : f[x] \in Int /\ f[x] <= 0
  PROVE  Mean(f) \in Int /\ Mean(f) <= 0
<1> DEFINE Kind == {n \in Int : n <= 0}
           sum == SumFunction(f)
           n == Cardinality(DOMAIN f)
<1>1. 0 \in Kind /\ (\A a, b \in Kind : a + b \in Kind) /\ \A x \in DOMAIN f : f[x] \in Kind
  OBVIOUS
<1> HIDE DEF Kind
<1>2. sum \in Kind
  BY <1>1, SumStays, Zenon
<1>3. sum \in Int /\ sum <= 0
  BY <1>2 DEF Kind
<1>4. DOMAIN f # {} => n \in Nat \ {0}
  BY FS_EmptySet, FS_CardinalityType
<1>5. Mean(f) = IF DOMAIN f = {} THEN 0 ELSE Quotient(sum, n)
  BY DEF Mean
<1> HIDE DEF sum, n
<1>6. DOMAIN f # {} => Quotient(sum, n) \in Int /\ Quotient(sum, n) <= 0
  <2> SUFFICES ASSUME DOMAIN f # {} PROVE Quotient(sum, n) \in Int /\ Quotient(sum, n) <= 0
    OBVIOUS
  <2>1. n \in Nat \ {0} /\ 0 \in Int
    BY <1>4
  <2>2. Quotient(sum, n) \in Int /\ Quotient(sum, n) <= Quotient(0, n)
    BY <1>3, <2>1, QuotientInt, QuotientGrows
  <2>3. Quotient(0, n) = 0
    BY <2>1, QuotientZero
  <2> QED
    BY <2>2, <2>3
<1> QED
  BY <1>5, <1>6

LEMMA MissedErrors ==
  ASSUME NEW s \in Seq(Records), AllMissed(s), NEW k \in Measure,
         NEW D, D \subseteq DOMAIN Errors(s, k)
  PROVE  Mean(Restrict(Errors(s, k), D)) \in Int /\ Mean(Restrict(Errors(s, k), D)) <= 0
<1> DEFINE f == Restrict(Errors(s, k), D)
<1>1. IsFiniteSet(D)
  BY ErrorsAreTyped, FS_Subset
<1>2. DOMAIN f = D /\ \A i \in D : f[i] = Errors(s, k)[i]
  BY DEF Restrict
<1>3. ASSUME NEW i \in D
      PROVE  f[i] \in Int /\ f[i] <= 0
  <2>1. i \in DOMAIN Errors(s, k) /\ Errors(s, k)[i] \in Int
    BY ErrorsAreTyped
  <2>2. /\ i \in DOMAIN s /\ k \in DOMAIN s[i].predicted \cap DOMAIN s[i].realized
        /\ Errors(s, k)[i] = Error(s[i], k)
    BY <2>1 DEF Errors
  <2>3. Error(s[i], k) <= 0
    BY <2>2, Zenon DEF AllMissed
  <2> QED
    BY <1>2, <2>1, <2>2, <2>3
<1> HIDE DEF f
<1> QED
  BY <1>1, <1>2, <1>3, MeanIsNotPositive DEF f

LEMMA MissedMeans ==
  ASSUME NEW s \in Seq(Records), AllMissed(s), NEW k \in Measure
  PROVE  MeanErrors(s)[k] \in Int /\ MeanErrors(s)[k] <= 0
<1>1. Restrict(Errors(s, k), DOMAIN Errors(s, k)) = Errors(s, k)
  BY DEF Restrict, Errors
<1>2. Mean(Errors(s, k)) \in Int /\ Mean(Errors(s, k)) <= 0
  BY <1>1, MissedErrors
<1> QED
  BY <1>2 DEF MeanErrors

\* What is learned from such a history.
LEMMA MissedLesson ==
  ASSUME NEW s \in Seq(Records), AllMissed(s)
  PROVE  LET lesson == Lesson(s)
         IN  /\ \A k \in Stage : lesson.stages[k] \in Int /\ lesson.stages[k] <= 0
             /\ \A t \in ActionTypes : lesson.types[t] \in Int /\ 0 <= lesson.types[t]
             /\ \A k \in {"synergyPermissionWeight", "synergyLayerWeight", "trustBase"} :
                   lesson.assumptions[k] \in Int /\ lesson.assumptions[k] <= 0
             /\ lesson.assumptions["trustPolicyExposurePenaltyWeight"] \in Int
             /\ 0 <= lesson.assumptions["trustPolicyExposurePenaltyWeight"]
<1> DEFINE error == MeanErrors(s)
           uncertainty == Clamp(StdDev(Errors(s, "score")), 0, 4000)
<1>1. /\ Lesson(s).stages = StageDeltas(error) /\ Lesson(s).types = ViolationDeltas(s)
      /\ Lesson(s).assumptions = AssumptionDeltas(error, uncertainty)
  BY DEF Lesson
<1>2. \A k \in Measure : error[k] \in Int /\ error[k] <= 0
  BY MissedMeans
<1> HIDE DEF error, uncertainty
<1>3. ASSUME NEW x \in Int, NEW n \in Nat
      PROVE  /\ Clamp(x, -n, n) \in Int
             /\ x <= 0 => Clamp(x, -n, n) <= 0
             /\ 0 <= x => 0 <= Clamp(x, -n, n)
  <2>1. -n \in Int /\ n \in Int /\ -n <= n /\ -n <= 0 /\ 0 <= n
    OBVIOUS
  <2>2. Clamp(x, -n, n) = IF x < -n THEN -n ELSE IF x > n THEN n ELSE x
    BY <2>1, ClampForm
  <2> QED
    BY <2>1, <2>2
<1>4. ASSUME NEW k \in Stage
      PROVE  StageDeltas(error)[k] \in Int /\ StageDeltas(error)[k] <= 0
  <2> DEFINE e == error[k]
  <2>1. e \in Int /\ e <= 0
    BY <1>2 DEF Measure
  <2>2. StageDeltas(error)[k] = Clamp(e, -2500, 2500)
    BY DEF StageDeltas
  <2> HIDE DEF e
  <2>3. \A n \in Nat : Clamp(e, -n, n) \in Int /\ Clamp(e, -n, n) <= 0
    BY <1>3, <2>1
  <2> QED
    BY <2>2, <2>3
<1>5. ASSUME NEW x \in Int, x <= 0, NEW c \in Nat
      PROVE  Part(x, c) \in Int /\ Part(x, c) <= 0
  <2>1. Part(x, c) \in Int /\ Part(x, c) <= Part(0, c)
    BY <1>5, PartGrows
  <2>2. Part(0, c) = 0
    BY PartZero
  <2> QED
    BY <2>1, <2>2
<1>6. ASSUME NEW t \in ActionTypes
      PROVE  ViolationDeltas(s)[t] \in Int /\ 0 <= ViolationDeltas(s)[t]
  <2> DEFINE D == {i \in DOMAIN Errors(s, "overall") : s[i].actionType = t}
             mean == Mean(Restrict(Errors(s, "overall"), D))
  <2>1. mean \in Int /\ mean <= 0
    BY MissedErrors DEF Measure
  <2>2. ViolationDeltas(s)[t] = Clamp(-Part(mean, 8000), -2500, 2500)
    BY DEF ViolationDeltas
  <2> HIDE DEF mean
  <2>3. Part(mean, 8000) \in Int /\ Part(mean, 8000) <= 0
    BY <1>5, <2>1
  <2>4. -Part(mean, 8000) \in Int /\ 0 <= -Part(mean, 8000)
    BY <2>3
  <2> QED
    BY <1>3, <2>2, <2>4
<1>7. \A c \in Nat : /\ Part(error["synergy"], c) \in Int /\ Part(error["synergy"], c) <= 0
                     /\ Part(error["trust"], c) \in Int /\ Part(error["trust"], c) <= 0
  <2>1. "synergy" \in Measure /\ "trust" \in Measure
    BY DEF Measure, SimulationMeasure
  <2> QED
    BY <1>2, <1>5, <2>1
<1>8. ASSUME NEW k \in {"synergyPermissionWeight", "synergyLayerWeight", "trustBase"}
      PROVE  /\ AssumptionDeltas(error, uncertainty)[k] \in Int
             /\ AssumptionDeltas(error, uncertainty)[k] <= 0
  <2>1. /\ Part(error["synergy"], 3000) \in Int /\ Part(error["synergy"], 3000) <= 0
        /\ Part(error["synergy"], 3500) \in Int /\ Part(error["synergy"], 3500) <= 0
        /\ Part(error["trust"], 3500) \in Int /\ Part(error["trust"], 3500) <= 0
    BY <1>7
  <2> QED
    BY <2>1 DEF AssumptionDeltas
<1>9. /\ AssumptionDeltas(error, uncertainty)["trustPolicyExposurePenaltyWeight"] \in Int
      /\ 0 <= AssumptionDeltas(error, uncertainty)["trustPolicyExposurePenaltyWeight"]
  <2>1. Part(error["trust"], 3000) \in Int /\ Part(error["trust"], 3000) <= 0
    BY <1>7
  <2>2. AssumptionDeltas(error, uncertainty)["trustPolicyExposurePenaltyWeight"]
          = -Part(error["trust"], 3000)
    BY DEF AssumptionDeltas
  <2> QED
    BY <2>1, <2>2
<1> QED
  BY <1>1, <1>4, <1>6, <1>8, <1>9, Zenon

\* A step between limits goes the way of its delta.
LEMMA LimitedStep ==
  ASSUME NEW low \in Int, NEW high \in Int, low <= high, NEW value \in low .. high,
         NEW delta \in Int, NEW rate \in Nat
  PROVE  LET moved == Clamp(value + Part(delta, rate), low, high)
         IN  /\ moved \in low .. high /\ moved \in Int /\ value \in Int
             /\ delta <= 0 => moved <= value
             /\ 0 <= delta => value <= moved
<1> DEFINE part == Part(delta, rate)
           moved == Clamp(value + part, low, high)
<1>1. part \in Int
  BY PartInt
<1>2. Part(0, rate) = 0
  BY PartZero
<1>3. delta <= 0 => part <= 0
  BY <1>2, PartGrows
<1>4. 0 <= delta => 0 <= part
  BY <1>2, PartGrows
<1>5. moved = IF value + part < low THEN low ELSE IF value + part > high THEN high ELSE value + part
  BY <1>1, ClampForm
<1> HIDE DEF part, moved
<1>6. moved \in low .. high /\ moved \in Int
  BY <1>1, <1>5
<1>7. (delta <= 0 => moved <= value) /\ (0 <= delta => value <= moved)
  BY <1>1, <1>3, <1>4, <1>5
<1> QED
  BY <1>6, <1>7 DEF moved, part

\* A simulation free of noise after the assumptions moved that way.
LEMMA SimulationFalls ==
  ASSUME NEW raw \in RawActions, NEW a, NEW b,
         \A k \in {"synergyPermissionWeight", "synergyLayerWeight", "trustBase"} :
            a[k] \in Int /\ b[k] \in Int /\ b[k] <= a[k],
         a["trustPolicyExposurePenaltyWeight"] \in Int,
         b["trustPolicyExposurePenaltyWeight"] \in Int,
         a["trustPolicyExposurePenaltyWeight"] <= b["trustPolicyExposurePenaltyWeight"]
  PROVE  LET before == Simulation(raw, a, 0)
             after == Simulation(raw, b, 0)
         IN  /\ before.predictiveSynergyDensity \in 0 .. Scale
             /\ after.predictiveSynergyDensity \in 0 .. Scale
             /\ after.predictiveSynergyDensity <= before.predictiveSynergyDensity
             /\ before.trustWeightedPropagation \in -Scale .. Scale
             /\ after.trustWeightedPropagation \in -Scale .. Scale
             /\ after.trustWeightedPropagation <= before.trustWeightedPropagation
<1> DEFINE synergy(x) == x.synergyPermissionWeight + x.synergyLayerWeight + 0
           penalty(x) == Part(DefaultExposure, x.trustPolicyExposurePenaltyWeight)
           trust(x) == x.trustBase + 1000 * raw.delegation - penalty(x)
<1>1. ASSUME NEW x
      PROVE  /\ Simulation(raw, x, 0).predictiveSynergyDensity = Clamp01(synergy(x))
             /\ Simulation(raw, x, 0).trustWeightedPropagation = ClampUnit(trust(x))
  BY DEF Simulation
<1>2. synergy(a) \in Int /\ synergy(b) \in Int /\ synergy(b) <= synergy(a)
  OBVIOUS
<1>3. penalty(a) \in Int /\ penalty(b) \in Int /\ penalty(a) <= penalty(b)
  <2> DEFINE v == a.trustPolicyExposurePenaltyWeight
             w == b.trustPolicyExposurePenaltyWeight
  <2>1. v \in Int /\ w \in Int /\ v <= w
    OBVIOUS
  <2> HIDE DEF v, w
  <2>2. DefaultExposure \in Nat
    BY DEF DefaultExposure
  <2>3. Part(v, DefaultExposure) \in Int /\ Part(w, DefaultExposure) \in Int
        /\ Part(v, DefaultExposure) <= Part(w, DefaultExposure)
    BY <2>1, <2>2, PartGrows
  <2>4. Part(DefaultExposure, v) = Part(v, DefaultExposure)
        /\ Part(DefaultExposure, w) = Part(w, DefaultExposure)
    <3>1. DefaultExposure * v = v * DefaultExposure /\ DefaultExposure * w = w * DefaultExposure
      BY <2>1, <2>2
    <3> QED
      BY <3>1, Zenon DEF Part
  <2> QED
    BY <2>3, <2>4 DEF v, w
<1>4. trust(a) \in Int /\ trust(b) \in Int /\ trust(b) <= trust(a)
  <2>1. 1000 * raw.delegation \in Int
    BY BlockingAssumption
  <2>2. a.trustBase \in Int /\ b.trustBase \in Int /\ b.trustBase <= a.trustBase
    OBVIOUS
  <2> HIDE DEF penalty
  <2> QED
    BY <1>3, <2>1, <2>2
<1> HIDE DEF synergy, trust
<1>5. /\ Clamp01(synergy(a)) \in 0 .. Scale /\ Clamp01(synergy(b)) \in 0 .. Scale
      /\ Clamp01(synergy(b)) <= Clamp01(synergy(a))
  BY <1>2, Clamp01Range, Clamp01Grows
<1>6. /\ ClampUnit(trust(a)) \in -Scale .. Scale /\ ClampUnit(trust(b)) \in -Scale .. Scale
      /\ ClampUnit(trust(b)) <= ClampUnit(trust(a))
  <2>1. -Scale \in Int /\ Scale \in Int /\ -Scale <= Scale
    BY ScaleIsNat
  <2> QED
    BY <1>4, <2>1, ClampRange, ClampGrows, Zenon DEF ClampUnit
<1> QED
  BY <1>1, <1>5, <1>6

\* The chance that a stage is not violated.
LEMMA PatternFactorFalls ==
  ASSUME NEW type \in ActionTypes, NEW stage \in Stage, NEW u, NEW v,
         \A t \in ActionTypes : u[t] \in Int /\ v[t] \in Int /\ u[t] <= v[t]
  PROVE  /\ PatternFactor(type, stage, u) \in Nat /\ PatternFactor(type, stage, v) \in Nat
         /\ PatternFactor(type, stage, v) <= PatternFactor(type, stage, u)
<1> DEFINE p == Pattern[stage].probability
           low == Clamp01(p + u[type])
           high == Clamp01(p + v[type])
<1>1. p \in Int
  BY DEF Pattern, Stage
<1> HIDE DEF p
<1>2. p + u[type] \in Int /\ p + v[type] \in Int /\ p + u[type] <= p + v[type]
  BY <1>1
<1>3. low <= high /\ low \in 0 .. Scale /\ high \in 0 .. Scale
  BY <1>2, Clamp01Grows, Clamp01Range
<1>4. /\ PatternFactor(type, stage, u)
           = IF type \in Pattern[stage].types THEN Scale - low ELSE Scale
      /\ PatternFactor(type, stage, v)
           = IF type \in Pattern[stage].types THEN Scale - high ELSE Scale
  BY Zenon DEF PatternFactor, p
<1> HIDE DEF low, high
<1>5. Scale - low \in Nat /\ Scale - high \in Nat /\ Scale - high <= Scale - low
  BY <1>3, ScaleIsNat
<1> QED
  BY <1>4, <1>5, ScaleIsNat

\* A product of shares falls with both.
LEMMA PartFalls ==
  ASSUME NEW a \in Nat, NEW b \in Nat, NEW c \in Nat, NEW d \in Nat, c <= a, d <= b
  PROVE  Part(a, b) \in Nat /\ Part(c, d) \in Nat /\ Part(c, d) <= Part(a, b)
<1>1. a * b \in Nat /\ c * d \in Nat /\ c * d <= a * d /\ a * d <= a * b /\ a * d \in Nat
  OBVIOUS
<1>2. Scale \in Nat \ {0} /\ c * d <= a * b
  BY <1>1 DEF Scale
<1>3. Quotient(c * d, Scale) <= Quotient(a * b, Scale)
  BY <1>1, <1>2, QuotientGrows
<1> QED
  BY <1>3, PartNat DEF Part

LEMMA HalvedFalls ==
  ASSUME NEW x \in -Scale .. Scale, NEW y \in -Scale .. Scale, y <= x
  PROVE  Halved(x) \in Nat /\ Halved(y) \in Nat /\ Halved(y) <= Halved(x)
<1>1. x + Scale \in Nat /\ y + Scale \in Nat /\ y + Scale <= x + Scale
  BY ScaleIsNat
<1>2. /\ (x + Scale) \div 2 \in Nat /\ (y + Scale) \div 2 \in Nat
      /\ (y + Scale) \div 2 <= (x + Scale) \div 2
  BY <1>1, DivisionNat, DivisionGrows
<1> QED
  BY <1>2 DEF Halved

LEMMA PartOfLess ==
  ASSUME NEW a \in Nat, NEW b \in Nat, b <= a, NEW c \in Nat
  PROVE  Part(a, c) \in Nat /\ Part(b, c) \in Nat /\ Part(b, c) <= Part(a, c)
<1>1. c <= c
  OBVIOUS
<1> QED
  BY <1>1, PartFalls

LEMMA PressureIsAShare == ASSUME NEW raw PROVE Scale - ResourcePressure(raw) \in Nat
<1> DEFINE most == 5000
           pressure == ResourcePressure(raw)
<1>1. most \in Nat /\ most <= Scale
  BY DEF Scale
<1>2. \E value : pressure = Clamp(value, 0, most)
  BY DEF ResourcePressure
<1> HIDE DEF most, pressure
<1>3. pressure \in 0 .. most
  BY <1>1, <1>2, ClampRange
<1>4. Scale - pressure \in Nat
  BY <1>1, <1>3, ScaleIsNat
<1> QED
  BY <1>4 DEF pressure

LEMMA StagesFall ==
  ASSUME NEW raw \in RawActions, raw.type \in ActionTypes,
         NEW impact, NEW lower,
         impact.predictiveSynergyDensity \in 0 .. Scale,
         lower.predictiveSynergyDensity \in 0 .. Scale,
         lower.predictiveSynergyDensity <= impact.predictiveSynergyDensity,
         impact.trustWeightedPropagation \in -Scale .. Scale,
         lower.trustWeightedPropagation \in -Scale .. Scale,
         lower.trustWeightedPropagation <= impact.trustWeightedPropagation,
         NEW s, NEW t, \A k \in Stage : s[k] \in Int /\ t[k] \in Int /\ t[k] <= s[k],
         NEW u, NEW v, \A x \in ActionTypes : u[x] \in Int /\ v[x] \in Int /\ u[x] <= v[x],
         NEW k \in Stage
  PROVE  /\ StageCompliance(raw, impact, s, u)[k] \in 0 .. Scale
         /\ StageCompliance(raw, lower, t, v)[k] \in 0 .. Scale
         /\ StageCompliance(raw, lower, t, v)[k] <= StageCompliance(raw, impact, s, u)[k]
<1> DEFINE authority == IF raw.delegation > 0 THEN 9500 ELSE 8500
           initiation(y) == Part(authority, 4000) + Part(Scale - DefaultExposure, 4000)
                            + Part(PatternFactor(raw.type, "initiation", y), 2000)
           execution(y) == Part(Part(9750, Scale - ResourcePressure(raw)),
                                PatternFactor(raw.type, "execution", y))
           persistence(i, y) == Part(Part(Part(Halved(i.trustWeightedPropagation), 7000), 9500),
                                     PatternFactor(raw.type, "persistence", y))
           termination(i, y) == 5000 + Part(i.predictiveSynergyDensity, 3000)
                                + Part(PatternFactor(raw.type, "termination", y), 2000)
           base(i, y) == [initiation |-> initiation(y), execution |-> execution(y),
                          persistence |-> persistence(i, y), termination |-> termination(i, y)]
<1>1. ASSUME NEW i, NEW z, NEW y
      PROVE  StageCompliance(raw, i, z, y)[k] = Clamp01(base(i, y)[k] + z[k])
  BY DEF StageCompliance
<1>2. ASSUME NEW j \in Stage
      PROVE  /\ PatternFactor(raw.type, j, u) \in Nat /\ PatternFactor(raw.type, j, v) \in Nat
             /\ PatternFactor(raw.type, j, v) <= PatternFactor(raw.type, j, u)
  BY PatternFactorFalls
<1>3. initiation(u) \in Int /\ initiation(v) \in Int /\ initiation(v) <= initiation(u)
  <2> DEFINE first == Part(authority, 4000)
             second == Part(Scale - DefaultExposure, 4000)
             f == PatternFactor(raw.type, "initiation", u)
             g == PatternFactor(raw.type, "initiation", v)
  <2>1. authority \in Int /\ Scale - DefaultExposure \in Int
    <3>1. authority \in Int
      OBVIOUS
    <3>2. DefaultExposure \in Int
      BY DEF DefaultExposure
    <3> QED
      BY <3>1, <3>2, ScaleIsNat
  <2> HIDE DEF authority
  <2>2. first \in Int /\ second \in Int
    BY <2>1, PartGrows
  <2>3. f \in Nat /\ g \in Nat /\ g <= f
    BY <1>2 DEF Stage
  <2> HIDE DEF first, second, f, g
  <2>4. Part(f, 2000) \in Int /\ Part(g, 2000) \in Int /\ Part(g, 2000) <= Part(f, 2000)
    BY <2>3, PartGrows
  <2> QED
    BY <2>2, <2>4 DEF first, second, f, g
<1>4. execution(u) \in Int /\ execution(v) \in Int /\ execution(v) <= execution(u)
  <2> DEFINE rest == Part(9750, Scale - ResourcePressure(raw))
             f == PatternFactor(raw.type, "execution", u)
             g == PatternFactor(raw.type, "execution", v)
  <2>1. rest \in Nat
    <3> DEFINE nominal == 9750
               room == Scale - ResourcePressure(raw)
    <3>1. nominal \in Nat
      OBVIOUS
    <3>2. room \in Nat
      BY PressureIsAShare
    <3>3. rest = Part(nominal, room)
      OBVIOUS
    <3> HIDE DEF nominal, room, rest
    <3> QED
      BY <3>1, <3>2, <3>3, PartNat
  <2>2. f \in Nat /\ g \in Nat /\ g <= f
    BY <1>2 DEF Stage
  <2> HIDE DEF rest, f, g
  <2>3. Part(rest, f) \in Nat /\ Part(rest, g) \in Nat /\ Part(rest, g) <= Part(rest, f)
    <3>1. rest \in Nat /\ rest <= rest
      BY <2>1
    <3> QED
      BY <2>2, <3>1, PartFalls
  <2> QED
    BY <2>3 DEF rest, f, g
<1>5. /\ persistence(impact, u) \in Int /\ persistence(lower, v) \in Int
      /\ persistence(lower, v) <= persistence(impact, u)
  <2> DEFINE x == Halved(impact.trustWeightedPropagation)
             y == Halved(lower.trustWeightedPropagation)
             f == PatternFactor(raw.type, "persistence", u)
             g == PatternFactor(raw.type, "persistence", v)
  <2>1. x \in Nat /\ y \in Nat /\ y <= x
    BY HalvedFalls
  <2>2. f \in Nat /\ g \in Nat /\ g <= f
    BY <1>2 DEF Stage
  <2> HIDE DEF x, y, f, g
  <2> DEFINE trustOf(n) == Part(n, 7000)
             heldOf(n) == Part(trustOf(n), 9500)
  <2>3. trustOf(x) \in Nat /\ trustOf(y) \in Nat /\ trustOf(y) <= trustOf(x)
    BY <2>1, PartOfLess
  <2> HIDE DEF trustOf
  <2>4. heldOf(x) \in Nat /\ heldOf(y) \in Nat /\ heldOf(y) <= heldOf(x)
    <3>1. \A c \in Nat : /\ Part(trustOf(x), c) \in Nat /\ Part(trustOf(y), c) \in Nat
                         /\ Part(trustOf(y), c) <= Part(trustOf(x), c)
      BY <2>3, PartOfLess
    <3> QED
      BY <3>1
  <2> HIDE DEF heldOf
  <2>5. /\ Part(heldOf(x), f) \in Nat /\ Part(heldOf(y), g) \in Nat
        /\ Part(heldOf(y), g) <= Part(heldOf(x), f)
    BY <2>2, <2>4, PartFalls
  <2> QED
    BY <2>5 DEF heldOf, trustOf, x, y, f, g
<1>6. /\ termination(impact, u) \in Int /\ termination(lower, v) \in Int
      /\ termination(lower, v) <= termination(impact, u)
  <2> DEFINE x == impact.predictiveSynergyDensity
             y == lower.predictiveSynergyDensity
             f == PatternFactor(raw.type, "termination", u)
             g == PatternFactor(raw.type, "termination", v)
  <2>1. x \in Nat /\ y \in Nat /\ y <= x
    BY ScaleIsNat
  <2>2. f \in Nat /\ g \in Nat /\ g <= f
    BY <1>2 DEF Stage
  <2> HIDE DEF x, y, f, g
  <2>3. Part(x, 3000) \in Int /\ Part(y, 3000) \in Int /\ Part(y, 3000) <= Part(x, 3000)
    BY <2>1, PartGrows
  <2>4. Part(f, 2000) \in Int /\ Part(g, 2000) \in Int /\ Part(g, 2000) <= Part(f, 2000)
    BY <2>2, PartGrows
  <2>5. ASSUME NEW p \in Int, NEW q \in Int, NEW m \in Int, NEW n \in Int, q <= p, n <= m
        PROVE  /\ 5000 + p + m \in Int /\ 5000 + q + n \in Int
               /\ 5000 + q + n <= 5000 + p + m
    BY <2>5
  <2>6. /\ 5000 + Part(x, 3000) + Part(f, 2000) \in Int
        /\ 5000 + Part(y, 3000) + Part(g, 2000) \in Int
        /\ 5000 + Part(y, 3000) + Part(g, 2000) <= 5000 + Part(x, 3000) + Part(f, 2000)
    BY <2>3, <2>4, <2>5
  <2> QED
    BY <2>6 DEF x, y, f, g
<1> HIDE DEF initiation, execution, persistence, termination
<1>7. /\ base(impact, u)[k] \in Int /\ base(lower, v)[k] \in Int
      /\ base(lower, v)[k] <= base(impact, u)[k]
  BY <1>3, <1>4, <1>5, <1>6 DEF Stage
<1> HIDE DEF base
<1>8. /\ base(impact, u)[k] + s[k] \in Int /\ base(lower, v)[k] + t[k] \in Int
      /\ base(lower, v)[k] + t[k] <= base(impact, u)[k] + s[k]
  BY <1>7
<1> QED
  BY <1>1, <1>8, Clamp01Range, Clamp01Grows

LEMMA RootGrows ==
  ASSUME NEW x \in Nat, NEW y \in Nat, x <= y, y < 16384 * 16384
  PROVE  SquareRoot(x) <= SquareRoot(y)
<1> DEFINE r == SquareRoot(x)
           q == SquareRoot(y)
<1>1. x < 16384 * 16384
  OBVIOUS
<1>2. r \in Nat /\ r * r <= x /\ q \in Nat /\ y < (q + 1) * (q + 1)
  BY <1>1, RootIs
<1> HIDE DEF r, q
<1>3. ~(q + 1 <= r)
  <2> SUFFICES ASSUME q + 1 <= r PROVE FALSE
    OBVIOUS
  <2>1. (q + 1) * (q + 1) <= r * r /\ (q + 1) * (q + 1) \in Nat /\ r * r \in Nat
    BY <1>2
  <2> QED
    BY <1>2, <2>1
<1> QED
  BY <1>2, <1>3 DEF r, q

LEMMA RootOfSharesFalls ==
  ASSUME NEW a \in 0 .. Scale, NEW b \in 0 .. Scale, NEW c \in 0 .. Scale, NEW d \in 0 .. Scale,
         c <= a, d <= b
  PROVE  SquareRoot(c * d) <= SquareRoot(a * b)
<1>1. /\ a \in Nat /\ b \in Nat /\ c \in Nat /\ d \in Nat /\ a <= Scale /\ b <= Scale
      /\ Scale \in Nat
  BY ScaleIsNat
<1>2. /\ c * d \in Nat /\ a * b \in Nat /\ a * d \in Nat
      /\ c * d <= a * d /\ a * d <= a * b
      /\ a * b <= Scale * b /\ Scale * b <= Scale * Scale
  BY <1>1
<1>3. Scale * Scale < 16384 * 16384 /\ Scale * Scale \in Nat /\ Scale * b \in Nat
  BY <1>1 DEF Scale
<1>4. c * d <= a * b /\ a * b < 16384 * 16384
  BY <1>2, <1>3
<1> QED
  BY <1>2, <1>4, RootGrows

\* The forecast of the stages, and of the action.
LEMMA ForecastFalls ==
  ASSUME NEW p, NEW q,
         \A k \in Stage : p[k] \in 0 .. Scale /\ q[k] \in 0 .. Scale /\ q[k] <= p[k]
  PROVE  OverallProbability(q) <= OverallProbability(p)
<1>1. /\ p.initiation \in 0 .. Scale /\ q.initiation \in 0 .. Scale
      /\ q.initiation <= p.initiation
      /\ p.execution \in 0 .. Scale /\ q.execution \in 0 .. Scale
      /\ q.execution <= p.execution
      /\ p.persistence \in 0 .. Scale /\ q.persistence \in 0 .. Scale
      /\ q.persistence <= p.persistence
      /\ p.termination \in 0 .. Scale /\ q.termination \in 0 .. Scale
      /\ q.termination <= p.termination
  BY DEF Stage
<1>2. /\ SquareRoot(p.initiation * p.execution) \in 0 .. Scale
      /\ SquareRoot(q.initiation * q.execution) \in 0 .. Scale
      /\ SquareRoot(q.initiation * q.execution) <= SquareRoot(p.initiation * p.execution)
  BY <1>1, RootOfShares, RootOfSharesFalls
<1>3. /\ SquareRoot(p.persistence * p.termination) \in 0 .. Scale
      /\ SquareRoot(q.persistence * q.termination) \in 0 .. Scale
      /\ SquareRoot(q.persistence * q.termination) <= SquareRoot(p.persistence * p.termination)
  BY <1>1, RootOfShares, RootOfSharesFalls
<1> QED
  BY <1>2, <1>3, RootOfSharesFalls DEF OverallProbability

\* Feedback pushes the forecast the way it points: integrating a history in which nothing
\* turned out better than predicted never raises the forecast of any action (the signs of
\* computeStageBias, computeActionTypeViolationDeltas and deriveSimulationAssumptionDeltas).
THEOREM BlockingMissLowersForecast == BlockingSpec => []MissLowersForecast
<1>1. BlockingInv => MissLowersForecast
  <2> SUFFICES ASSUME BlockingInv, NEW batch \in Batches, AllMissed(Joined(batch)),
                      NEW raw \in RawActions
               PROVE  LET lesson == Lesson(Joined(batch))
                      IN  Forecast(raw, AdjustedAssumptions(lesson.assumptions, SimulationLearningRate),
                                   CalibratedStages(lesson.stages, ComplianceLearningRate),
                                   CalibratedTypes(lesson.types, ComplianceLearningRate))
                            <= Forecast(raw, assumptions, stageBias, violationBias)
    BY Zenon DEF MissLowersForecast
  <2> DEFINE lesson == Lesson(Joined(batch))
             rate == Clamp(ComplianceLearningRate, 100, 5000)
             pace == Clamp(SimulationLearningRate, 100, 5000)
             b == AdjustedAssumptions(lesson.assumptions, SimulationLearningRate)
             t == CalibratedStages(lesson.stages, ComplianceLearningRate)
             v == CalibratedTypes(lesson.types, ComplianceLearningRate)
  <2>1. Joined(batch) \in Seq(Records)
    BY BatchJoined, Zenon DEF BlockingInv
  <2>2. /\ \A k \in Stage : lesson.stages[k] \in Int /\ lesson.stages[k] <= 0
        /\ \A x \in ActionTypes : lesson.types[x] \in Int /\ 0 <= lesson.types[x]
        /\ \A k \in {"synergyPermissionWeight", "synergyLayerWeight", "trustBase"} :
              lesson.assumptions[k] \in Int /\ lesson.assumptions[k] <= 0
        /\ lesson.assumptions["trustPolicyExposurePenaltyWeight"] \in Int
        /\ 0 <= lesson.assumptions["trustPolicyExposurePenaltyWeight"]
    BY <2>1, MissedLesson, Zenon
  <2> HIDE DEF lesson
  <2>3. rate \in Nat /\ pace \in Nat
    BY RateIsNat
  <2>4. ASSUME NEW k \in Stage
        PROVE  stageBias[k] \in Int /\ t[k] \in Int /\ t[k] <= stageBias[k]
    <3> DEFINE value == stageBias[k]
               moved == t[k]
               delta == lesson.stages[k]
               low == -MaxStageBias
               high == MaxStageBias
    <3>1. low \in Int /\ high \in Int /\ low <= high /\ value \in low .. high
      BY BoundsAreNatural DEF BlockingInv, BiasesOK
    <3>2. moved = Clamp(value + Part(delta, rate), low, high)
      BY DEF CalibratedStages
    <3>3. delta \in Int /\ delta <= 0
      BY <2>2
    <3> HIDE DEF rate, value, moved, delta, low, high
    <3>4. moved \in Int /\ value \in Int /\ (delta <= 0 => moved <= value)
          /\ (0 <= delta => value <= moved)
      <4>1. rate \in Nat
        BY <2>3
      <4> QED
        BY <3>1, <3>2, <3>3, <4>1, LimitedStep
    <3> QED
      BY <3>3, <3>4 DEF value, moved, delta
  <2>5. ASSUME NEW x \in ActionTypes
        PROVE  violationBias[x] \in Int /\ v[x] \in Int /\ violationBias[x] <= v[x]
    <3> DEFINE value == violationBias[x]
               moved == v[x]
               delta == lesson.types[x]
               low == -MaxTypeBias
               high == MaxTypeBias
    <3>1. low \in Int /\ high \in Int /\ low <= high /\ value \in low .. high
      BY BoundsAreNatural DEF BlockingInv, BiasesOK
    <3>2. moved = Clamp(value + Part(delta, rate), low, high)
      BY DEF CalibratedTypes
    <3>3. delta \in Int /\ 0 <= delta
      BY <2>2
    <3> HIDE DEF rate, value, moved, delta, low, high
    <3>4. moved \in Int /\ value \in Int /\ (delta <= 0 => moved <= value)
          /\ (0 <= delta => value <= moved)
      <4>1. rate \in Nat
        BY <2>3
      <4> QED
        BY <3>1, <3>2, <3>3, <4>1, LimitedStep
    <3> QED
      BY <3>3, <3>4 DEF value, moved, delta
  <2>6. ASSUME NEW k \in Assumption, lesson.assumptions[k] \in Int
        PROVE  /\ assumptions[k] \in Int /\ b[k] \in Int
               /\ lesson.assumptions[k] <= 0 => b[k] <= assumptions[k]
               /\ 0 <= lesson.assumptions[k] => assumptions[k] <= b[k]
    <3> DEFINE value == assumptions[k]
               moved == b[k]
               delta == lesson.assumptions[k]
               low == LowOf(k)
               high == HighOf(k)
    <3>1. low \in Int /\ high \in Int /\ low <= high /\ value \in low .. high
      BY AssumptionLimits DEF BlockingInv, AssumptionsOK
    <3>2. moved = Clamp(value + Part(delta, pace), low, high)
      BY AssumptionLimits DEF AdjustedAssumptions
    <3>3. delta \in Int
      BY <2>6
    <3> HIDE DEF pace, value, moved, delta, low, high
    <3>4. moved \in Int /\ value \in Int /\ (delta <= 0 => moved <= value)
          /\ (0 <= delta => value <= moved)
      <4>1. pace \in Nat
        BY <2>3
      <4> QED
        BY <3>1, <3>2, <3>3, <4>1, LimitedStep
    <3> QED
      BY <3>3, <3>4 DEF value, moved, delta
  <2> HIDE DEF rate, pace, b, t, v
  <2>7. /\ \A k \in {"synergyPermissionWeight", "synergyLayerWeight", "trustBase"} :
              assumptions[k] \in Int /\ b[k] \in Int /\ b[k] <= assumptions[k]
        /\ assumptions["trustPolicyExposurePenaltyWeight"] \in Int
        /\ b["trustPolicyExposurePenaltyWeight"] \in Int
        /\ assumptions["trustPolicyExposurePenaltyWeight"]
             <= b["trustPolicyExposurePenaltyWeight"]
    <3>1. {"synergyPermissionWeight", "synergyLayerWeight", "trustBase",
           "trustPolicyExposurePenaltyWeight"} \subseteq Assumption
      BY DEF Assumption, DefaultAssumptions
    <3> QED
      BY <2>2, <2>6, <3>1
  <2> DEFINE impact == Simulation(raw, assumptions, 0)
             lower == Simulation(raw, b, 0)
  <2>8. /\ impact.predictiveSynergyDensity \in 0 .. Scale
        /\ lower.predictiveSynergyDensity \in 0 .. Scale
        /\ lower.predictiveSynergyDensity <= impact.predictiveSynergyDensity
        /\ impact.trustWeightedPropagation \in -Scale .. Scale
        /\ lower.trustWeightedPropagation \in -Scale .. Scale
        /\ lower.trustWeightedPropagation <= impact.trustWeightedPropagation
    BY <2>7, SimulationFalls
  <2> HIDE DEF impact, lower
  <2>9. raw.type \in ActionTypes
    BY BlockingAssumption
  <2>10. ASSUME NEW k \in Stage
         PROVE  /\ StageCompliance(raw, impact, stageBias, violationBias)[k] \in 0 .. Scale
                /\ StageCompliance(raw, lower, t, v)[k] \in 0 .. Scale
                /\ StageCompliance(raw, lower, t, v)[k]
                     <= StageCompliance(raw, impact, stageBias, violationBias)[k]
    BY <2>4, <2>5, <2>8, <2>9, StagesFall
  <2>11. OverallProbability(StageCompliance(raw, lower, t, v))
           <= OverallProbability(StageCompliance(raw, impact, stageBias, violationBias))
    BY <2>10, ForecastFalls
  <2> QED
    BY <2>11 DEF Forecast, impact, lower, lesson, b, t, v
<1> QED
  BY <1>1, BlockingInvariant, PTL
=============================================================================
