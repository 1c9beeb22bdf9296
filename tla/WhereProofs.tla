---------------------------- MODULE WhereProofs ----------------------------
(***************************************************************************)
(* Proofs about filters, for any widths of the integers and the floats.    *)
(*                                                                         *)
(* First the numbers: every real has a nearest float, rounding keeps the   *)
(* order, and an exclusive bound is the next number.  Then what a range    *)
(* says of a value.  Then the parser and the evaluation: the tree of a     *)
(* single comparison is its predicate, and a filter that was built is      *)
(* evaluated predicate by predicate, up to the first that decides.         *)
(***************************************************************************)
EXTENDS Where, WellFoundedInduction, TLAPS

-----------------------------------------------------------------------------
(* Numbers                                                                 *)

IsNearest(h, f) ==
    \A g \in Float64 :
        g # f => \/ Abs(h - f) < Abs(h - g)
                 \/ Abs(h - f) = Abs(h - g) /\ f \in EvenFloats

LEMMA FloatFacts ==
  /\ \A f \in Floats : f \in Int /\ -Inf < f /\ f < Inf /\ f \in Float64
  /\ \A f \in Float64 : f \in Int /\ -Inf <= f /\ f <= Inf
  /\ \A f : f \in Float64 <=> f \in Floats \/ f = Inf \/ f = -Inf
  /\ Inf \in Int /\ -Inf \in Int /\ Inf > 2 * Exact /\ -Inf < Inf
  <1>1. /\ Inf \in Nat /\ Floats \subseteq (-Inf + 1)..(Inf - 1)
        /\ Exact \in Nat /\ 2 * Exact \in Floats
    BY FilterAssumption
  <1> QED
    BY <1>1 DEF Float64

(* A set of numbers has a least one.                                       *)
LEMMA LeastExists ==
  ASSUME NEW T \in SUBSET Nat, T # {}
  PROVE  \E x \in T : \A y \in T : x <= y
  <1> DEFINE Less == OpToRel(<, Nat)
  <1>1. \A x, y \in Nat : <<x, y>> \in Less <=> x < y
    BY DEF OpToRel
  <1>2. IsWellFoundedOn(Less, Nat)
    BY NatLessThanWellFounded, Zenon
  <1> HIDE DEF Less
  <1>3. PICK x \in T : \A y \in T : ~(<<y, x>> \in Less)
    BY <1>2, WFMin
  <1>4. ASSUME NEW y \in T PROVE x <= y
    <2>1. x \in Nat /\ y \in Nat /\ ~(<<y, x>> \in Less)
      BY <1>3
    <2>2. ~(y < x)
      BY <1>1, <2>1
    <2> QED  BY <2>1, <2>2
  <1> QED  BY <1>4

(* Floats at the least distance: at most two, of which one is even.        *)
LEMMA NearestExists ==
  ASSUME NEW h \in Int
  PROVE  \E f \in Float64 : IsNearest(h, f)
  <1> DEFINE T == {Abs(h - f) : f \in Float64}
  <1>1. \A f \in Float64 : f \in Int
    BY FloatFacts
  <1>2. T \in SUBSET Nat
    BY <1>1 DEF Abs
  <1>3. 0 \in Float64
    <2>1. 0 \in -Exact..Exact /\ 2 * 0 = 0
      BY FilterAssumption
    <2> QED  BY <2>1, FilterAssumption, FloatFacts
  <1>4. PICK d \in T : \A y \in T : d <= y
    BY <1>2, <1>3, LeastExists
  <1>5. PICK f \in Float64 : d = Abs(h - f)
    BY <1>4
  <1>6. d \in Nat /\ \A g \in Float64 : d <= Abs(h - g)
    BY <1>2, <1>4
  <1> DEFINE l == h - d
             u == h + d
  <1>7. f \in {l, u} /\ \A g \in Float64 : Abs(h - g) = d => g \in {l, u}
    BY <1>1, <1>5, <1>6 DEF Abs
  <1>8. CASE l \in Float64 /\ u \in Float64 /\ l # u
    <2>1. l + 1 < u
      BY <1>6, <1>8
    <2>2. \A e \in Float64 : e <= l \/ u <= e
      BY <1>1, <1>6 DEF Abs
    <2>3. l \in EvenFloats \/ u \in EvenFloats
      BY <1>8, <2>1, <2>2, FilterAssumption
    <2>4. PICK e \in {l, u} : e \in EvenFloats
      BY <2>3
    <2>5. e \in Float64 /\ Abs(h - e) = d
      BY <1>6, <1>8 DEF Abs
    <2>6. IsNearest(h, e)
      BY <1>1, <1>6, <2>4, <2>5 DEF IsNearest, Abs
    <2> QED  BY <2>5, <2>6
  <1>9. CASE ~(l \in Float64 /\ u \in Float64 /\ l # u)
    <2>1. \A g \in Float64 : g # f => Abs(h - g) # d
      BY <1>7, <1>9
    <2>2. IsNearest(h, f)
      BY <1>1, <1>5, <1>6, <2>1 DEF IsNearest, Abs
    <2> QED  BY <2>2
  <1> QED
    BY <1>8, <1>9

LEMMA NearestIs ==
  ASSUME NEW h \in Int
  PROVE  Nearest(h) \in Float64 /\ IsNearest(h, Nearest(h))
  <1>1. PICK f \in Float64 : IsNearest(h, f)
    BY NearestExists
  <1> QED
    BY <1>1 DEF Nearest, IsNearest

(* The next float above a number, and the next below.                      *)
LEMMA NextFloat ==
  ASSUME NEW h \in Floats
  PROVE  /\ \E f \in Float64 : f > h /\ \A g \in Float64 : g > h => f <= g
         /\ \E f \in Float64 : f < h /\ \A g \in Float64 : g < h => f >= g
  <1>1. /\ \A f \in Float64 : f \in Int
        /\ h \in Int /\ Inf \in Float64 /\ -Inf \in Float64 /\ h < Inf /\ -Inf < h
    BY FloatFacts
  <1>2. \E f \in Float64 : f > h /\ \A g \in Float64 : g > h => f <= g
    <2> DEFINE T == {f - h : f \in {g \in Float64 : g > h}}
    <2>1. T \in SUBSET Nat /\ Inf - h \in T
      BY <1>1
    <2>2. PICK d \in T : \A y \in T : d <= y
      BY <2>1, LeastExists
    <2>3. PICK f \in Float64 : f > h /\ d = f - h
      BY <2>2
    <2>4. ASSUME NEW g \in Float64, g > h  PROVE f <= g
      <3>1. g - h \in T
        BY <2>4
      <3>2. f - h <= g - h
        BY <2>2, <2>3, <3>1
      <3> QED  BY <1>1, <3>2
    <2> QED  BY <2>3, <2>4
  <1>3. \E f \in Float64 : f < h /\ \A g \in Float64 : g < h => f >= g
    <2> DEFINE T == {h - f : f \in {g \in Float64 : g < h}}
    <2>1. T \in SUBSET Nat /\ h - (-Inf) \in T
      BY <1>1
    <2>2. PICK d \in T : \A y \in T : d <= y
      BY <2>1, LeastExists
    <2>3. PICK f \in Float64 : f < h /\ d = h - f
      BY <2>2
    <2>4. ASSUME NEW g \in Float64, g < h  PROVE f >= g
      <3>1. h - g \in T
        BY <2>4
      <3>2. h - f <= h - g
        BY <2>2, <2>3, <3>1
      <3> QED  BY <1>1, <3>2
    <2> QED  BY <2>3, <2>4
  <1> QED
    BY <1>2, <1>3

(* A float is its own nearest, and rounding keeps the order.               *)
LEMMA NearestOfFloat ==
  ASSUME NEW h \in Float64
  PROVE  Nearest(h) = h
  <1>1. h \in Int /\ Nearest(h) \in Float64 /\ Nearest(h) \in Int
    BY NearestIs, FloatFacts
  <1>2. IsNearest(h, Nearest(h))
    BY <1>1, NearestIs
  <1> QED
    BY <1>1, <1>2 DEF IsNearest, Abs

LEMMA NearestKeepsOrder ==
  ASSUME NEW a \in Int, NEW b \in Int, a <= b
  PROVE  Nearest(a) <= Nearest(b)
  <1>1. /\ Nearest(a) \in Float64 /\ Nearest(a) \in Int /\ IsNearest(a, Nearest(a))
        /\ Nearest(b) \in Float64 /\ Nearest(b) \in Int /\ IsNearest(b, Nearest(b))
    BY NearestIs, FloatFacts
  <1>2. SUFFICES ASSUME Nearest(b) < Nearest(a)  PROVE FALSE
    BY <1>1
  <1> DEFINE f == Nearest(a)  g == Nearest(b)
  <1>3. f \in Int /\ g \in Int /\ g < f
    BY <1>1, <1>2
  <1>4. Abs(a - f) <= Abs(a - g) /\ Abs(b - g) <= Abs(b - f)
    BY <1>1, <1>2 DEF IsNearest, Abs
  <1>5. a = b => f = g
    OBVIOUS
  <1> HIDE DEF f, g
  <1> QED
    BY <1>3, <1>4, <1>5 DEF Abs

-----------------------------------------------------------------------------
(* Ranges                                                                  *)

Exactly(x) == Numeric(x) /\ Abs(Real(x)) < 2 * Exact

LEMMA NumberFacts ==
  ASSUME NEW x \in Num
  PROVE  /\ Numeric(x) /\ Real(x) \in Int /\ AsF64(x) \in Int /\ AsF64(x) \in Float64
         /\ -Inf <= AsF64(x) /\ AsF64(x) <= Inf
         /\ x.kind = "Int" => x.v \in Int64 /\ x.v \in Int /\ AsF64(x) = Nearest(2 * x.v)
         /\ x.kind = "Float" => x.v \in Float64 /\ x.v \in Int /\ AsF64(x) = x.v
  <1>1. CASE x \in {IntOf(i) : i \in Int64}
    <2>1. PICK i \in Int64 : x = IntOf(i)
      BY <1>1
    <2>2. i \in Int /\ x.kind = "Int" /\ x.v = i /\ 2 * i \in Int
      BY <2>1, FilterAssumption DEF IntOf, Int64
    <2>3. Nearest(2 * i) \in Float64 /\ Nearest(2 * i) \in Int /\ -Inf <= Nearest(2 * i) /\ Nearest(2 * i) <= Inf
      BY <2>2, NearestIs, FloatFacts
    <2> QED  BY <2>2, <2>3, FloatFacts DEF Numeric, Real, AsF64
  <1>2. CASE x \in {FloatOf(f) : f \in Float64}
    <2>1. PICK f \in Float64 : x = FloatOf(f)
      BY <1>2
    <2>2. x.kind = "Float" /\ x.v = f
      BY <2>1 DEF FloatOf
    <2>3. f \in Int /\ -Inf <= f /\ f <= Inf
      BY FloatFacts
    <2> QED  BY <2>2, <2>3 DEF Numeric, Real, AsF64
  <1> QED
    BY <1>1, <1>2 DEF Num

(* An infinite bound is not exact, so the comparison is one of floats.     *)
LEMMA InfinitiesAreFloats ==
  /\ AsF64(FloatOf(Inf)) = Inf /\ AsF64(FloatOf(-Inf)) = -Inf
  /\ ExactInt(FloatOf(Inf)) = {} /\ ExactInt(FloatOf(-Inf)) = {}
  /\ FloatOf(Inf) # NaN /\ FloatOf(-Inf) # NaN
  BY FloatFacts, FilterAssumption DEF AsF64, FloatOf, ExactInt, Abs, NaN

(* The integers of a field within integer bounds, whatever their size.     *)
LEMMA IntRangeIsExact ==
  ASSUME NEW l \in Int64, NEW h \in Int64, NEW field, NEW m,
         \A x \in ValuesOf(m, field) : x.kind = "Int" => x.v \in Int64,
         \A x \in ValuesOf(m, field) : Numeric(x) => x.kind = "Int"
  PROVE  RangeVerdict(InRange(field, IntOf(l), IntOf(h)), m)
            = Verdict(\E x \in ValuesOf(m, field) : Between(x, IntOf(l), IntOf(h)))
  <1> DEFINE p == InRange(field, IntOf(l), IntOf(h))
             xs == ValuesOf(m, field)
  <1>1. p.field = field /\ p.lo = IntOf(l) /\ p.hi = IntOf(h)
    BY DEF InRange
  <1>2. NaN \notin {p.lo, p.hi}
    BY <1>1 DEF IntOf, NaN
  <1>3. Int64 \subseteq Int
    BY FilterAssumption DEF Int64
  <1>4. ExactInt(IntOf(l)) = {l} /\ ExactInt(IntOf(h)) = {h}
    BY DEF ExactInt, IntOf
  <1>5. AsF64(p.lo) = Nearest(2 * l) /\ AsF64(p.hi) = Nearest(2 * h)
    BY <1>1 DEF AsF64, IntOf
  <1>6. ASSUME NEW x \in xs, Numeric(x)
        PROVE  /\ x.kind = "Int" /\ x.v \in Int
               /\ Within(x, p.lo, p.hi) <=> l <= x.v /\ x.v <= h
               /\ Between(x, IntOf(l), IntOf(h)) <=> l <= x.v /\ x.v <= h
    <2>1. x.kind = "Int" /\ x.v \in Int
      BY <1>3, <1>6
    <2>2. ExactInt(x) = {x.v}
      BY <2>1 DEF ExactInt
    <2>3. Within(x, p.lo, p.hi) <=> l <= x.v /\ x.v <= h
      BY <1>1, <1>4, <1>6, <2>2 DEF Within
    <2>4. Real(x) = 2 * x.v /\ Real(IntOf(l)) = 2 * l /\ Real(IntOf(h)) = 2 * h
      BY <2>1 DEF Real, IntOf
    <2> QED  BY <1>3, <1>6, <2>1, <2>3, <2>4 DEF Between
  <1>7. (\E x \in xs : Within(x, p.lo, p.hi)) <=> \E x \in xs : Between(x, IntOf(l), IntOf(h))
    BY <1>6 DEF Within, Between
  <1>8. ASSUME NEW x \in xs, Within(x, p.lo, p.hi)  PROVE AsF64(p.lo) <= AsF64(p.hi)
    <2>1. l <= h
      BY <1>3, <1>6, <1>8 DEF Within
    <2> QED  BY <1>3, <1>5, <2>1, NearestKeepsOrder
  <1>9. RangeVerdict(p, m) = Verdict(/\ AsF64(p.lo) <= AsF64(p.hi)
                                     /\ \E x \in xs : Within(x, p.lo, p.hi))
    BY <1>1, <1>2 DEF RangeVerdict
  <1> HIDE DEF p, xs
  <1>10. RangeVerdict(p, m) = Verdict(\E x \in xs : Between(x, IntOf(l), IntOf(h)))
    BY <1>7, <1>8, <1>9 DEF Verdict
  <1> QED
    BY <1>10 DEF p, xs

(* A range that is open on one side compares floats.                       *)
LEMMA UpToBound ==
  ASSUME NEW b \in Num, NEW field, NEW m
  PROVE  /\ RangeVerdict(InRange(field, FloatOf(-Inf), b), m) \in {Yes, No}
         /\ RangeVerdict(InRange(field, FloatOf(-Inf), b), m) = Yes
               <=> \E x \in ValuesOf(m, field) :
                      Numeric(x) /\ -Inf <= AsF64(x) /\ AsF64(x) <= AsF64(b)
  <1> DEFINE p == InRange(field, FloatOf(-Inf), b)
             xs == ValuesOf(m, field)
  <1>1. p.field = field /\ p.lo = FloatOf(-Inf) /\ p.hi = b
    BY DEF InRange
  <1>2. b # NaN /\ -Inf <= AsF64(b)
    BY NumberFacts DEF NaN, Numeric
  <1>3. \A x : Within(x, p.lo, p.hi) <=> Numeric(x) /\ -Inf <= AsF64(x) /\ AsF64(x) <= AsF64(b)
    BY <1>1, InfinitiesAreFloats DEF Within
  <1>4. RangeVerdict(p, m) = Verdict(\E x \in xs : Within(x, p.lo, p.hi))
    BY <1>1, <1>2, InfinitiesAreFloats DEF RangeVerdict
  <1> HIDE DEF p
  <1> QED
    BY <1>3, <1>4 DEF p, Verdict, Yes, No

LEMMA FromBound ==
  ASSUME NEW b \in Num, NEW field, NEW m
  PROVE  /\ RangeVerdict(InRange(field, b, FloatOf(Inf)), m) \in {Yes, No}
         /\ RangeVerdict(InRange(field, b, FloatOf(Inf)), m) = Yes
               <=> \E x \in ValuesOf(m, field) :
                      Numeric(x) /\ AsF64(b) <= AsF64(x) /\ AsF64(x) <= Inf
  <1> DEFINE p == InRange(field, b, FloatOf(Inf))
             xs == ValuesOf(m, field)
  <1>1. p.field = field /\ p.lo = b /\ p.hi = FloatOf(Inf)
    BY DEF InRange
  <1>2. b # NaN /\ AsF64(b) <= Inf
    BY NumberFacts DEF NaN, Numeric
  <1>3. \A x : Within(x, p.lo, p.hi) <=> Numeric(x) /\ AsF64(b) <= AsF64(x) /\ AsF64(x) <= Inf
    BY <1>1, InfinitiesAreFloats DEF Within
  <1>4. RangeVerdict(p, m) = Verdict(\E x \in xs : Within(x, p.lo, p.hi))
    BY <1>1, <1>2, InfinitiesAreFloats DEF RangeVerdict
  <1> HIDE DEF p
  <1> QED
    BY <1>3, <1>4 DEF p, Verdict, Yes, No

-----------------------------------------------------------------------------
(* Comparisons with a numeral                                              *)

LEMMA NumberIs ==
  ASSUME NEW tok, IsNumeral(tok)
  PROVE  /\ Number(tok) \in Num
         /\ Number(tok).kind = "Int" =>
               \E n \in Int64 : Number(tok) = IntOf(n) /\ tok.h = 2 * n /\ ~tok.dot
         /\ Abs(tok.h) < 2 * Exact /\ tok.h \in Floats =>
               IF tok.dot THEN Number(tok) = FloatOf(tok.h)
               ELSE \E n \in Int64 : Number(tok) = IntOf(n) /\ tok.h = 2 * n
  <1>1. tok.h \in Int /\ (~tok.dot => tok.h % 2 = 0)
    BY DEF IsNumeral
  <1>2. Nearest(tok.h) \in Float64
    BY <1>1, NearestIs
  <1>3. ASSUME ~tok.dot  PROVE tok.h = 2 * (tok.h \div 2) /\ tok.h \div 2 \in Int
    BY <1>1, <1>3
  <1>4. CASE ~tok.dot /\ tok.h \div 2 \in Int64
    <2>1. Number(tok) = IntOf(tok.h \div 2)
      BY <1>4 DEF Number
    <2> QED  BY <1>3, <1>4, <2>1 DEF Num
  <1>5. CASE tok.dot \/ tok.h \div 2 \notin Int64
    <2>1. Number(tok) = FloatOf(Nearest(tok.h))
      BY <1>5 DEF Number
    <2>2. Number(tok).kind = "Float" /\ Number(tok) \in Num
      BY <1>2, <2>1 DEF FloatOf, Num
    <2>4. ASSUME Abs(tok.h) < 2 * Exact  PROVE tok.dot
      <3>1. ASSUME ~tok.dot  PROVE tok.h \div 2 \in Int64
        BY <1>1, <1>3, <2>4, <3>1, FilterAssumption DEF Abs, Int64
      <3> QED  BY <1>5, <3>1 DEF IsNumeral
    <2>5. tok.h \in Floats => Number(tok) = FloatOf(tok.h)
      BY <2>1, NearestOfFloat, FloatFacts
    <2> QED  BY <2>2, <2>4, <2>5
  <1> QED
    BY <1>4, <1>5 DEF IsNumeral

(* A float is beyond a float if it is beyond its neighbour or is it.       *)
LEMMA NextToFloat ==
  ASSUME NEW h \in Floats
  PROVE  /\ NextDown(FloatOf(h)) \in Num /\ NextUp(FloatOf(h)) \in Num
         /\ \A f \in Float64 : /\ f <= AsF64(NextDown(FloatOf(h))) <=> f < h
                               /\ AsF64(NextUp(FloatOf(h))) <= f <=> f > h
  <1> DEFINE down == CHOOSE f \in Float64 : f < h /\ \A g \in Float64 : g < h => f >= g
             up == CHOOSE f \in Float64 : f > h /\ \A g \in Float64 : g > h => f <= g
  <1>1. /\ down \in Float64 /\ down < h /\ \A g \in Float64 : g < h => down >= g
        /\ up \in Float64 /\ up > h /\ \A g \in Float64 : g > h => up <= g
    BY NextFloat
  <1>2. FloatOf(h).kind = "Float" /\ FloatOf(h).v = h /\ h # Inf /\ h # -Inf
    BY FloatFacts DEF FloatOf
  <1>3. NextDown(FloatOf(h)) = FloatOf(down) /\ NextUp(FloatOf(h)) = FloatOf(up)
    BY <1>2 DEF NextDown, NextUp
  <1> HIDE DEF down, up
  <1>4. AsF64(FloatOf(down)) = down /\ AsF64(FloatOf(up)) = up
    BY DEF AsF64, FloatOf
  <1>5. /\ \A f \in Float64 : f \in Int
        /\ h \in Int
    BY FloatFacts
  <1>6. \A f \in Float64 : (f <= down <=> f < h) /\ (up <= f <=> f > h)
    BY <1>1, <1>5
  <1> QED
    BY <1>1, <1>3, <1>4, <1>6 DEF Num

LEMMA NextToInt ==
  ASSUME NEW n \in Int64
  PROVE  /\ NextDown(IntOf(n)) = IF n - 1 \in Int64 THEN IntOf(n - 1) ELSE FloatOf(-Inf)
         /\ NextUp(IntOf(n)) = IF n + 1 \in Int64 THEN IntOf(n + 1) ELSE FloatOf(Inf)
  BY DEF NextDown, NextUp, IntOf

LEMMA ExactlyFacts ==
  ASSUME NEW x \in Num, Exactly(x)
  PROVE  AsF64(x) = Real(x) /\ Real(x) \in Int /\ Abs(Real(x)) < 2 * Exact
         /\ -Inf <= AsF64(x) /\ AsF64(x) <= Inf /\ AsF64(x) \in Float64
  <1>1. Real(x) \in Int /\ Abs(Real(x)) < 2 * Exact
    BY NumberFacts DEF Exactly
  <1>2. x.kind = "Int" => AsF64(x) = Real(x)
    <2> SUFFICES ASSUME x.kind = "Int"  PROVE AsF64(x) = Real(x)
      OBVIOUS
    <2>1. Real(x) = 2 * x.v /\ AsF64(x) = Nearest(2 * x.v)
      BY DEF Real, AsF64
    <2>2. x.v \in -Exact..Exact
      BY <1>1, <2>1, NumberFacts, FilterAssumption DEF Abs
    <2>3. 2 * x.v \in Floats
      BY <2>2, FilterAssumption
    <2> QED  BY <2>1, <2>3, NearestOfFloat, FloatFacts
  <1>3. x.kind # "Int" => AsF64(x) = Real(x)
    BY DEF Real, AsF64
  <1> QED
    BY <1>1, <1>2, <1>3, NumberFacts

(* The bound of a comparison as a float, where it is exact.                *)
LEMMA BoundIs ==
  ASSUME NEW tok, IsNumeral(tok), Abs(tok.h) < 2 * Exact, tok.h \in Floats
  PROVE  /\ Number(tok) \in Num /\ AsF64(Number(tok)) = tok.h
         /\ NextDown(Number(tok)) \in Num /\ NextUp(Number(tok)) \in Num
         /\ \A f \in Float64 :
               tok.dot \/ f % 2 = 0 =>
                  /\ f <= AsF64(NextDown(Number(tok))) <=> f < tok.h
                  /\ AsF64(NextUp(Number(tok))) <= f <=> f > tok.h
  <1>1. /\ tok.h \in Int /\ tok.dot \in BOOLEAN /\ (~tok.dot => tok.h % 2 = 0)
        /\ -2 * Exact < tok.h /\ tok.h < 2 * Exact /\ 2 * Exact \in Int
    BY FilterAssumption DEF IsNumeral, Abs
  <1>2. CASE tok.dot
    <2>1. Number(tok) = FloatOf(tok.h)
      BY <1>2, NumberIs
    <2>2. AsF64(FloatOf(tok.h)) = tok.h
      BY DEF AsF64, FloatOf
    <2>3. \A f \in Float64 : /\ f <= AsF64(NextDown(Number(tok))) <=> f < tok.h
                             /\ AsF64(NextUp(Number(tok))) <= f <=> f > tok.h
      BY <2>1, NextToFloat
    <2>4. NextDown(Number(tok)) \in Num /\ NextUp(Number(tok)) \in Num
      BY <2>1, NextToFloat
    <2>5. Number(tok) \in Num /\ AsF64(Number(tok)) = tok.h
      BY <2>1, <2>2, NumberIs
    <2> QED  BY <2>3, <2>4, <2>5
  <1>3. CASE ~tok.dot
    <2>1. PICK n \in Int64 : Number(tok) = IntOf(n) /\ tok.h = 2 * n
      BY <1>3, NumberIs
    <2>2. n - 1 \in Int64 /\ n + 1 \in Int64 /\ n \in Int
      BY <1>1, <2>1, FilterAssumption DEF Int64
    <2>3. NextDown(Number(tok)) = IntOf(n - 1) /\ NextUp(Number(tok)) = IntOf(n + 1)
      BY <2>1, <2>2, NextToInt
    <2>4. \A i \in {n - 1, n, n + 1} : i \in -Exact..Exact
      BY <1>1, <2>1, <2>2, FilterAssumption
    <2>5. \A i \in {n - 1, n, n + 1} : AsF64(IntOf(i)) = 2 * i
      <3>1. \A i \in {n - 1, n, n + 1} : 2 * i \in Float64
        BY <2>4, FilterAssumption, FloatFacts
      <3> QED  BY <3>1, NearestOfFloat DEF AsF64, IntOf
    <2>6. \A f \in Float64 : f \in Int
      BY FloatFacts
    <2>7. /\ AsF64(Number(tok)) = tok.h
          /\ AsF64(NextDown(Number(tok))) = tok.h - 2 /\ AsF64(NextUp(Number(tok))) = tok.h + 2
      BY <2>1, <2>2, <2>3, <2>5
    <2>8. NextDown(Number(tok)) \in Num /\ NextUp(Number(tok)) \in Num
      BY <2>2, <2>3 DEF Num
    <2> QED  BY <1>1, <1>3, <2>6, <2>7, <2>8, NumberIs
  <1> QED
    BY <1>1, <1>2, <1>3

LEMMA FieldValues ==
  ASSUME NEW m, ValuesTyped(m), NEW field
  PROVE  \A x \in ValuesOf(m, field) : Numeric(x) => x \in Num
  BY DEF ValuesTyped, ValuesOf

LEMMA ComparisonIs ==
  ASSUME NEW field, NEW op, NEW tok, NEW m
  PROVE  /\ op = "<=" => Matches(Comparison(field, op, tok), m) =
                            RangeVerdict(InRange(field, FloatOf(-Inf), Number(tok)), m)
         /\ op = "<" => Matches(Comparison(field, op, tok), m) =
                            RangeVerdict(InRange(field, FloatOf(-Inf), NextDown(Number(tok))), m)
         /\ op = ">=" => Matches(Comparison(field, op, tok), m) =
                            RangeVerdict(InRange(field, Number(tok), FloatOf(Inf)), m)
         /\ op = ">" => Matches(Comparison(field, op, tok), m) =
                            RangeVerdict(InRange(field, NextUp(Number(tok)), FloatOf(Inf)), m)
  <1>1. \A lo, hi : Matches(InRange(field, lo, hi), m) = RangeVerdict(InRange(field, lo, hi), m)
    BY DEF Matches, InRange
  <1> QED
    BY <1>1 DEF Comparison

LEMMA ComparisonMeans ==
  ASSUME NEW field, NEW op \in {"<", "<=", ">", ">="}, NEW tok, IsNumeral(tok),
         Abs(tok.h) < 2 * Exact, tok.h \in Floats,
         NEW m, ValuesTyped(m), NEW xs, xs = {x \in ValuesOf(m, field) : Numeric(x)},
         \A x \in xs : Exactly(x) /\ (op \in {"<=", ">="} \/ tok.dot \/ Real(x) % 2 = 0)
  PROVE  Matches(Comparison(field, op, tok), m) = Verdict(\E x \in xs : Holds(x, op, tok.h))
  <1> DEFINE n == Number(tok)
             h == tok.h
  <1>1. \A x \in xs : /\ AsF64(x) = Real(x) /\ Real(x) \in Int /\ AsF64(x) \in Float64
                      /\ -Inf <= AsF64(x) /\ AsF64(x) <= Inf
    BY FieldValues, ExactlyFacts
  <1>2. /\ n \in Num /\ AsF64(n) = h
        /\ NextDown(n) \in Num /\ NextUp(n) \in Num
        /\ \A f \in Float64 :
              tok.dot \/ f % 2 = 0 =>
                 (f <= AsF64(NextDown(n)) <=> f < h) /\ (AsF64(NextUp(n)) <= f <=> f > h)
    BY BoundIs
  <1>3. h \in Int /\ tok.dot \in BOOLEAN /\ (~tok.dot => h % 2 = 0)
    BY DEF IsNumeral
  <1>4. \A v, P : v \in {Yes, No} /\ (v = Yes <=> P) => v = Verdict(P)
    BY DEF Verdict, Yes, No
  <1> HIDE DEF n, h
  <1>5. CASE op = "<="
    <2> DEFINE v == RangeVerdict(InRange(field, FloatOf(-Inf), n), m)
    <2>1. v \in {Yes, No} /\ (v = Yes <=> \E x \in xs : AsF64(x) <= h)
      BY <1>1, <1>2, UpToBound
    <2>2. (\E x \in xs : AsF64(x) <= h) <=> \E x \in xs : Holds(x, op, h)
      BY <1>1, <1>5 DEF Holds
    <2>3. Matches(Comparison(field, op, tok), m) = v
      BY <1>5, ComparisonIs DEF n
    <2> HIDE DEF v
    <2> QED  BY <2>1, <2>2, <2>3 DEF h, Verdict, Yes, No
  <1>6. CASE op = ">="
    <2> DEFINE v == RangeVerdict(InRange(field, n, FloatOf(Inf)), m)
    <2>1. v \in {Yes, No} /\ (v = Yes <=> \E x \in xs : h <= AsF64(x))
      BY <1>1, <1>2, FromBound
    <2>2. (\E x \in xs : h <= AsF64(x)) <=> \E x \in xs : Holds(x, op, h)
      BY <1>1, <1>3, <1>6 DEF Holds
    <2>3. Matches(Comparison(field, op, tok), m) = v
      BY <1>6, ComparisonIs DEF n
    <2> HIDE DEF v
    <2> QED  BY <2>1, <2>2, <2>3 DEF h, Verdict, Yes, No
  <1>7. CASE op = "<"
    <2> DEFINE v == RangeVerdict(InRange(field, FloatOf(-Inf), NextDown(n)), m)
               b == AsF64(NextDown(n))
    <2>1. v \in {Yes, No} /\ (v = Yes <=> \E x \in xs : AsF64(x) <= b)
      BY <1>1, <1>2, UpToBound
    <2>2. \A x \in xs : AsF64(x) <= b <=> Holds(x, op, h)
      BY <1>1, <1>2, <1>7 DEF Holds
    <2>3. Matches(Comparison(field, op, tok), m) = v
      BY <1>7, ComparisonIs DEF n
    <2> HIDE DEF v, b
    <2> QED  BY <2>1, <2>2, <2>3 DEF h, Verdict, Yes, No
  <1>8. CASE op = ">"
    <2> DEFINE v == RangeVerdict(InRange(field, NextUp(n), FloatOf(Inf)), m)
               b == AsF64(NextUp(n))
    <2>1. v \in {Yes, No} /\ (v = Yes <=> \E x \in xs : b <= AsF64(x))
      BY <1>1, <1>2, FromBound
    <2>2. \A x \in xs : b <= AsF64(x) <=> Holds(x, op, h)
      BY <1>1, <1>2, <1>8 DEF Holds
    <2>3. Matches(Comparison(field, op, tok), m) = v
      BY <1>8, ComparisonIs DEF n
    <2> HIDE DEF v, b
    <2> QED  BY <2>1, <2>2, <2>3 DEF h, Verdict, Yes, No
  <1> QED
    BY <1>5, <1>6, <1>7, <1>8

LEMMA NoneMissed ==
  ASSUME NEW field, NEW op, NEW tok, IsNumeral(tok), Number(tok).kind = "Int",
         NEW m, ValuesTyped(m), NEW x \in ValuesOf(m, field), x.kind = "Int",
         Holds(x, op, tok.h)
  PROVE  Matches(Comparison(field, op, tok), m) = Yes
  <1>1. PICK n \in Int64 : Number(tok) = IntOf(n) /\ tok.h = 2 * n
    BY NumberIs
  <1>2. /\ Numeric(x) /\ x.v \in Int64 /\ AsF64(x) = Nearest(2 * x.v)
        /\ -Inf <= AsF64(x) /\ AsF64(x) <= Inf
    BY FieldValues, NumberFacts DEF Numeric
  <1>3. n \in Int /\ x.v \in Int /\ Int64 \subseteq Int /\ Real(x) = 2 * x.v
    BY <1>2, FilterAssumption DEF Int64, Real
  <1>4. \A i \in Int64 : IntOf(i) \in Num /\ AsF64(IntOf(i)) = Nearest(2 * i)
    BY DEF Num, AsF64, IntOf
  <1>5. CASE op = "<="
    <2>1. AsF64(x) <= AsF64(IntOf(n))
      BY <1>1, <1>2, <1>3, <1>4, <1>5, NearestKeepsOrder DEF Holds
    <2>2. RangeVerdict(InRange(field, FloatOf(-Inf), IntOf(n)), m) = Yes
      BY <1>2, <1>4, <2>1, UpToBound
    <2> QED  BY <1>1, <1>5, <2>2, ComparisonIs
  <1>6. CASE op = ">="
    <2>1. AsF64(IntOf(n)) <= AsF64(x)
      BY <1>1, <1>2, <1>3, <1>4, <1>6, NearestKeepsOrder DEF Holds
    <2>2. RangeVerdict(InRange(field, IntOf(n), FloatOf(Inf)), m) = Yes
      BY <1>2, <1>4, <2>1, FromBound
    <2> QED  BY <1>1, <1>6, <2>2, ComparisonIs
  <1>7. CASE op = "<"
    <2>1. x.v <= n - 1
      BY <1>1, <1>3, <1>7 DEF Holds
    <2>2. n - 1 \in Int64
      BY <1>2, <2>1, FilterAssumption DEF Int64
    <2>3. AsF64(x) <= AsF64(IntOf(n - 1))
      BY <1>2, <1>3, <1>4, <2>1, <2>2, NearestKeepsOrder
    <2>4. RangeVerdict(InRange(field, FloatOf(-Inf), IntOf(n - 1)), m) = Yes
      BY <1>2, <1>4, <2>2, <2>3, UpToBound
    <2> QED  BY <1>1, <1>7, <2>2, <2>4, NextToInt, ComparisonIs
  <1>8. CASE op = ">"
    <2>1. n + 1 <= x.v
      BY <1>1, <1>3, <1>8 DEF Holds
    <2>2. n + 1 \in Int64
      BY <1>2, <2>1, FilterAssumption DEF Int64
    <2>3. AsF64(IntOf(n + 1)) <= AsF64(x)
      BY <1>2, <1>3, <1>4, <2>1, <2>2, NearestKeepsOrder
    <2>4. RangeVerdict(InRange(field, IntOf(n + 1), FloatOf(Inf)), m) = Yes
      BY <1>2, <1>4, <2>2, <2>3, FromBound
    <2> QED  BY <1>1, <1>8, <2>2, <2>4, NextToInt, ComparisonIs
  <1> QED
    BY <1>5, <1>6, <1>7, <1>8 DEF Holds

-----------------------------------------------------------------------------
(* The parser on the way through a single comparison                       *)

Typed ==
    /\ input \in Inputs
    /\ next \in input.tokens \cup {End}
    /\ read \in Seq(input.tokens \cup {End})
    /\ built \in Seq(Ranges)
    /\ ValuesTyped(meta)

Parsed == Leaf(Comparison(read[1].s, read[2].s, read[3]))

Reading ==
    /\ pc \in {"start", "built"} => read = <<>>
    /\ read = <<>> =>
          \/ pc \in {"start", "built", "accepted"} /\ stack = <<>>
          \/ pc = "operand" /\ stack = OrExprCall
          \/ pc \in {"rejected", "match", "matched"}
    /\ Len(read) = 1 =>
          \/ pc = "op" /\ leaf = <<read[1].s>> /\ stack = OrExprCall
          \/ pc \in {"operand", "rejected"}
    /\ Len(read) = 2 /\ read[2].t = "op" =>
          \/ pc = "value" /\ leaf = <<read[1].s, read[2].s>> /\ stack = OrExprCall
          \/ pc = "rejected"
    /\ Len(read) = 3 /\ read[2].t = "op" /\ read[3].t = "num" =>
          \/ pc = "return" /\ root = Parsed /\ stack \in {OrExprCall, <<OrExprCall[1]>>, <<>>}
          \/ pc = "rejected"
          \/ pc = "accepted" /\ root = Parsed /\ stack = <<>>
          \/ pc = "match" /\ node = Parsed /\ stack = <<>>
          \/ pc = "matched" /\ stack = <<>> /\ verdict = Matches(Parsed.pred, meta)

(* Every step leaves what was read, or reads the next token.               *)
LEMMA TokensRead ==
  ASSUME Typed, [Next]_vars
  PROVE  Typed' /\ (read' = read \/ Read)
  <1> DEFINE goal == Typed' /\ (read' = read \/ Read)
  <1>1. ASSUME UNCHANGED <<input, built, meta>>, (read' = read /\ next' = next) \/ Read
        PROVE  goal
    <2>1. next' \in input'.tokens \cup {End}
      BY <1>1 DEF Typed, Read
    <2>2. read' \in Seq(input'.tokens \cup {End})
      BY <1>1 DEF Typed, Read
    <2> QED  BY <1>1, <2>1, <2>2 DEF Typed
  <1>2. ASSUME NEW p \in Ranges, And(p)  PROVE goal
    BY <1>2 DEF And, Typed, matching
  <1>3. ASSUME NEW m \in input.metas, Match(m)  PROVE goal
    BY <1>3, WhereAssumption DEF Match, Typed, parser
  <1>4. CASE NotExpr \/ Group \/ Ident \/ InComparison \/ EndComparison \/ Loop \/ CloseGroup
    BY <1>1, <1>4 DEF NotExpr, Group, Ident, InComparison, EndComparison, Loop, CloseGroup, matching
  <1>5. CASE ParseWhere \/ Reject \/ Return \/ Accept
    BY <1>1, <1>5 DEF ParseWhere, Reject, Return, Accept, matching
  <1>6. CASE EvalLeaf \/ EvalFirst \/ EvalSecond \/ EvalReturn
    BY <1>1, <1>6 DEF EvalLeaf, EvalFirst, EvalSecond, EvalReturn, parser
  <1>7. CASE UNCHANGED vars
    BY <1>1, <1>7 DEF vars, parser, matching
  <1> HIDE DEF goal
  <1> QED
    BY <1>2, <1>3, <1>4, <1>5, <1>6, <1>7 DEF Next, goal

LEMMA ReadGrows ==
  ASSUME Typed, Read
  PROVE  /\ Len(read) \in Nat /\ Len(read') = Len(read) + 1 /\ read' # <<>>
         /\ read'[Len(read) + 1] = next
         /\ \A i \in 1..Len(read) : read'[i] = read[i]
  <1> DEFINE S == input.tokens \cup {End}
  <1>1. read \in Seq(S) /\ next \in S /\ read' = Append(read, next)
    BY DEF Typed, Read
  <1> HIDE DEF S
  <1>2. Len(read) \in Nat /\ Len(read') = Len(read) + 1 /\ read'[Len(read) + 1] = next
    BY <1>1
  <1>3. \A i \in 1..Len(read) : read'[i] = read[i]
    BY <1>1
  <1> QED
    BY <1>2, <1>3

LEMMA Frames ==
  /\ <<>> \o OrExprCall = OrExprCall /\ OrExprCall # <<>>
  /\ Len(OrExprCall) = 2 /\ OrExprCall[2] = [fn |-> "and", left |-> None]
  /\ SubSeq(OrExprCall, 1, 1) = <<OrExprCall[1]>>
  /\ OrExprCall[1] = [fn |-> "or", left |-> None]
  /\ SubSeq(<<OrExprCall[1]>>, 1, 0) = <<>>
  <1> DEFINE a == [fn |-> "or", left |-> None]
             b == [fn |-> "and", left |-> None]
  <1>1. OrExprCall = <<a, b>>
    BY DEF OrExprCall
  <1> HIDE DEF a, b
  <1>2. OrExprCall # <<>> /\ Len(OrExprCall) = 2 /\ OrExprCall[1] = a /\ OrExprCall[2] = b
    BY <1>1
  <1>3. <<>> \o OrExprCall = OrExprCall
    BY <1>1
  <1>4. SubSeq(<<a, b>>, 1, 1) = <<a>>
    <2> DEFINE t == SubSeq(<<a, b>>, 1, 1)
    <2>1. <<a, b>> \in Seq({a, b}) /\ Len(<<a, b>>) = 2
      OBVIOUS
    <2>2. t \in Seq({a, b}) /\ Len(t) = 1 /\ t[1] = a
      BY <2>1
    <2> HIDE DEF t
    <2>3. t = <<a>>
      BY <2>2
    <2> QED  BY <2>3 DEF t
  <1>5. SubSeq(<<a>>, 1, 0) = <<>>
    OBVIOUS
  <1> QED
    BY <1>1, <1>2, <1>3, <1>4, <1>5 DEF a, b

LEMMA Kinds ==
  /\ \A s : Word(s).t = "word" /\ Punct(s).t = "punct"
  /\ \A p : Leaf(p).fn = "leaf" /\ Leaf(p).pred = p /\ Leaf(p) # None
  BY DEF Word, Punct, Token, Leaf, None

(* Where a comparison goes on from its operator, and from its value.       *)
LEMMA ExpectedIs ==
  /\ pc = "op" => Expected # "return" /\ (next.t = "op" => Expected = "value")
  /\ pc = "value" => Expected \in {"return", "rejected"}
  BY Kinds DEF Expected

LEMMA PredicateIs == pc = "value" => Predicate = Comparison(leaf[1], leaf[2], next)
  BY DEF Predicate

LEMMA ReadingStays ==
  ASSUME Reading, UNCHANGED <<read, pc, stack, leaf, root, node, verdict, meta>>
  PROVE  Reading'
  BY DEF Reading, Parsed

(* Beyond the single comparison there is nothing to say.                   *)
LEMMA ReadOn ==
  ASSUME Typed, Read, pc' \notin {"start", "built"}, Len(read) >= 2,
         Len(read) = 2 => read[2].t # "op"
  PROVE  Reading'
  <1>1. /\ Len(read) \in Nat /\ Len(read') = Len(read) + 1 /\ read' # <<>>
        /\ read'[2] = read[2]
    BY ReadGrows
  <1>2. PICK n \in Nat : n = Len(read)
    BY <1>1
  <1>3. Len(read') = n + 1 /\ n >= 2 /\ (n = 2 => read'[2].t # "op")
    BY <1>1, <1>2
  <1>4. Len(read') # 1 /\ Len(read') # 2 /\ (Len(read') = 3 => read'[2].t # "op")
    BY <1>3
  <1> QED
    BY <1>1, <1>4 DEF Reading

LEMMA PairIs ==
  ASSUME NEW a, NEW b
  PROVE  Append(<<a>>, b) = <<a, b>>
  <1> DEFINE t == Append(<<a>>, b)
  <1>1. <<a>> \in Seq({a, b}) /\ Len(<<a>>) = 1
    OBVIOUS
  <1>2. t \in Seq({a, b}) /\ Len(t) = 2 /\ t[1] = a /\ t[2] = b
    BY <1>1
  <1> HIDE DEF t
  <1>3. t = <<a, b>>
    BY <1>2
  <1> QED
    BY <1>3 DEF t

LEMMA AtLeastTwo == \A n \in Nat : (n # 0 => n >= 1) /\ (n # 0 /\ n # 1 => n >= 2)
  OBVIOUS

LEMMA ReadingSoFar ==
  ASSUME Typed, Reading
  PROVE  /\ Len(read) \in Nat
         /\ Len(read) = 0 => pc \in {"start", "built", "accepted", "operand", "rejected", "match", "matched"}
         /\ Len(read) = 1 => pc \in {"op", "operand", "rejected"}
         /\ Len(read) = 2 /\ read[2].t = "op" => pc \in {"value", "rejected"}
  <1>1. Len(read) \in Nat /\ (Len(read) = 0 => read = <<>>)
    BY DEF Typed
  <1> QED
    BY <1>1 DEF Reading

LEMMA ReadingStep ==
  ASSUME Typed, Reading, [Next]_vars
  PROVE  Reading'
  <1>0. Len(read) \in Nat
    BY DEF Typed
  <1>1. ASSUME Read
        PROVE  /\ Len(read') = Len(read) + 1 /\ read' # <<>>
               /\ read'[Len(read) + 1] = next
               /\ \A i \in 1..Len(read) : read'[i] = read[i]
    BY <1>1, ReadGrows
  <1>2. Len(read) = 0 => read = <<>>
    BY DEF Typed
  <1>3. ASSUME NEW p \in Ranges, And(p)  PROVE Reading'
    BY <1>3 DEF And, Reading
  <1>4. ASSUME NEW m \in input.metas, Match(m)  PROVE Reading'
    BY <1>4, Kinds DEF Match, Reading, Parsed, parser
  <1>5. CASE ParseWhere
    <2>1. read = <<>> /\ stack = <<>> /\ read' = read
      BY <1>5 DEF ParseWhere, Reading
    <2>2. CASE next = End
      BY <1>5, <2>1, <2>2 DEF ParseWhere, Reading
    <2>3. CASE next # End
      <3>1. stack' = OrExprCall /\ pc' = "operand"
        BY <1>5, <2>1, <2>3, Frames DEF ParseWhere, Push
      <3> QED  BY <2>1, <3>1 DEF Reading
    <2> QED  BY <2>2, <2>3
  <1>6. CASE Rejects /\ Reject
    BY <1>6 DEF Reject, Reading
  <1>7. CASE NotExpr \/ Group
    <2>1. /\ pc = "operand" /\ pc' = "operand" /\ Read
          /\ next.t \in {"word", "punct"}
      BY <1>7, Kinds DEF NotExpr, Group
    <2> QED  BY <1>0, <1>1, <1>2, <2>1 DEF Reading
  <1>8. CASE Ident
    <2>1. /\ pc = "operand" /\ pc' = "op" /\ Read /\ next.t = "word"
          /\ leaf' = <<next.s>> /\ stack' = stack
      BY <1>8 DEF Ident
    <2> QED  BY <1>0, <1>1, <1>2, <2>1 DEF Reading
  <1>9. CASE InComparison
    <2>1. Comparing /\ Expected \notin {"return", "rejected"} /\ Read /\ pc' = Expected
          /\ UNCHANGED <<stack, root>>
      BY <1>9 DEF InComparison
    <2>2. pc \notin {"start", "built", "accepted", "operand", "rejected", "match", "matched", "return"}
      BY <2>1 DEF Comparing
    <2>3. Len(read) >= 1
      BY <2>2, ReadingSoFar, AtLeastTwo
    <2>4. CASE Len(read) = 1
      <3>1. pc = "op" /\ leaf = <<read[1].s>> /\ stack = OrExprCall
        BY <2>2, <2>4 DEF Reading
      <3>2. ASSUME next.t = "op"
            PROVE  pc' = "value" /\ leaf' = <<read[1].s, next.s>>
        <4>1. pc' = "value" /\ leaf' = Append(leaf, next.s)
          BY <1>9, <2>1, <3>1, <3>2, ExpectedIs DEF InComparison
        <4> QED  BY <3>1, <4>1, PairIs
      <3>3. pc' \notin {"start", "built"}
        BY <2>1, <3>1 DEF Expected
      <3> QED  BY <1>1, <2>1, <2>4, <3>1, <3>2, <3>3 DEF Reading
    <2>5. CASE Len(read) >= 2
      <3>1. Len(read) = 2 => read[2].t # "op"
        BY <2>1, <2>2, ExpectedIs, ReadingSoFar
      <3>2. pc' \notin {"start", "built"}
        BY <2>1, <2>2 DEF Expected
      <3> QED  BY <2>1, <2>5, <3>1, <3>2, ReadOn
    <2> QED  BY <1>0, <2>3, <2>4, <2>5
  <1>10. CASE EndComparison
    <2>1. Comparing /\ Expected = "return" /\ Read /\ pc' = "return" /\ stack' = stack
          /\ root' = Leaf(Predicate)
      BY <1>10 DEF EndComparison
    <2>2. pc \notin {"start", "built", "accepted", "operand", "rejected", "match", "matched", "return", "op"}
      BY <2>1, ExpectedIs DEF Comparing
    <2>3. Len(read) >= 2
      BY <2>2, ReadingSoFar, AtLeastTwo
    <2>4. CASE Len(read) = 2 /\ read[2].t = "op"
      <3>1. pc = "value" /\ leaf = <<read[1].s, read[2].s>> /\ stack = OrExprCall
        BY <2>2, <2>4 DEF Reading
      <3>2. root' = Leaf(Comparison(read[1].s, read[2].s, next))
        BY <2>1, <3>1, PredicateIs
      <3>3. read'[1] = read[1] /\ read'[2] = read[2] /\ read'[3] = next
        BY <1>1, <2>1, <2>4
      <3>4. root' = Parsed'
        BY <3>2, <3>3 DEF Parsed
      <3> QED  BY <1>1, <2>1, <2>4, <3>1, <3>4 DEF Reading
    <2>5. CASE ~(Len(read) = 2 /\ read[2].t = "op")
      BY <2>1, <2>3, <2>5, ReadOn
    <2> QED  BY <2>4, <2>5
  <1>11. CASE Loop \/ CloseGroup
    <2>1. pc = "return" /\ Read /\ pc' \in {"operand", "return"}
      BY <1>11 DEF Loop, CloseGroup
    <2>2. Len(read) >= 2 /\ (Len(read) = 2 => read[2].t # "op")
      BY <2>1, ReadingSoFar, AtLeastTwo
    <2> QED  BY <2>1, <2>2, ReadOn
  <1>12. CASE Return
    <2>1. /\ pc = "return" /\ pc' = pc /\ stack # <<>> /\ stack' = Pop /\ UNCHANGED <<read, leaf>>
          /\ \/ Top.fn \in {"and", "or"} /\ root' = Joined
             \/ Top.fn = "not" /\ root' = Not(root)
      BY <1>12 DEF Return
    <2>2. read # <<>> /\ Len(read) # 1 /\ ~(Len(read) = 2 /\ read[2].t = "op")
      BY <2>1 DEF Reading
    <2>3. ASSUME Len(read) = 3, read[2].t = "op", read[3].t = "num"
          PROVE  root' = Parsed /\ stack' \in {<<OrExprCall[1]>>, <<>>}
      <3>1. root = Parsed /\ stack \in {OrExprCall, <<OrExprCall[1]>>}
        BY <2>1, <2>3 DEF Reading
      <3>2. Top.left = None /\ Top.fn \in {"and", "or"} /\ Pop \in {<<OrExprCall[1]>>, <<>>}
        BY <3>1, Frames DEF Top, Pop
      <3> QED  BY <2>1, <3>1, <3>2 DEF Joined
    <2> QED  BY <2>1, <2>2, <2>3 DEF Reading, Parsed
  <1>13. CASE Accept
    BY <1>0, <1>2, <1>13 DEF Accept, Reading, Parsed
  <1>14. CASE EvalLeaf
    BY <1>14, Kinds DEF EvalLeaf, Reading, Parsed, parser
  <1>15. CASE EvalFirst
    BY <1>15, Kinds DEF EvalFirst, Reading, Parsed, parser
  <1>16. CASE EvalSecond \/ EvalReturn
    BY <1>16, Kinds DEF EvalSecond, EvalReturn, Reading, Parsed, parser
  <1>17. CASE UNCHANGED vars
    BY <1>17, ReadingStays DEF vars, parser, matching
  <1> QED
    BY <1>3, <1>4, <1>5, <1>6, <1>7, <1>8, <1>9, <1>10, <1>11, <1>12, <1>13, <1>14, <1>15,
       <1>16, <1>17 DEF Next

-----------------------------------------------------------------------------
(* The evaluation of a filter that was built                               *)

(* The tree leans to the left: c[k] is the filter of the first k           *)
(* predicates.                                                             *)
Spine(c) ==
    /\ c[1] = Leaf(built[1])
    /\ \A i \in 2..Len(built) : c[i] = Both("and", c[i - 1], Leaf(built[i]))
    /\ root = c[Len(built)]

(* While the first k are evaluated, the conjunctions above them wait.      *)
Waiting(c, n, k) == [i \in 1..(n - k) |-> c[n + 1 - i]]

AllYes(k) == \A i \in 1..k : Matches(built[i], meta) = Yes
UpTo(k) ==
    \/ verdict = Yes /\ AllYes(k)
    \/ verdict \in {No, Error} /\ \E i \in 1..k : verdict = Matches(built[i], meta)

Evaluating(c) ==
    \/ pc = "built" /\ stack = <<>>
    \/ \E k \in 1..Len(built) :
          /\ stack = Waiting(c, Len(built), k)
          /\ \/ pc = "match" /\ node = c[k]
             \/ pc = "match" /\ node = Leaf(built[k]) /\ AllYes(k - 1)
             \/ pc = "matched" /\ UpTo(k)

Building ==
    /\ pc = "start" => built = <<>> /\ root = None
    /\ pc = "built" => built # <<>>
    /\ built # <<>> => \E c : Spine(c) /\ Evaluating(c)

LEMMA Trees ==
  ASSUME NEW p, NEW l, NEW r
  PROVE  /\ Leaf(p) # None /\ Leaf(p).fn = "leaf" /\ Leaf(p).pred = p
         /\ Both("and", l, r) # None /\ Both("and", l, r).fn = "and"
         /\ Both("and", l, r).left = l /\ Both("and", l, r).right = r
  BY DEF Leaf, Both, None

LEMMA SpineFacts ==
  ASSUME NEW c, Spine(c), Len(built) \in Nat, NEW k \in 1..Len(built)
  PROVE  /\ k = 1 => c[k] = Leaf(built[1])
         /\ k > 1 => /\ k - 1 \in 1..Len(built)
                     /\ c[k] = Both("and", c[k - 1], Leaf(built[k]))
         /\ c[k] # None /\ c[k].fn \in {"leaf", "and"}
         /\ c[k].fn = "leaf" => k = 1
  <1>1. k = 1 => c[k] = Leaf(built[1])
    BY DEF Spine
  <1>2. k > 1 => k \in 2..Len(built) /\ k - 1 \in 1..Len(built)
    OBVIOUS
  <1>3. k > 1 => c[k] = Both("and", c[k - 1], Leaf(built[k]))
    BY <1>2 DEF Spine
  <1> QED
    BY <1>1, <1>2, <1>3, Trees

LEMMA WaitingNone ==
  ASSUME NEW c, NEW n \in Nat
  PROVE  Waiting(c, n, n) = <<>>
  BY DEF Waiting

LEMMA WaitingEmpty ==
  ASSUME NEW c, NEW n \in Nat, NEW k \in 1..n, Waiting(c, n, k) = <<>>
  PROVE  k = n
  <1>1. DOMAIN Waiting(c, n, k) = 1..(n - k) /\ DOMAIN <<>> = {}
    BY DEF Waiting
  <1>2. 1..(n - k) = {}
    BY <1>1
  <1> QED
    BY <1>2

LEMMA WaitingFacts ==
  ASSUME NEW c, NEW n \in Nat, NEW k \in 1..n, k < n
  PROVE  /\ Waiting(c, n, k) # <<>> /\ Len(Waiting(c, n, k)) = n - k
         /\ Waiting(c, n, k)[n - k] = c[k + 1]
         /\ SubSeq(Waiting(c, n, k), 1, n - k - 1) = Waiting(c, n, k + 1)
  <1> DEFINE S == {c[i] : i \in 1..n}
             w == Waiting(c, n, k)
             v == Waiting(c, n, k + 1)
             u == SubSeq(w, 1, n - k - 1)
  <1>1. w \in Seq(S) /\ Len(w) = n - k /\ \A i \in 1..(n - k) : w[i] = c[n + 1 - i]
    BY DEF Waiting
  <1>2. v \in Seq(S) /\ Len(v) = n - k - 1 /\ \A i \in 1..(n - k - 1) : v[i] = c[n + 1 - i]
    BY DEF Waiting
  <1> HIDE DEF w, v, S
  <1>3. u \in Seq(S) /\ Len(u) = n - k - 1 /\ \A i \in 1..(n - k - 1) : u[i] = w[i]
    BY <1>1
  <1>4. n - k \in 1..(n - k) /\ n + 1 - (n - k) = k + 1 /\ w # <<>>
    BY <1>1
  <1>5. w[n - k] = c[k + 1]
    BY <1>1, <1>4
  <1> HIDE DEF u
  <1>6. \A i \in 1..(n - k - 1) : u[i] = v[i]
    BY <1>1, <1>2, <1>3
  <1>7. u = v
    BY <1>2, <1>3, <1>6
  <1> QED
    BY <1>1, <1>4, <1>5, <1>7 DEF u, v, w

LEMMA WaitingPush ==
  ASSUME NEW c, NEW n \in Nat, NEW k \in 2..n
  PROVE  Append(Waiting(c, n, k), c[k]) = Waiting(c, n, k - 1)
  <1> DEFINE S == {c[i] : i \in 1..n}
             w == Waiting(c, n, k)
             v == Waiting(c, n, k - 1)
             u == Append(w, c[k])
  <1>1. w \in Seq(S) /\ Len(w) = n - k /\ \A i \in 1..(n - k) : w[i] = c[n + 1 - i]
    BY DEF Waiting
  <1>2. v \in Seq(S) /\ Len(v) = n - k + 1 /\ \A i \in 1..(n - k + 1) : v[i] = c[n + 1 - i]
    BY DEF Waiting
  <1>3. c[k] \in S
    OBVIOUS
  <1> HIDE DEF w, v, S
  <1>4. u \in Seq(S) /\ Len(u) = n - k + 1 /\ u[n - k + 1] = c[k]
        /\ \A i \in 1..(n - k) : u[i] = w[i]
    <2>1. u \in Seq(S) /\ Len(u) = Len(w) + 1
      BY <1>1, <1>3
    <2>2. u[Len(w) + 1] = c[k]
      BY <1>1, <1>3
    <2>3. \A i \in 1..Len(w) : u[i] = w[i]
      BY <1>1, <1>3
    <2> QED  BY <1>1, <2>1, <2>2, <2>3
  <1> HIDE DEF u
  <1>5. n + 1 - (n - k + 1) = k
    OBVIOUS
  <1>6. \A i \in 1..(n - k + 1) : i \in 1..(n - k) \/ i = n - k + 1
    OBVIOUS
  <1>7. \A i \in 1..(n - k + 1) : u[i] = v[i]
    BY <1>1, <1>2, <1>4, <1>5, <1>6
  <1>8. u = v
    BY <1>2, <1>4, <1>7
  <1> QED
    BY <1>8 DEF u, v, w

LEMMA RangeMatches ==
  ASSUME NEW p \in Ranges, NEW m
  PROVE  /\ Matches(p, m) = RangeVerdict(p, m)
         /\ Matches(p, m) \in {Yes, No, Error}
         /\ NaN \in {p.lo, p.hi} => Matches(p, m) = Error
  <1>1. p.op = "Range"
    BY WhereAssumption DEF InRange
  <1>2. Matches(p, m) = RangeVerdict(p, m)
    BY <1>1 DEF Matches
  <1>3. RangeVerdict(p, m) \in {Yes, No, Error}
    BY DEF RangeVerdict, Verdict
  <1> QED
    BY <1>2, <1>3 DEF RangeVerdict

LEMMA AndStep ==
  ASSUME Typed, Reading, Building, NEW p \in Ranges, And(p)
  PROVE  Building'
  <1> DEFINE n == Len(built)
  <1>1. /\ pc \in {"start", "built"} /\ pc' = "built" /\ stack' = stack
        /\ root' = IF root = None THEN Leaf(p) ELSE Both("and", root, Leaf(p))
        /\ built' = Append(built, p)
    BY DEF And
  <1>2. built \in Seq(Ranges) /\ n \in Nat /\ built' \in Seq(Ranges) /\ Len(built') = n + 1
        /\ built'[n + 1] = p /\ \A i \in 1..n : built'[i] = built[i]
    BY <1>1 DEF Typed
  <1>3. stack' = <<>> /\ built' # <<>>
    BY <1>1, <1>2 DEF Reading
  <1>4. SUFFICES \E c : Spine(c)'
    BY <1>1, <1>3 DEF Building, Evaluating
  <1>5. CASE pc = "start"
    <2>1. root' = Leaf(p) /\ n = 0
      BY <1>1, <1>5 DEF Building
    <2> DEFINE c == [i \in 1..1 |-> Leaf(p)]
    <2>2. Spine(c)'
      BY <1>2, <2>1 DEF Spine
    <2> QED  BY <2>2
  <1>6. CASE pc = "built"
    <2>1. PICK c : Spine(c)
      BY <1>6 DEF Building
    <2>2. n \in 1..n /\ root = c[n] /\ root # None
      <3>1. n \in 1..n
        BY <1>2, <1>6 DEF Building
      <3> QED  BY <1>2, <2>1, <3>1, SpineFacts DEF Spine
    <2>3. root' = Both("and", c[n], Leaf(p))
      BY <1>1, <2>2
    <2>4. PICK d : (\A i \in 1..n : d[i] = c[i]) /\ d[n + 1] = Both("and", c[n], Leaf(p))
      <3> DEFINE e == [i \in 1..(n + 1) |-> IF i <= n THEN c[i] ELSE Both("and", c[n], Leaf(p))]
      <3>1. (\A i \in 1..n : e[i] = c[i]) /\ e[n + 1] = Both("and", c[n], Leaf(p))
        BY <1>2
      <3> QED  BY <3>1
    <2> HIDE DEF n
    <2>5. d[1] = Leaf(built'[1]) /\ root' = d[Len(built')]
      BY <1>2, <2>1, <2>2, <2>3, <2>4 DEF Spine
    <2>6. ASSUME NEW i \in 2..Len(built')
          PROVE  d[i] = Both("and", d[i - 1], Leaf(built'[i]))
      <3>1. CASE i = n + 1
        BY <1>2, <2>2, <2>4, <3>1
      <3>2. CASE i # n + 1
        <4>1. i \in 2..n /\ i \in 1..n /\ i - 1 \in 1..n
          BY <1>2, <3>2
        <4>2. c[i] = Both("and", c[i - 1], Leaf(built[i]))
          BY <2>1, <4>1 DEF Spine, n
        <4> QED  BY <1>2, <2>4, <4>1, <4>2
      <3> QED  BY <3>1, <3>2
    <2>7. Spine(d)'
      BY <2>5, <2>6 DEF Spine
    <2> QED  BY <2>7
  <1> QED
    BY <1>1, <1>5, <1>6

LEMMA EvaluatingStep ==
  ASSUME Typed, Building, built # <<>>, UNCHANGED parser,
         (\E m : Match(m)) \/ EvalLeaf \/ EvalFirst \/ EvalSecond \/ EvalReturn
  PROVE  Building'
  <1> DEFINE n == Len(built)
  <1>1. n \in Nat /\ n # 0 /\ \A i \in 1..n : built[i] \in Ranges
    BY DEF Typed
  <1>2. PICK c : Spine(c) /\ Evaluating(c)
    BY DEF Building
  <1>3. Spine(c)' /\ built' = built
    BY <1>2 DEF Spine, parser
  <1>4. SUFFICES Evaluating(c)' /\ pc' \notin {"start", "built"}
    BY <1>3 DEF Building
  <1>5. ASSUME pc = "match" \/ pc = "matched"
        PROVE  \E k \in 1..n :
                  /\ stack = Waiting(c, n, k)
                  /\ \/ pc = "match" /\ node = c[k]
                     \/ pc = "match" /\ node = Leaf(built[k]) /\ AllYes(k - 1)
                     \/ pc = "matched" /\ UpTo(k)
    BY <1>2, <1>5 DEF Evaluating
  <1>6. ASSUME NEW m, Match(m)  PROVE Evaluating(c)' /\ pc' \notin {"start", "built"}
    <2>1. /\ pc \in {"built", "accepted"} /\ node' = root /\ stack' = stack
          /\ pc' = IF root = None THEN "matched" ELSE "match"
      BY <1>6 DEF Match
    <2>2. pc = "built" /\ stack = <<>>
      BY <1>2, <2>1 DEF Evaluating
    <2>3. n \in 1..n /\ root = c[n]
      BY <1>1, <1>2 DEF Spine
    <2>4. pc' = "match" /\ node' = c[n]
      BY <1>1, <1>2, <2>1, <2>3, SpineFacts
    <2>5. stack' = Waiting(c, n, n)
      BY <1>1, <2>1, <2>2, WaitingNone
    <2> QED  BY <1>3, <2>3, <2>4, <2>5 DEF Evaluating
  <1>7. CASE EvalLeaf
    <2>1. /\ pc = "match" /\ node.fn = "leaf" /\ verdict' = Matches(node.pred, meta)
          /\ pc' = "matched" /\ stack' = stack /\ meta' = meta
      BY <1>7 DEF EvalLeaf
    <2>2. PICK k \in 1..n : /\ stack = Waiting(c, n, k)
                            /\ node = c[k] \/ (node = Leaf(built[k]) /\ AllYes(k - 1))
      BY <1>5, <2>1
    <2>3. node = Leaf(built[k]) /\ AllYes(k - 1)
      <3>1. ASSUME node = c[k]  PROVE k = 1 /\ node = Leaf(built[1])
        BY <1>1, <1>2, <2>1, <3>1, SpineFacts
      <3> QED  BY <2>2, <3>1 DEF AllYes
    <2>4. verdict' = Matches(built[k], meta) /\ verdict' \in {Yes, No, Error}
      BY <1>1, <2>1, <2>3, Trees, RangeMatches
    <2>5. UpTo(k)'
      <3>1. CASE verdict' = Yes
        <4>1. \A i \in 1..k : i \in 1..(k - 1) \/ i = k
          OBVIOUS
        <4>2. \A i \in 1..k : Matches(built[i], meta) = Yes
          BY <2>3, <2>4, <3>1, <4>1 DEF AllYes
        <4> QED  BY <1>3, <2>1, <3>1, <4>2 DEF UpTo, AllYes
      <3>2. CASE verdict' # Yes
        BY <1>3, <2>1, <2>4, <3>2 DEF UpTo
      <3> QED  BY <3>1, <3>2
    <2> QED  BY <1>3, <2>1, <2>2, <2>5 DEF Evaluating
  <1>8. CASE EvalFirst
    <2>1. /\ pc = "match" /\ node.fn # "leaf" /\ stack' = Append(stack, node)
          /\ node' = IF node.fn = "not" THEN node.of ELSE node.left
          /\ pc' = pc
      BY <1>8 DEF EvalFirst
    <2>2. PICK k \in 1..n : /\ stack = Waiting(c, n, k)
                            /\ node = c[k] \/ node = Leaf(built[k])
      BY <1>5, <2>1
    <2>3. node = c[k] /\ k > 1
      <3>1. node = c[k]
        BY <2>1, <2>2, Trees
      <3>2. k = 1 => c[k].fn = "leaf"
        BY <1>1, <1>2, SpineFacts, Trees
      <3> QED  BY <2>1, <3>1, <3>2
    <2>4. k \in 2..n /\ k - 1 \in 1..n /\ c[k] = Both("and", c[k - 1], Leaf(built[k]))
      BY <1>1, <1>2, <2>3, SpineFacts
    <2>5. node' = c[k - 1]
      BY <2>1, <2>3, <2>4, Trees
    <2>6. stack' = Waiting(c, n, k - 1)
      BY <1>1, <2>1, <2>2, <2>3, <2>4, WaitingPush
    <2> QED  BY <1>3, <2>1, <2>4, <2>5, <2>6 DEF Evaluating
  <1>9. CASE EvalSecond \/ EvalReturn
    <2>1. /\ pc = "matched" /\ stack # <<>> /\ stack' = Pop /\ meta' = meta
          /\ EvalSecond => /\ Top.fn \in {"and", "or"} /\ ~Decided(Top.fn)
                           /\ node' = Top.right /\ pc' = "match"
          /\ EvalReturn => /\ pc' = "matched"
                           /\ Top.fn # "not" => Decided(Top.fn) /\ verdict' = verdict
      BY <1>9 DEF EvalSecond, EvalReturn
    <2>2. PICK k \in 1..n : stack = Waiting(c, n, k) /\ UpTo(k)
      BY <1>5, <2>1
    <2>3. k < n
      BY <1>1, <2>1, <2>2, WaitingNone
    <2>4. /\ Top = c[k + 1] /\ stack' = Waiting(c, n, k + 1) /\ k + 1 \in 1..n
      <3>1. /\ Len(stack) = n - k /\ stack[n - k] = c[k + 1]
            /\ SubSeq(stack, 1, n - k - 1) = Waiting(c, n, k + 1)
        BY <1>1, <2>2, <2>3, WaitingFacts
      <3>2. Top = c[k + 1] /\ Pop = Waiting(c, n, k + 1)
        BY <3>1 DEF Top, Pop
      <3>3. k + 1 \in 1..n
        BY <1>1, <2>3
      <3> QED  BY <2>1, <3>2, <3>3
    <2>5. Top = Both("and", c[k], Leaf(built[k + 1]))
      <3>1. k + 1 > 1 /\ (k + 1) - 1 = k
        OBVIOUS
      <3> QED  BY <1>1, <1>2, <2>4, <3>1, SpineFacts
    <2>6. CASE EvalSecond
      <3>1. verdict = Yes /\ AllYes(k)
        BY <2>1, <2>2, <2>5, <2>6, Trees DEF UpTo, Decided
      <3>2. AllYes((k + 1) - 1)'
        BY <1>3, <2>1, <3>1 DEF AllYes
      <3>3. node' = Leaf(built'[k + 1]) /\ pc' = "match"
        BY <1>3, <2>1, <2>5, <2>6, Trees
      <3> QED  BY <1>3, <2>4, <3>2, <3>3 DEF Evaluating
    <2>7. CASE EvalReturn
      <3>1. verdict' = verdict /\ verdict # Yes /\ pc' = "matched"
        BY <2>1, <2>5, <2>7, Trees DEF Decided, Yes, No, Error
      <3>2. UpTo(k + 1)'
        BY <1>3, <2>1, <2>2, <3>1 DEF UpTo
      <3> QED  BY <1>3, <2>4, <3>1, <3>2 DEF Evaluating
    <2> QED  BY <1>9, <2>6, <2>7
  <1> QED
    BY <1>6, <1>7, <1>8, <1>9

LEMMA BuildingStep ==
  ASSUME Typed, Reading, Building, [Next]_vars
  PROVE  Building'
  <1>1. ASSUME UNCHANGED <<built, root, meta, verdict, node, stack, pc>>  PROVE Building'
    BY <1>1 DEF Building, Spine, Evaluating, AllYes, UpTo
  <1>2. built # <<>> => pc \in {"built", "match", "matched"}
    BY DEF Building, Evaluating
  <1>3. ASSUME built = <<>>, built' = built, pc' \notin {"start", "built"}  PROVE Building'
    BY <1>3 DEF Building
  <1>4. ASSUME NEW p \in Ranges, And(p)  PROVE Building'
    BY <1>4, AndStep
  <1>5. CASE (\E m \in input.metas : Match(m)) \/ EvalLeaf \/ EvalFirst \/ EvalSecond \/ EvalReturn
    <2>1. UNCHANGED parser /\ built' = built /\ pc' \notin {"start", "built"}
      BY <1>5 DEF Match, EvalLeaf, EvalFirst, EvalSecond, EvalReturn, parser
    <2>2. CASE built = <<>>
      BY <1>3, <2>1, <2>2
    <2>3. CASE built # <<>>
      BY <1>5, <2>1, <2>3, EvaluatingStep
    <2> QED  BY <2>2, <2>3
  <1>6. CASE \/ ParseWhere \/ NotExpr \/ Group \/ Ident \/ InComparison \/ EndComparison
             \/ Loop \/ Return \/ CloseGroup \/ Accept \/ (Rejects /\ Reject)
    <2>1. /\ built' = built /\ pc \notin {"built", "match", "matched"}
          /\ pc' \notin {"start", "built"}
      BY <1>6 DEF ParseWhere, NotExpr, Group, Ident, InComparison, EndComparison, Loop, Return,
                  CloseGroup, Accept, Rejects, Reject, Comparing, Expected
    <2> QED  BY <1>2, <1>3, <2>1
  <1>7. CASE UNCHANGED vars
    BY <1>1, <1>7 DEF vars, parser, matching
  <1> QED
    BY <1>4, <1>5, <1>6, <1>7 DEF Next

-----------------------------------------------------------------------------
(* The theorems                                                            *)

IInv == Typed /\ Reading /\ Building

THEOREM Invariance == Spec => []IInv
  <1>1. Init => IInv
    <2> SUFFICES ASSUME Init  PROVE IInv
      OBVIOUS
    <2>1. Typed
      BY DEF Init, Typed, ValuesTyped
    <2>2. Reading
      BY DEF Init, Reading
    <2>3. Building
      BY DEF Init, Building
    <2> QED  BY <2>1, <2>2, <2>3 DEF IInv
  <1>2. IInv /\ [Next]_vars => IInv'
    BY TokensRead, ReadingStep, BuildingStep DEF IInv
  <1> QED
    BY <1>1, <1>2, PTL DEF Spec

LEMMA SingleVerdict ==
  ASSUME IInv, Single
  PROVE  /\ IsNumeral(read[3]) /\ ValuesTyped(meta)
         /\ verdict = Matches(Comparison(read[1].s, read[2].s, read[3]), meta)
  <1>1. read \in Seq(input.tokens \cup {End}) /\ Len(read) = 3 /\ read[3].t = "num"
    BY DEF IInv, Typed, Single
  <1>2. read[3] \in input.tokens \cup {End} /\ read[3] # End
    BY <1>1 DEF End
  <1>3. IsNumeral(read[3])
    BY <1>1, <1>2, WhereAssumption DEF IInv, Typed
  <1>4. verdict = Matches(Parsed.pred, meta)
    BY DEF IInv, Reading, Single, Matched
  <1> QED
    BY <1>3, <1>4, Trees DEF IInv, Typed, Parsed

(* A comparison with a number, from the string to the verdict, means what  *)
(* it says while floats are exact, but for a fraction against an exclusive *)
(* integer bound, for any widths.  (parse.rs:272)                          *)
THEOREM ComparisonsMeanWhatTheySay == Spec => []ComparisonsMean
  <1>1. IInv => ComparisonsMean
    <2> DEFINE op == read[2].s
               num == read[3]
               xs == {x \in ValuesOf(meta, read[1].s) : Numeric(x)}
    <2> SUFFICES ASSUME IInv, Single, op \in {"<", "<=", ">", ">="},
                        Abs(num.h) < 2 * Exact, num.h \in Floats,
                        \A x \in xs : /\ Abs(Real(x)) < 2 * Exact
                                      /\ op \in {"<=", ">="} \/ num.dot \/ Real(x) % 2 = 0
                 PROVE  verdict = Verdict(\E x \in xs : Holds(x, op, num.h))
      BY DEF ComparisonsMean
    <2>1. /\ IsNumeral(num) /\ ValuesTyped(meta)
          /\ verdict = Matches(Comparison(read[1].s, op, num), meta)
      BY SingleVerdict
    <2>2. \A x \in xs : Exactly(x) /\ (op \in {"<=", ">="} \/ num.dot \/ Real(x) % 2 = 0)
      BY DEF Exactly
    <2> QED
      BY <2>1, <2>2, ComparisonMeans
  <1> QED
    BY <1>1, Invariance, PTL

(* A comparison of integers never takes too little, up to the largest one, *)
(* where floats are no longer exact.  (parse.rs:429)                       *)
THEOREM IntegersAreNeverMissed == Spec => []NoIntegerMissed
  <1>1. IInv => NoIntegerMissed
    <2> SUFFICES ASSUME IInv, Single, Number(read[3]).kind = "Int",
                        NEW x \in ValuesOf(meta, read[1].s), x.kind = "Int",
                        Holds(x, read[2].s, read[3].h)
                 PROVE  verdict = Yes
      BY DEF NoIntegerMissed
    <2>1. /\ IsNumeral(read[3]) /\ ValuesTyped(meta)
          /\ verdict = Matches(Comparison(read[1].s, read[2].s, read[3]), meta)
      BY SingleVerdict
    <2> QED
      BY <2>1, NoneMissed
  <1> QED
    BY <1>1, Invariance, PTL

LEMMA BuiltVerdict ==
  ASSUME IInv, Built
  PROVE  UpTo(Len(built)) /\ Len(built) \in Nat /\ \A i \in 1..Len(built) : built[i] \in Ranges
  <1>1. Len(built) \in Nat /\ \A i \in 1..Len(built) : built[i] \in Ranges
    BY DEF IInv, Typed
  <1>2. PICK c : Evaluating(c)
    BY DEF IInv, Building, Built
  <1>3. PICK k \in 1..Len(built) : Waiting(c, Len(built), k) = <<>> /\ UpTo(k)
    BY <1>2 DEF Evaluating, Built, Matched
  <1> QED
    BY <1>1, <1>3, WaitingEmpty

(* A range between integers takes exactly the integers between them, those *)
(* beyond the exact floats included.  (mod.rs:89)                          *)
THEOREM IntegerRangesTakeExactlyThose == Spec => []IntegerRangesAreExact
  <1>1. IInv => IntegerRangesAreExact
    <2> DEFINE p == built[1]
               xs == {x \in ValuesOf(meta, p.field) : Numeric(x)}
    <2> SUFFICES ASSUME IInv, Built, Len(built) = 1, p.lo.kind = "Int", p.hi.kind = "Int",
                        \A x \in xs : x.kind = "Int"
                 PROVE  verdict = Verdict(\E x \in xs : Between(x, p.lo, p.hi))
      BY DEF IntegerRangesAreExact
    <2>1. p \in Ranges /\ UpTo(1)
      BY BuiltVerdict
    <2>2. verdict = Matches(p, meta)
      BY <2>1 DEF UpTo, AllYes
    <2>3. p = InRange(p.field, p.lo, p.hi) /\ {p.lo, p.hi} \subseteq Num \cup {NaN}
      BY <2>1, WhereAssumption
    <2>4. \A x \in Num \cup {NaN} : x.kind = "Int" => \E i \in Int64 : x = IntOf(i)
      BY DEF Num, NaN, IntOf, FloatOf
    <2>5. PICK l \in Int64, h \in Int64 : p.lo = IntOf(l) /\ p.hi = IntOf(h)
      BY <2>3, <2>4
    <2>6. \A x \in xs : x.kind = "Int" /\ x.v \in Int64
      BY FieldValues, NumberFacts DEF IInv, Typed
    <2>7. /\ \A x \in ValuesOf(meta, p.field) : x.kind = "Int" => x.v \in Int64
          /\ \A x \in ValuesOf(meta, p.field) : Numeric(x) => x.kind = "Int"
      BY <2>6 DEF Numeric
    <2>8. RangeVerdict(InRange(p.field, IntOf(l), IntOf(h)), meta)
             = Verdict(\E x \in ValuesOf(meta, p.field) : Between(x, IntOf(l), IntOf(h)))
      BY <2>7, IntRangeIsExact
    <2>9. verdict = Verdict(\E x \in ValuesOf(meta, p.field) : Between(x, p.lo, p.hi))
      BY <2>1, <2>2, <2>3, <2>5, <2>8, RangeMatches
    <2> QED
      BY <2>9 DEF Between
  <1> QED
    BY <1>1, Invariance, PTL

(* However long a filter is, a bound in it that is not a number never lets *)
(* a record through: matching is an error, unless a predicate before it    *)
(* has decided.  (mod.rs:84)                                               *)
THEOREM NaNStaysLoud == Spec => []NaNIsLoud
  <1>1. IInv => NaNIsLoud
    <2> SUFFICES ASSUME IInv, Built,
                        NEW j \in DOMAIN built, NaN \in {built[j].lo, built[j].hi}
                 PROVE  \/ verdict = Error
                        \/ verdict = No /\ \E i \in DOMAIN built :
                              NaN \notin {built[i].lo, built[i].hi} /\ Matches(built[i], meta) = No
      BY DEF NaNIsLoud
    <2>1. /\ UpTo(Len(built)) /\ \A i \in 1..Len(built) : built[i] \in Ranges
          /\ DOMAIN built = 1..Len(built)
      BY BuiltVerdict DEF IInv, Typed
    <2>2. \A i \in 1..Len(built) :
             NaN \in {built[i].lo, built[i].hi} => Matches(built[i], meta) = Error
      BY <2>1, RangeMatches
    <2>3. ~AllYes(Len(built))
      BY <2>1, <2>2 DEF AllYes, Yes, Error
    <2> QED
      BY <2>1, <2>2, <2>3 DEF UpTo, No, Error
  <1> QED
    BY <1>1, Invariance, PTL
=============================================================================
