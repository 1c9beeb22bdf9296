------------------------------- MODULE Filter -------------------------------
(***************************************************************************)
(* The predicates of filter/mod.rs on metadata, and their numbers: i64 and *)
(* f64.  Reals are counted in halves, so that there are numbers between    *)
(* the integers.  The integers up to Exact (2^53 in the code) are floats;  *)
(* beyond, an integer is rounded to the nearest float.                     *)
(***************************************************************************)
EXTENDS Integers, FiniteSets

CONSTANTS
    Exact, MaxInt,      \* 2^53, and the largest i64
    Floats,             \* the finite floats
    Inf,                \* infinity, where the next float would be
    EvenFloats          \* the floats with an even mantissa

Int64 == (-MaxInt - 1)..MaxInt
Float64 == Floats \cup {-Inf, Inf}

(* Of two neighbours with a number between them, one is even. *)
ASSUME FilterAssumption ==
    /\ Exact \in Nat /\ MaxInt \in Nat /\ Exact <= MaxInt /\ Inf \in Nat
    /\ \A i \in -Exact..Exact : 2 * i \in Floats
    /\ Floats \subseteq (-Inf + 1)..(Inf - 1)
    /\ \A f, g \in Float64 :
          f + 1 < g /\ (\A e \in Float64 : e <= f \/ g <= e) => (f \in EvenFloats <=> g \notin EvenFloats)

Abs(h) == IF h < 0 THEN -h ELSE h

(* An instance: the halves up to half of Exact, the integers up to Exact,  *)
(* and beyond it every second one.                                         *)
SecondFloats ==
    {h \in (-Inf + 1)..(Inf - 1) :
        \/ Abs(h) <= Exact
        \/ Abs(h) <= 2 * Exact /\ h % 2 = 0
        \/ (Abs(h) - 2 * Exact) % 4 = 0}
EvenSecondFloats ==
    {h \in Float64 : (Abs(h) - 2 * Exact) % (IF Abs(h) <= 2 * Exact THEN 4 ELSE 8) = 0}

IntOf(i) == [kind |-> "Int", v |-> i]
FloatOf(h) == [kind |-> "Float", v |-> h]
NaN == [kind |-> "NaN", v |-> 0]
(* The numbers of records and of bounds, but for NaN. *)
Num == {IntOf(i) : i \in Int64} \cup {FloatOf(f) : f \in Float64}
Numeric(x) == x.kind \in {"Int", "Float"}
Real(x) == IF x.kind = "Int" THEN 2 * x.v ELSE x.v

(* Rounding to the nearest float, of two that are as near the even one. *)
Nearest(h) ==
    CHOOSE f \in Float64 :
        \A g \in Float64 :
            g # f => \/ Abs(h - f) < Abs(h - g)
                     \/ Abs(h - f) = Abs(h - g) /\ f \in EvenFloats

AsF64(x) == IF x.kind = "Int" THEN Nearest(2 * x.v) ELSE x.v

(* float_to_exact_i64 and Num::int: the integer, or none. *)
ExactInt(x) ==
    IF x.kind = "Int" THEN {x.v}
    ELSE IF x.v % 2 = 0 /\ Abs(x.v) <= 2 * Exact THEN {x.v \div 2} ELSE {}

-----------------------------------------------------------------------------
(* Exclusive bounds are stored as the next number, inclusive *)

NextUpTwice(x) ==       \* mutant: off by one
    IF x.kind = "Int" THEN IF x.v + 2 \in Int64 THEN IntOf(x.v + 2) ELSE FloatOf(Inf)
    ELSE IF x.v = Inf THEN x
    ELSE FloatOf(CHOOSE f \in Float64 : f > x.v /\ \A g \in Float64 : g > x.v => f <= g)
NextUpSame(x) == x      \* mutant: the bound itself

NextUp(x) ==
    IF x.kind = "Int" THEN IF x.v + 1 \in Int64 THEN IntOf(x.v + 1) ELSE FloatOf(Inf)
    ELSE IF x.v = Inf THEN x
    ELSE FloatOf(CHOOSE f \in Float64 : f > x.v /\ \A g \in Float64 : g > x.v => f <= g)

NextDown(x) ==
    IF x.kind = "Int" THEN IF x.v - 1 \in Int64 THEN IntOf(x.v - 1) ELSE FloatOf(-Inf)
    ELSE IF x.v = -Inf THEN x
    ELSE FloatOf(CHOOSE f \in Float64 : f < x.v /\ \A g \in Float64 : g < x.v => f >= g)

-----------------------------------------------------------------------------
(* Predicates.  Metadata is a set of pairs of a field and a value: a field *)
(* may have several.  The outcome is TRUE, FALSE or an error.              *)

Yes == "true"
No == "false"
Error == "error"
Verdict(b) == IF b THEN Yes ELSE No

Equal(field, x) == [op |-> "Eq", field |-> field, values |-> {x}]
In(field, xs) == [op |-> "In", field |-> field, values |-> xs]
Differs(field, x) == [op |-> "Neq", field |-> field, values |-> {x}]
Present(field) == [op |-> "Present", field |-> field]
NotPresent(field) == [op |-> "NotPresent", field |-> field]
InRange(field, lo, hi) == [op |-> "Range", field |-> field, lo |-> lo, hi |-> hi]

ValuesOf(meta, field) == {e[2] : e \in {p \in meta : p[1] = field}}

InRangeF64(x, lo, hi) ==    \* mutant: always compares floats
    Numeric(x) /\ AsF64(lo) <= AsF64(x) /\ AsF64(x) <= AsF64(hi)

(* Exact when both bounds are integers, as floats otherwise. *)
Within(x, lo, hi) ==
    /\ Numeric(x)
    /\ IF ExactInt(lo) # {} /\ ExactInt(hi) # {}
       THEN \E l \in ExactInt(lo), h \in ExactInt(hi), i \in ExactInt(x) : l <= i /\ i <= h
       ELSE AsF64(lo) <= AsF64(x) /\ AsF64(x) <= AsF64(hi)

RangeVerdictQuiet(p, meta) ==   \* mutant: a bound that is not a number only never matches
    Verdict(NaN \notin {p.lo, p.hi} /\ \E x \in ValuesOf(meta, p.field) : Within(x, p.lo, p.hi))

RangeVerdict(p, meta) ==
    IF NaN \in {p.lo, p.hi} THEN Error
    ELSE Verdict(/\ AsF64(p.lo) <= AsF64(p.hi)
                 /\ \E x \in ValuesOf(meta, p.field) : Within(x, p.lo, p.hi))

(* meta_eq: what is not a number is equal to nothing. *)
MetaEq(x, y) == x = y /\ x # NaN
HasOneOf(meta, p) == \E x \in ValuesOf(meta, p.field), y \in p.values : MetaEq(x, y)

Matches(p, meta) ==
    CASE p.op \in {"Eq", "In"} -> Verdict(HasOneOf(meta, p))
      [] p.op = "Neq" -> Verdict(~HasOneOf(meta, p))
      [] p.op = "Present" -> Verdict(ValuesOf(meta, p.field) # {})
      [] p.op = "NotPresent" -> Verdict(ValuesOf(meta, p.field) = {})
      [] p.op = "Range" -> RangeVerdict(p, meta)
=============================================================================
