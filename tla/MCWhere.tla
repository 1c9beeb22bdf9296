------------------------------ MODULE MCWhere ------------------------------
(* Filters on small instances: long where-strings over a small alphabet,   *)
(* one comparison with every number, ranges with every pair of bounds.     *)
EXTENDS WhereGrammar

CONSTANTS
    MaxTokens, MaxLeaf, \* bounds: tokens of a string of few, of all kinds
    MaxHalf             \* bound: halves of a numeral

Zero == Numeral(FALSE, FALSE, 0)
Operators ==
    [tokens |-> {Word(w) : w \in {"f", "AND", "OR", "NOT"}}
                  \cup {Punct("("), Punct(")"), Op("="), Zero},
     max |-> MaxTokens, metas |-> {}]
Leaves ==
    [tokens |-> {Word(w) : w \in {"f", "NULL", "AND", "NOT", "IS", "IN"}}
                  \cup {Punct("("), Punct(")"), Punct(","), Op("="), Zero},
     max |-> MaxLeaf, metas |-> {}]

Whole(dot) == {h \in -MaxHalf..MaxHalf : dot \/ h % 2 = 0}
Numerals == UNION {{Numeral(dot, plus, h) : plus \in BOOLEAN, h \in Whole(dot)} : dot \in BOOLEAN}
Number64 == {IntOf(i) : i \in Int64} \cup {FloatOf(f) : f \in Float64}
Corners == {IntOf(i) : i \in {-MaxInt - 1, -MaxInt, MaxInt}} \cup {FloatOf(f) : f \in {-Inf, 1, 2}}
(* A field has no value, one of S or two of the corners. *)
Metas(S) ==
    {{}} \cup {{<<"f", x>>} : x \in S \cup {[kind |-> "Bool", v |-> 1]}}
         \cup {{<<"f", x>>, <<"f", y>>} : x, y \in Corners}
Numbered ==
    [tokens |-> Numerals \cup {Op(o) : o \in {"=", "!=", "<>", "<", "<=", ">", ">="}}
                  \cup {Word("f"), Word("true"), Text(1)},
     max |-> 3, metas |-> Metas(Number64)]
Builder == [tokens |-> {}, max |-> 0, metas |-> Metas(Corners)]

MCInputs == {Operators, Leaves, Numbered, Builder}
Bounds == Corners \cup {FloatOf(0), NaN}
MCRanges == {InRange("f", lo, hi) : lo, hi \in Bounds}

MCBuilder == {Builder}
=============================================================================
