------------------------------- MODULE Where -------------------------------
(***************************************************************************)
(* Filters: built predicate by predicate (`Filter::and`) or parsed from a  *)
(* where-string (filter/parse.rs), then matched against a record.          *)
(*                                                                         *)
(* The parser is a recursive descent; its call stack is `stack`, a         *)
(* function that waits for a callee is a frame, with the tree it has so    *)
(* far.  It reads tokens: words (a keyword is a word that is looked for),  *)
(* punctuation, operators, numerals and strings.  The input is chosen as   *)
(* it is read: `next` is the token at the parser's position.               *)
(***************************************************************************)
EXTENDS Filter, Sequences

CONSTANTS
    Inputs,     \* where-strings: [tokens, max (how many), metas]
    Ranges,     \* predicates a client builds a filter from
    MaxBuilt    \* bound: how many of them

VARIABLES
    input,      \* the element of Inputs that tokens come from
    read, next, \* the tokens read so far, and the one at the position
    stack,      \* the calls that wait, the innermost last
    pc,         \* where the innermost call is, or the outcome
    leaf,       \* the comparison being parsed
    root,       \* the tree of the filter; None if it is empty
    built,      \* the predicates it was built from, if it was not parsed
    node,       \* the node of the tree that is matched
    meta, verdict   \* the metadata of a record, and whether they match

parser == <<input, read, next, leaf, root, built>>
matching == <<node, meta, verdict>>
vars == <<parser, stack, pc, matching>>

Token(t, s) == [t |-> t, s |-> s]
Word(s) == Token("word", s)
Punct(s) == Token("punct", s)
Op(s) == Token("op", s)
Numeral(dot, plus, h) == [t |-> "num", dot |-> dot, plus |-> plus, h |-> h]
Text(v) == [t |-> "str", v |-> v]
End == [t |-> "end"]

IsNumeral(tok) ==
    /\ tok.t = "num" /\ tok.h \in Int /\ tok.dot \in BOOLEAN
    /\ ~tok.dot => tok.h % 2 = 0
ValuesTyped(m) == \A e \in m : Numeric(e[2]) => e[2] \in Num

ASSUME WhereAssumption ==
    /\ \A i \in Inputs :
          /\ \A tok \in i.tokens : tok.t = "num" => IsNumeral(tok)
          /\ \A m \in i.metas : ValuesTyped(m)
    /\ \A p \in Ranges : p = InRange(p.field, p.lo, p.hi) /\ {p.lo, p.hi} \subseteq Num \cup {NaN}

None == [fn |-> "none"]
Leaf(p) == [fn |-> "leaf", pred |-> p]
Not(tree) == [fn |-> "not", of |-> tree]
Both(fn, l, r) == [fn |-> fn, left |-> l, right |-> r]

-----------------------------------------------------------------------------
(* Literals, and the predicate of a comparison *)

(* number_literal: an integer beyond i64 is a float. *)
Number(tok) ==
    IF ~tok.dot /\ tok.h \div 2 \in Int64 THEN IntOf(tok.h \div 2) ELSE FloatOf(Nearest(tok.h))
IsNumber(tok) == tok.t = "num"

(* literal: neither a leading plus nor an integer beyond i64. *)
Literal(tok) ==
    CASE tok.t = "num" -> Number(tok)
      [] tok.t = "str" -> [kind |-> "Str", v |-> tok.v]
      [] tok.t = "word" -> [kind |-> "Bool", v |-> IF tok.s = "true" THEN 1 ELSE 0]
IsLiteral(tok) ==
    \/ tok.t = "num" /\ ~tok.plus /\ (tok.dot \/ tok.h \div 2 \in Int64)
    \/ tok.t = "str"
    \/ tok \in {Word("true"), Word("false")}

(* The predicate of a field, an operator and a literal. *)
Comparison(field, op, tok) ==
    CASE op = "=" -> Equal(field, Literal(tok))
      [] op \in {"!=", "<>"} -> Differs(field, Literal(tok))
      [] op = "<=" -> InRange(field, FloatOf(-Inf), Number(tok))
      [] op = "<" -> InRange(field, FloatOf(-Inf), NextDown(Number(tok)))
      [] op = ">=" -> InRange(field, Number(tok), FloatOf(Inf))
      [] op = ">" -> InRange(field, NextUp(Number(tok)), FloatOf(Inf))

Takes(op, tok) == IF op \in {"=", "!=", "<>"} THEN IsLiteral(tok) ELSE IsNumber(tok)

-----------------------------------------------------------------------------
(* Building a filter, and the start and the end of a parse *)

Init ==
    /\ input \in Inputs
    /\ read = <<>> /\ next \in input.tokens \cup {End}
    /\ stack = <<>> /\ pc = "start" /\ leaf = <<>>
    /\ root = None /\ built = <<>>
    /\ node = None /\ meta = {} /\ verdict = Yes

(* Filter::and *)
And(p) ==
    /\ pc \in {"start", "built"} /\ next = End /\ Len(built) < MaxBuilt
    /\ root' = IF root = None THEN Leaf(p) ELSE Both("and", root, Leaf(p))
    /\ pc' = "built" /\ built' = Append(built, p)
    /\ UNCHANGED <<input, read, next, stack, leaf, matching>>

Read ==
    /\ read' = Append(read, next)
    /\ next' \in (IF Len(read) + 1 < input.max THEN input.tokens ELSE {}) \cup {End}

Push(frames) == stack' = stack \o frames
(* or_expr calls and_expr before it looks at anything. *)
OrExprCall == <<[fn |-> "or", left |-> None], [fn |-> "and", left |-> None]>>

ParseWhere ==
    /\ pc = "start"
    /\ IF next = End THEN pc' = "accepted" /\ UNCHANGED stack
       ELSE pc' = "operand" /\ Push(OrExprCall)
    /\ UNCHANGED <<input, read, next, leaf, root, built, matching>>

Reject ==
    /\ pc' = "rejected"
    /\ UNCHANGED <<input, read, next, stack, leaf, root, built, matching>>

-----------------------------------------------------------------------------
(* not_expr and primary *)

NotExpr ==
    /\ pc = "operand" /\ next = Word("NOT")
    /\ Read /\ Push(<<[fn |-> "not", left |-> None]>>)
    /\ UNCHANGED <<input, pc, leaf, root, built, matching>>

Group ==
    /\ pc = "operand" /\ next = Punct("(")
    /\ Read
    /\ Push(<<[fn |-> "group", left |-> None]>> \o OrExprCall)
    /\ UNCHANGED <<input, pc, leaf, root, built, matching>>

Ident ==
    /\ pc = "operand" /\ next.t = "word" /\ next # Word("NOT")
    /\ Read
    /\ leaf' = <<next.s>> /\ pc' = "op"
    /\ UNCHANGED <<input, stack, root, built, matching>>

(* What a comparison may go on with, and where it is then. *)
Expected ==
    CASE pc = "op" /\ next = Word("IS") -> "is"
      [] pc = "op" /\ next = Word("IN") -> "in"
      [] pc = "op" /\ next.t = "op" -> "value"
      [] pc = "is" /\ next = Word("NOT") -> "is not"
      [] pc = "in" /\ next = Punct("(") -> "item"
      [] pc = "item" /\ IsLiteral(next) -> "list"
      [] pc = "list" /\ next = Punct(",") -> "item"
      [] pc \in {"is", "is not"} /\ next = Word("NULL") -> "return"
      [] pc = "list" /\ next = Punct(")") -> "return"
      [] pc = "value" /\ Takes(leaf[2], next) -> "return"
      [] OTHER -> "rejected"

Predicate ==
    CASE pc = "is" -> NotPresent(leaf[1])
      [] pc = "is not" -> Present(leaf[1])
      [] pc = "list" -> In(leaf[1], {leaf[i] : i \in 2..Len(leaf)})
      [] pc = "value" -> Comparison(leaf[1], leaf[2], next)

Comparing == pc \in {"op", "is", "is not", "in", "item", "list", "value"}

InComparison ==
    /\ Comparing /\ Expected \notin {"return", "rejected"}
    /\ Read /\ pc' = Expected
    /\ leaf' = CASE pc = "op" /\ next.t = "op" -> Append(leaf, next.s)
                 [] pc = "item" -> Append(leaf, Literal(next))
                 [] OTHER -> leaf
    /\ UNCHANGED <<input, stack, root, built, matching>>

(* The comparison is complete: the tree in `root` goes back to the caller. *)
EndComparison ==
    /\ Comparing /\ Expected = "return"
    /\ Read /\ pc' = "return"
    /\ root' = Leaf(Predicate) /\ leaf' = <<>>
    /\ UNCHANGED <<input, stack, built, matching>>

-----------------------------------------------------------------------------
(* Back in the caller: and_expr and or_expr go on while their keyword      *)
(* follows, a group wants its parenthesis, parse_where the end.            *)

Top == stack[Len(stack)]
Pop == SubSeq(stack, 1, Len(stack) - 1)
Keyword(fn) == IF fn = "and" THEN Word("AND") ELSE Word("OR")
JoinedRight ==      \* mutant: to the right
    IF Top.left = None THEN root
    ELSE IF Top.left.fn = Top.fn
         THEN Both(Top.fn, Top.left.left, Both(Top.fn, Top.left.right, root))
    ELSE Both(Top.fn, Top.left, root)
Joined == IF Top.left = None THEN root ELSE Both(Top.fn, Top.left, root)
Callee(fn) == IF fn = "or" THEN <<[fn |-> "and", left |-> None]>> ELSE <<>>

Loop ==
    /\ pc = "return" /\ stack # <<>> /\ Top.fn \in {"and", "or"}
    /\ next = Keyword(Top.fn)
    /\ Read /\ pc' = "operand"
    /\ stack' = Append(Pop, [fn |-> Top.fn, left |-> Joined]) \o Callee(Top.fn)
    /\ root' = None
    /\ UNCHANGED <<input, leaf, built, matching>>

Return ==
    /\ pc = "return" /\ stack # <<>>
    /\ \/ Top.fn \in {"and", "or"} /\ next # Keyword(Top.fn) /\ root' = Joined
       \/ Top.fn = "not" /\ root' = Not(root)
    /\ stack' = Pop
    /\ UNCHANGED <<input, read, next, pc, leaf, built, matching>>

CloseGroup ==
    /\ pc = "return" /\ stack # <<>> /\ Top.fn = "group" /\ next = Punct(")")
    /\ Read /\ stack' = Pop
    /\ UNCHANGED <<input, pc, leaf, root, built, matching>>

Accept ==
    /\ pc = "return" /\ stack = <<>> /\ next = End
    /\ pc' = "accepted"
    /\ UNCHANGED <<input, read, next, stack, leaf, root, built, matching>>

Rejects ==
    \/ pc = "operand" /\ next.t # "word" /\ next # Punct("(")
    \/ Comparing /\ Expected = "rejected"
    \/ pc = "return" /\ stack # <<>> /\ Top.fn = "group" /\ next # Punct(")")
    \/ pc = "return" /\ stack = <<>> /\ next # End

-----------------------------------------------------------------------------
(* Matching a record: the tree is evaluated from the left, and an error    *)
(* ends it, as does a side that decides.                                   *)

Match(m) ==
    /\ pc \in {"built", "accepted"}
    /\ meta' = m /\ node' = root /\ verdict' = Yes
    /\ pc' = IF root = None THEN "matched" ELSE "match"
    /\ UNCHANGED <<parser, stack>>

EvalLeaf ==
    /\ pc = "match" /\ node.fn = "leaf"
    /\ verdict' = Matches(node.pred, meta) /\ pc' = "matched"
    /\ UNCHANGED <<parser, stack, node, meta>>

EvalFirst ==
    /\ pc = "match" /\ node.fn # "leaf"
    /\ stack' = Append(stack, node)
    /\ node' = IF node.fn = "not" THEN node.of ELSE node.left
    /\ UNCHANGED <<parser, pc, meta, verdict>>

Decided(fn) == verdict = Error \/ verdict = IF fn = "and" THEN No ELSE Yes
(* What the right side says is what the node says. *)
EvalSecond ==
    /\ pc = "matched" /\ stack # <<>> /\ Top.fn \in {"and", "or"} /\ ~Decided(Top.fn)
    /\ stack' = Pop /\ node' = Top.right /\ pc' = "match"
    /\ UNCHANGED <<parser, meta, verdict>>

EvalReturn ==
    /\ pc = "matched" /\ stack # <<>> /\ (Top.fn = "not" \/ Decided(Top.fn))
    /\ stack' = Pop
    /\ verdict' = IF Top.fn = "not" /\ verdict # Error THEN Verdict(verdict = No) ELSE verdict
    /\ UNCHANGED <<parser, pc, node, meta>>

(* The tree is matched. *)
Matched == pc = "matched" /\ stack = <<>>

Next ==
    \/ \E p \in Ranges : And(p)
    \/ \E m \in input.metas : Match(m)
    \/ ParseWhere \/ NotExpr \/ Group \/ Ident \/ InComparison \/ EndComparison
    \/ Loop \/ Return \/ CloseGroup \/ Accept
    \/ Rejects /\ Reject
    \/ EvalLeaf \/ EvalFirst \/ EvalSecond \/ EvalReturn

Spec == Init /\ [][Next]_vars

-----------------------------------------------------------------------------
(* Properties *)

Single == Matched /\ Len(read) = 3 /\ read[2].t = "op" /\ read[3].t = "num"
Holds(x, op, h) ==
    CASE op = "<" -> Real(x) < h [] op = "<=" -> Real(x) <= h
      [] op = ">" -> Real(x) > h [] op = ">=" -> Real(x) >= h
      [] OTHER -> FALSE

(* A comparison with a number means what it says, as long as floats are    *)
(* exact and it is one, but for one case: a fraction and an integer as     *)
(* exclusive bound, since the next integer is already beyond the fraction. *)
(* (parse.rs:272)                                                          *)
ComparisonsMean ==
    LET op == read[2].s  num == read[3]
        xs == {x \in ValuesOf(meta, read[1].s) : Numeric(x)} IN
    /\ Single /\ op \in {"<", "<=", ">", ">="}
    /\ Abs(num.h) < 2 * Exact /\ num.h \in Floats
    /\ \A x \in xs : /\ Abs(Real(x)) < 2 * Exact
                     /\ op \in {"<=", ">="} \/ num.dot \/ Real(x) % 2 = 0
    => verdict = Verdict(\E x \in xs : Holds(x, op, num.h))

(* Beyond the exact floats a comparison of integers may take too much,     *)
(* never too little: an exclusive bound is the next integer before it is   *)
(* rounded, up to the largest one.  (parse.rs:429)                         *)
NoIntegerMissed ==
    Single /\ Number(read[3]).kind = "Int" =>
        \A x \in ValuesOf(meta, read[1].s) :
            x.kind = "Int" /\ Holds(x, read[2].s, read[3].h) => verdict = Yes

Between(x, lo, hi) == Numeric(x) /\ Real(lo) <= Real(x) /\ Real(x) <= Real(hi)
Built == Matched /\ built # <<>>

(* Integers within integer bounds are compared exactly, whatever their     *)
(* size.  (mod.rs:89)                                                      *)
IntegerRangesAreExact ==
    LET p == built[1]
        xs == {x \in ValuesOf(meta, p.field) : Numeric(x)} IN
    /\ Built /\ Len(built) = 1 /\ p.lo.kind = "Int" /\ p.hi.kind = "Int"
    /\ \A x \in xs : x.kind = "Int"
    => verdict = Verdict(\E x \in xs : Between(x, p.lo, p.hi))

(* A bound that is not a number is an error, unless a predicate before it  *)
(* has decided already; it never lets a record through.  (mod.rs:84)       *)
NaNIsLoud ==
    Built /\ (\E i \in DOMAIN built : NaN \in {built[i].lo, built[i].hi}) =>
        \/ verdict = Error
        \/ verdict = No /\ \E i \in DOMAIN built :
              NaN \notin {built[i].lo, built[i].hi} /\ Matches(built[i], meta) = No

(* "Numeric field within [lo, hi] (both inclusive)": for bounds that are    *)
(* exact floats.  (mod.rs:51)                                              *)
RangesAreIntervals ==
    /\ Built /\ Len(built) = 1
    /\ \A b \in {built[1].lo, built[1].hi} : b.kind = "Float" /\ Abs(b.v) < 2 * Exact
    =>
        \A x \in ValuesOf(meta, built[1].field) :
            Numeric(x) /\ Abs(Real(x)) < 2 * Exact =>
                (verdict = Yes <=> Between(x, built[1].lo, built[1].hi))
=============================================================================
