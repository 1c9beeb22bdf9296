---------------------------- MODULE WhereGrammar ----------------------------
(***************************************************************************)
(* The language of where-strings as the documentation of filter/parse.rs   *)
(* describes it, and that the parser of Where accepts it.                  *)
(***************************************************************************)
EXTENDS Where

(* The grammar of the documentation (parse.rs:6): the trees of a sequence  *)
(* of tokens, by every way to divide it.  A field may be any word but NOT. *)

Comparisons(s) ==
    LET n == Len(s)
        field == n > 2 /\ s[1].t = "word" /\ s[1] # Word("NOT") IN
    {Leaf(p) : p \in
        (IF field /\ n = 3 /\ s[2].t = "op" /\ Takes(s[2].s, s[3])
         THEN {Comparison(s[1].s, s[2].s, s[3])} ELSE {})
        \cup (IF field /\ Tail(s) = <<Word("IS"), Word("NULL")>> THEN {NotPresent(s[1].s)} ELSE {})
        \cup (IF field /\ Tail(s) = <<Word("IS"), Word("NOT"), Word("NULL")>>
              THEN {Present(s[1].s)} ELSE {})
        \cup (IF /\ field /\ n > 4 /\ n % 2 = 1
                 /\ s[2] = Word("IN") /\ s[3] = Punct("(") /\ s[n] = Punct(")")
                 /\ \A i \in 4..n-1 : IF i % 2 = 0 THEN IsLiteral(s[i]) ELSE s[i] = Punct(",")
              THEN {In(s[1].s, {Literal(s[i]) : i \in {j \in 4..n-1 : j % 2 = 0}})} ELSE {})}

RECURSIVE OrExpr(_), AndExpr(_), PrimaryOrNot(_)
OrExpr(s) ==
    AndExpr(s) \cup UNION {{Both("or", l, r) : l \in OrExpr(SubSeq(s, 1, i - 1)),
                                               r \in AndExpr(SubSeq(s, i + 1, Len(s)))} :
                              i \in {j \in 2..Len(s) : s[j] = Word("OR")}}
AndExpr(s) ==
    PrimaryOrNot(s) \cup UNION {{Both("and", l, r) : l \in AndExpr(SubSeq(s, 1, i - 1)),
                                                     r \in PrimaryOrNot(SubSeq(s, i + 1, Len(s)))} :
                                   i \in {j \in 2..Len(s) : s[j] = Word("AND")}}
PrimaryOrNot(s) ==
    Comparisons(s)
    \cup (IF s # <<>> /\ s[1] = Word("NOT") THEN {Not(t) : t \in PrimaryOrNot(Tail(s))} ELSE {})
    \cup (IF Len(s) > 2 /\ s[1] = Punct("(") /\ s[Len(s)] = Punct(")")
          THEN OrExpr(SubSeq(s, 2, Len(s) - 1)) ELSE {})

(* The ways to complete s: the rest of a comparison, then the parentheses. *)
Rests ==
    LET c == <<Word("f"), Word("IS"), Word("NULL")>> IN
    {<<>>, c, Tail(c), <<Word("NULL")>>, <<Numeral(FALSE, FALSE, 0)>>, <<Punct(")")>>,
     <<Numeral(FALSE, FALSE, 0), Punct(")")>>, <<Punct("("), Numeral(FALSE, FALSE, 0), Punct(")")>>}
Occurrences(s, tok) == Cardinality({i \in DOMAIN s : s[i] = tok})
Completed(s) ==
    LET open(r) == Occurrences(s \o r, Punct("(")) - Occurrences(s \o r, Punct(")")) IN
    {s \o r \o [i \in 1..open(r) |-> Punct(")")] : r \in Rests}

-----------------------------------------------------------------------------
(* The tree is the one that the grammar gives the string, and a string is  *)
(* refused only if it cannot be completed to one of the language: AND      *)
(* binds closer than OR, both to the left, and no prefix of the input is   *)
(* taken for the whole.  (parse.rs:151)                                    *)
WhereFollowsGrammar ==
    /\ pc = "accepted" /\ read # <<>> => OrExpr(read) = {root}
    /\ pc = "rejected" /\ next = End => OrExpr(read) = {}
    /\ pc = "rejected" /\ next # End =>
          \A s \in Completed(Append(read, next)) : OrExpr(s) = {}
=============================================================================
