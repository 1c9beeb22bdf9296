------------------------------- MODULE Query -------------------------------
(***************************************************************************)
(* The queries of store.rs over the reachable states of Store: vectors,    *)
(* with the exact index (index/exact.rs) on the sealed segment; text, with *)
(* BM25 (text/); both fused by rank (planner.rs); each under a filter.     *)
(*                                                                         *)
(* For one query vector and one metric a record has one score.  Only the   *)
(* order of scores matters, so the content of a record holds its score: a  *)
(* natural number, and 0 for a record the metric cannot score (a zero norm *)
(* under cosine).  Search and the plain scan return records with the same  *)
(* score in no fixed order (a HashMap is iterated), so they have a set of  *)
(* possible answers; the other queries break ties by id.                   *)
(***************************************************************************)
EXTENDS Store, Filter, Sums

CONSTANTS
    Lower,      \* the alphanumeric characters, and the lower case of each
    MaxK        \* bound: the largest k, pool and window of a query

IsSeq(s) == s \in Seq({s[i] : i \in DOMAIN s})

ASSUME QueryAssumption ==
    /\ MaxK \in Nat
    /\ Ids \subseteq Nat
    /\ \A v \in Vals : v.score \in Nat /\ (v.text = None \/ IsSeq(v.text))
    /\ \A i \in IntIds, s \in Ids \ IntIds : i < s      \* the order of ids

(* The members of a finite set in an order, a set of pairs: the i-th is    *)
(* the one that comes after i - 1 others.                                  *)
InOrder(S, order) ==
    [i \in 1..Cardinality(S) |->
        CHOOSE x \in S : Cardinality({y \in S : <<y, x>> \in order}) = i - 1]

-----------------------------------------------------------------------------
(* The contents of a record: Vals \subseteq [score, text, meta], with the  *)
(* text a sequence of characters, or None.                                 *)
Score(e) == e.rec.val.score
Scorable(es) == {e \in es : Score(e) > 0}

(* Sorted by score, best first, and truncated to k: the possible answers.  *)
TopK(es, k) ==
    {hits \in SUBSET Scorable(es) :
        /\ Cardinality(hits) = (IF k < Cardinality(Scorable(es)) THEN k
                                ELSE Cardinality(Scorable(es)))
        /\ \A h \in hits, o \in Scorable(es) \ hits : Score(h) >= Score(o)}

(* exact_top_k: the flat scan of the merged view. *)
ExactTopK(k) == TopK(Merged(seg, l0), k)

(* The merge of search keeps, of the hits of one id, the best score; of    *)
(* two that are equal the first, and segments come before L0.              *)
BestOfId(sealed, fresh) ==
    {h \in sealed \cup fresh :
        \A o \in sealed \cup fresh :
            o.rec.id = h.rec.id /\ o # h =>
                \/ Score(o) < Score(h)
                \/ Score(o) = Score(h) /\ h \in sealed}

PoolOne(pool) == 1    \* mutant: the tiers contribute their best hit only
(* How many candidates each tier contributes. *)
Pool(pool) == pool

(* search: the answers of the segment indexes and of a scan of L0, merged. *)
Search(k, pool) ==
    UNION {UNION {TopK(BestOfId(sealed, fresh), k) : fresh \in TopK(Live(l0), Pool(pool))} :
              sealed \in TopK(seg, Pool(pool))}

(* A query that search accepts: the pool of candidates is not below k. *)
Queries == {q \in (1..MaxK) \X (1..MaxK) : q[1] <= q[2]}

-----------------------------------------------------------------------------
(* Filtered scans.  A filter is a set of predicates that must all hold;    *)
(* module Where has their trees, and their errors.  A corpus is what the   *)
(* queries look at: the merged view, and the candidates of text search by  *)
(* the tier they are found in.                                             *)

CorpusOf(view, candidates) ==
    [view |-> view, sealed |-> candidates \cap seg, fresh |-> candidates \ seg]
Corpus == CorpusOf(Merged(seg, l0), TextCandidates)

Satisfies(e, filter) == \A p \in filter : Matches(p, e.rec.val.meta) = Yes
Matching(es, filter) == {e \in es : Satisfies(e, filter)}
Hit(e, score) == [id |-> e.rec.id, score |-> score, seq |-> e.seq]
Truncated(hits, k) == SubSeq(hits, 1, IF k < Len(hits) THEN k ELSE Len(hits))

(* Best first, ties by id. *)
Better(a, b) == a.score > b.score \/ (a.score = b.score /\ a.id < b.id)
Ranked(hits) == InOrder(hits, {p \in hits \X hits : Better(p[1], p[2])})
ScoredHits(es) == Ranked({Hit(e, Score(e)) : e \in Scorable(es)})

FilteredTopKLate(es, k, filter) ==  \* mutant: the filter takes from the k best
    SelectSeq(Truncated(ScoredHits(es), k),
              LAMBDA h : \E e \in Matching(es, filter) : e.rec.id = h.id)
(* filtered_exact_top_k, of a merged view. *)
FilteredTopK(es, k, filter) == Truncated(ScoredHits(Matching(es, filter)), k)

-----------------------------------------------------------------------------
(* Text search *)

(* tokenize: the maximal runs of alphanumeric characters, in lower case.   *)
Alphanumeric(text, i) == i \in DOMAIN text /\ text[i] \in DOMAIN Lower
Starts(text) == {i \in DOMAIN text : Alphanumeric(text, i) /\ ~Alphanumeric(text, i - 1)}
RunFrom(text, i) == {j \in i..Len(text) : \A h \in i..j : Alphanumeric(text, h)}
Token(text, i) == [j \in 1..Cardinality(RunFrom(text, i)) |-> Lower[text[i + j - 1]]]
Tokenize(text) ==
    LET start == InOrder(Starts(text), {p \in Starts(text) \X Starts(text) : p[1] < p[2]})
    IN  [t \in DOMAIN start |-> Token(text, start[t])]

Occurrences(doc, term) == Cardinality({i \in DOMAIN doc : doc[i] = term})
DocsWith(docs, term) == Cardinality({d \in DOMAIN docs : Occurrences(docs[d], term) > 0})

(* ln(1 + (n - df + 0.5) / (df + 0.5)) in thousandths: the area under 1/x  *)
(* from 2 df + 1 to 2 n + 2, unit by unit.                                 *)
Idf(n, df) == Sum([i \in 1..(2 * (n - df) + 1) |-> 2000 \div (2 * (2 * df + i) + 1)])

(* score_term, with k1 = 1.2 and b = 0.75: idf * tf * 2.2 / (tf + 0.3 +    *)
(* 0.9 * length / average), where the average is at least 1.               *)
TermScore(tf, df, n, length, total) ==
    IF tf = 0 THEN 0
    ELSE (Idf(n, df) * 22000 * tf * total) \div ((10 * tf + 3) * total + 9 * length * n)

AtLeast(n, x) == IF x > n THEN x ELSE n
ScoreTerm(docs, term, d) ==
    TermScore(Occurrences(docs[d], term), DocsWith(docs, term), Len(docs), Len(docs[d]),
              AtLeast(Len(docs), Sum([e \in DOMAIN docs |-> Len(docs[e])])))

ScoreDoc(docs, terms, d) ==
    Sum([t \in DOMAIN terms |-> ScoreTerm(docs, terms[t], d)])
Scores(docs, terms) == [d \in DOMAIN docs |-> ScoreDoc(docs, terms, d)]

ById(es) == InOrder(es, {p \in es \X es : p[1].rec.id < p[2].rec.id})
TierOrder(sealed, fresh) == ById(sealed) \o ById(fresh)     \* mutant: as they are found
(* The order of the candidates is by id, in whatever tier they are. *)
CandidateOrder(sealed, fresh) == ById(sealed \cup fresh)

(* top_k breaks ties by the position of a candidate. *)
Positive(scores) == {d \in DOMAIN scores : scores[d] > 0}
BestFirst(scores) ==
    InOrder(Positive(scores),
            {p \in Positive(scores) \X Positive(scores) :
                \/ scores[p[1]] > scores[p[2]]
                \/ scores[p[1]] = scores[p[2]] /\ p[1] < p[2]})
HitsAt(cands, scores, ds) ==
    [i \in DOMAIN ds |-> Hit(cands[ds[i]], scores[ds[i]])]
Placed(cands, scores) == HitsAt(cands, scores, BestFirst(scores))

DocOf(text) == IF text = None THEN <<>> ELSE Tokenize(text)
TextHits(cands, query) ==
    Placed(cands, Scores([d \in DOMAIN cands |-> DocOf(cands[d].rec.val.text)], Tokenize(query)))

(* filtered_text_search: the statistics are those of the matching          *)
(* candidates.                                                             *)
TextTopK(corpus, query, k, filter) ==
    Truncated(TextHits(CandidateOrder(Matching(corpus.sealed, filter),
                                      Matching(corpus.fresh, filter)), query), k)

-----------------------------------------------------------------------------
(* Fusion.  1 / (60 + rank) is an integer over a common denominator, the   *)
(* product of all the 60 + i.                                              *)

RRF_K == 60
Gain(rank) == Product([i \in 1..MaxK |-> IF i = rank THEN 1 ELSE RRF_K + i])

(* What a path gives to an id, and what all of them do. *)
GainOf(path, id) ==
    Sum([rank \in DOMAIN path |-> IF path[rank].id = id THEN Gain(rank) ELSE 0])
PathsWith(paths, id) == {p \in DOMAIN paths : GainOf(paths[p], id) > 0}
FusedLast(paths, id) ==     \* mutant: the last path that has the id decides
    GainOf(paths[CHOOSE p \in PathsWith(paths, id) : \A q \in PathsWith(paths, id) : q <= p], id)
Fused(paths, id) == Sum([p \in DOMAIN paths |-> GainOf(paths[p], id)])

(* rrf_fuse: a hit keeps the seq of its first occurrence, in the order of  *)
(* the paths and, within a path, of the ranks.                             *)
Positions(paths) == UNION {{<<p, rank>> : rank \in DOMAIN paths[p]} : p \in DOMAIN paths}
HitAt(paths, pos) == paths[pos[1]][pos[2]]
Earlier(a, b) == a[1] < b[1] \/ (a[1] = b[1] /\ a[2] < b[2])
Firsts(paths) ==
    {pos \in Positions(paths) :
        \A o \in Positions(paths) : Earlier(o, pos) => HitAt(paths, o).id # HitAt(paths, pos).id}
FuseAll(paths) ==
    Ranked({[HitAt(paths, pos) EXCEPT !.score = Fused(paths, HitAt(paths, pos).id)] : pos \in Firsts(paths)})
RrfFuse(paths, k) == Truncated(FuseAll(paths), k)

(* hybrid_search_rrf_filtered: the ways to ask are the non-empty subsets   *)
(* of the two paths.                                                       *)
Paths(by, corpus, query, window, filter) ==
    (IF "vector" \in by THEN <<FilteredTopK(corpus.view, window, filter)>> ELSE <<>>)
        \o (IF "text" \in by THEN <<TextTopK(corpus, query, window, filter)>> ELSE <<>>)

Hybrid(by, corpus, query, k, window, filter) ==
    RrfFuse(Paths(by, corpus, query, window, filter), k)

Ways == (SUBSET {"vector", "text"}) \ {{}}

-----------------------------------------------------------------------------
(* "Same contract as exact_top_k": each answer of search is an answer of   *)
(* the oracle, wherever the records are.  (store.rs:600)                   *)
SearchMatchesOracle ==
    pc = "idle" =>
        \A q \in Queries : Search(q[1], q[2]) \subseteq ExactTopK(q[1])

(* The same while no entry of L0 supersedes a sealed record: a pool of k   *)
(* candidates of each tier is enough for the k best of both.               *)
SearchMatchesWhenDisjoint ==
    pc = "idle" /\ (\A e \in seg : ~Shadowed(e)) =>
        \A q \in Queries : Search(q[1], q[2]) = ExactTopK(q[1])
=============================================================================
