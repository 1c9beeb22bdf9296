----------------------------- MODULE MCBinding -----------------------------
(* Three clients on small instances: one queries what it adds one by one,  *)
(* one adds and deletes in batches, with items that are refused, one opens *)
(* with this and that metric.  Id 3 is a string.                           *)
EXTENDS Binding

MCLower == [ch \in {"a", "A", "b"} |-> IF ch = "A" THEN "a" ELSE ch]

PyVal(kind, v) == [kind |-> kind, v |-> v]
PyInt(i) == PyVal("int", i)
ItemOf(id, d, score, text, meta) ==
    [id |-> id, dim |-> d, score |-> score, text |-> text, meta |-> meta]
AddOf(items) == [verb |-> "add", items |-> items]
DeleteOf(ids) == [verb |-> "delete", items |-> ids]

(* Integers at the ends of the exact floats and of i64, and past it. *)
Big == {<<"n", PyInt(3)>>}
Huge == {<<"n", PyInt(5)>>, <<"t", PyVal("bool", 1)>>}
Half == {<<"n", PyVal("float", 1)>>, <<"t", PyInt(1)>>}
Odd == {<<"n", PyVal("nan", 0)>>, <<"t", PyInt(1)>>}

Querying ==
    [calls |-> {AddOf(<<ItemOf(PyInt(0), 1, 0, <<"A", "-", "a">>, Big)>>),
                AddOf(<<ItemOf(PyInt(0), 1, 2, None, {})>>),
                AddOf(<<ItemOf(PyInt(1), 1, 3, <<"a", "-", "A">>, Half)>>),
                AddOf(<<ItemOf(PyInt(1), 1, 2, <<"b">>, Odd)>>),
                AddOf(<<ItemOf(PyInt(2), 1, 1, <<"A", "-", "b">>, Huge)>>),
                DeleteOf(<<PyInt(2)>>)},
     asks |-> {None}]

Plain(id, d) == ItemOf(id, d, 1, None, Big)
Fresh(id) == ItemOf(id, 1, 2, <<"b">>, Huge)
NoValue == {<<"n", PyVal("other", 0)>>}
TooBig == {<<"n", PyInt(9)>>}
Batching ==
    [calls |-> {AddOf(<<Plain(PyInt(0), 1), Fresh(PyVal("bool", 0))>>),
                AddOf(<<Fresh(PyInt(0)), Plain(PyInt(1), 2)>>),
                AddOf(<<Fresh(PyInt(1)), Plain(PyVal("str", 3), 1)>>),
                AddOf(<<Fresh(PyInt(0)), [Plain(PyInt(1), 1) EXCEPT !.meta = NoValue]>>),
                AddOf(<<Fresh(PyInt(1)), [Plain(PyInt(0), 1) EXCEPT !.meta = TooBig]>>),
                DeleteOf(<<PyInt(0), PyInt(1)>>),
                DeleteOf(<<PyInt(0), PyInt(-1)>>)},
     asks |-> {None}]

Connecting == [calls |-> {AddOf(<<Plain(PyInt(0), 1)>>)}, asks |-> {"l2", "cosine"}]

MCClients == {Querying, Batching, Connecting}
MCVals ==
    {r.val : r \in UNION {UNION {UNION {ToRecord(c.items[i]) : i \in DOMAIN c.items} :
        c \in {d \in k.calls : d.verb = "add"}} : k \in MCClients}}

MCWheres ==
    {[form |-> "dict", pairs |-> {}],
     [form |-> "dict", pairs |-> {<<"t", PyVal("bool", 1)>>}],
     [form |-> "list", specs |->
        {[op |-> "range", field |-> "n", lo |-> PyInt(2), hi |-> PyVal("float", 12)],
         [op |-> "in", field |-> "n", values |-> {PyInt(3), PyInt(5), PyVal("nan", 0)}]}],
     [form |-> "list", specs |-> {[op |-> "present", field |-> "n"]}]}
MCTextQueries == {<<"b", "-", "A">>}
=============================================================================
