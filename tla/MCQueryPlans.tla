---------------------------- MODULE MCQueryPlans -----------------------------
(***************************************************************************)
(* What is checked of QueryPlans, for the plans of db_testing.c and a few  *)
(* more, with all contents of small relations.                             *)
(***************************************************************************)
EXTENDS QueryPlans, FiniteSets

A == Attribute("A", "Int")
B == Attribute("B", "Str")
C == Attribute("C", "Int")
D == Attribute("D", "Int")

Table(attrs, pk, rows) == [attrs |-> attrs, pk |-> pk, rows |-> rows]
Scan(r) == [op |-> "scan", rel |-> r]
Join(outer, outerAttrs, outerJoin, x, r, innerJoin) ==
    [op |-> "join", outer |-> outer, outerAttrs |-> outerAttrs, outerJoin |-> outerJoin,
     index |-> x, rel |-> r, innerJoin |-> innerJoin]
Index(r, attrs) == [rel |-> r, attrs |-> attrs]

\* Rows <<key, value>> for the keys 0 .. n - 1, the last one first, any values.
Rows(n, Values) == {[i \in 1 .. n |-> <<n - i, v[i]>>] : v \in [1 .. n -> Values]}

\* Two joins on one index, of two relations by the string B (db_testing.c:147-175).
OnString(r, s) ==
    [rels    |-> [R |-> Table(<<A, B>>, A, r), S |-> Table(<<C, B>>, C, s)],
     indices |-> [x |-> Index("S", <<B>>)],
     its     |-> [i |-> Scan("R"), j |-> Join("i", <<A, B>>, <<B>>, "x", "S", <<B>>),
                  k |-> Scan("R"), l |-> Join("k", <<A, B>>, <<B>>, "x", "S", <<B>>)],
     roots   |-> {"j", "l"}]

\* A join on two integers, which share buckets; and a row that is put twice.
OnPair(r, s) ==
    [rels    |-> [R |-> Table(<<A, C, D>>, A, r), S |-> Table(<<D, B, C>>, D, s)],
     indices |-> [x |-> Index("S", <<C, D>>)],
     its     |-> [i |-> Scan("R"), j |-> Join("i", <<A, C, D>>, <<C, D>>, "x", "S", <<C, D>>)],
     roots   |-> {"j"}]

\* A join whose outer iterator is a join.
Chain(r, s, t) ==
    [rels    |-> [R |-> Table(<<A, B>>, A, r), S |-> Table(<<C, B>>, C, s),
                  T |-> Table(<<D, C>>, D, t)],
     indices |-> [x |-> Index("S", <<B>>), y |-> Index("T", <<C>>)],
     its     |-> [i |-> Scan("R"), j |-> Join("i", <<A, B>>, <<B>>, "x", "S", <<B>>),
                  k |-> Join("j", <<A, B, C>>, <<C>>, "y", "T", <<C>>)],
     roots   |-> {"k"}]

TestPlans ==
    {OnString(r, s) : r \in Rows(2, {1, 2}), s \in Rows(3, {1, 2})}
    \cup {OnPair(<<<<0, c, d>>, <<1, 3, 1>>>>, <<<<1, 7, 1>>, <<3, 7, c>>, <<d, 8, 3>>>>) :
             c \in {1, 3}, d \in {1, 3}}
    \cup {Chain(r, s, <<<<0, 0>>, <<1, c>>, <<2, c>>>>) :
             r \in Rows(2, {1, 2}), s \in Rows(2, {1, 2}), c \in {0, 1}}

\* One join, once, as in db_testing.c.
OneJoin == {[OnString(r, s) EXCEPT !.roots = {"j"}] : r \in Rows(3, {1, 2}), s \in Rows(3, {1, 2})}

Values == 0 .. 8

-----------------------------------------------------------------------------
(* What a plan should answer. *)

Field(attrs, t, a) == t[CHOOSE i \in DOMAIN attrs : attrs[i] = a]

Agree(attrs, t, by, attrs2, u, by2) ==
    \A i \in DOMAIN by : Field(attrs, t, by[i]) = Field(attrs2, u, by2[i])

\* Each scan as a set of rows, each join as the set of the matching pairs, the
\* second without the attributes joined on.
RECURSIVE Answer(_)
Answer(i) ==
    LET it    == plan.its[i]
        attrs == plan.rels[it.rel].attrs
        own   == SelectSeq(attrs, LAMBDA a : a \notin Range(it.innerJoin))
    IN  IF it.op = "scan" THEN Range(rel[it.rel])
        ELSE {p[1] \o [k \in DOMAIN own |-> Field(attrs, p[2], own[k])] :
                 p \in {q \in Answer(it.outer) \X Range(rel[it.rel]) :
                           Agree(it.outerAttrs, q[1], it.outerJoin, attrs, q[2], it.innerJoin)}}

\* No two outer tuples of a join at or below i agree where it joins.
RECURSIVE DistinctOuter(_)
DistinctOuter(i) ==
    LET it == plan.its[i]
    IN  it.op = "join" =>
          /\ \A t, u \in Answer(it.outer) :
                Agree(it.outerAttrs, t, it.outerJoin, it.outerAttrs, u, it.outerJoin) => t = u
          /\ DistinctOuter(it.outer)

Finished(i) == asked[i].state \in {"done", "materialized"}

-----------------------------------------------------------------------------
(* Properties. *)

\* db_operations_light.c:128-129.  "The returned index maps projections of tuples on
\* the given list of attributes to fifo lists of tuple addresses": whatever buckets
\* and levels the keys share, each queue has the tuples of its key and no other's,
\* in the order of the scan, until a join takes from it.
IndexMapsProjections ==
    (\A i \in DOMAIN asked : asked[i].runs = 0) =>
        \A x \in DOMAIN ind :
            LET r     == plan.indices[x].rel
                attrs == plan.indices[x].attrs
            IN  \A key \in [DOMAIN attrs -> Values] :
                    LET want == SelectSeq(Scanned(rel[r]), LAMBDA t :
                                    [i \in DOMAIN attrs |->
                                        Field(plan.rels[r].attrs, t, attrs[i])] = key)
                        got  == index_lookup(mem.heap, ind[x], get_schema(attrs), key)
                    IN  IF want = <<>> THEN got = NULL ELSE got # NULL /\ mem.fifo[got] = want

\* db_operations_light.c:200-203.  A join never merges tuples that do not match and
\* makes up none, whoever else asks the same index.  The first that
\* has an index to itself answers every pair, and once, as long as no two outer
\* tuples agree where they join.
JoinAnswers ==
    \A i \in {j \in plan.roots : asked[j].runs > 0} :
        /\ Range(asked[i].answers) \subseteq Answer(i)
        /\ Finished(i) /\ asked[i].runs = 1 /\ DistinctOuter(i)
           /\ (\A j \in plan.roots \ {i} : asked[j].runs = 0) =>
              /\ Range(asked[i].answers) = Answer(i)
              /\ IsInjective(asked[i].answers)

\* db_operations_light.c:200-203: the index maps join attributes' values to lists
\* "whose collection is the set of tuples in the inner relation whose projection on
\* the join attributes gives the key".  A join that has ended has answered all pairs.
JoinAnswersEveryPair ==
    \A i \in plan.roots : Finished(i) => Range(asked[i].answers) = Answer(i)

==============================================================================
