----------------------------- MODULE QueryPlans -----------------------------
(***************************************************************************)
(* Query plans of db_operations_light.c: iterators that scan a relation    *)
(* by its primary key or join an outer iterator with an index on an inner  *)
(* relation; and the indices, hash tables for integers, lists for strings  *)
(* and indices of indices for tuples of attributes.                        *)
(*                                                                         *)
(* A tuple is the sequence of its fields.  Indices and queues are in heaps *)
(* of their own and are known by their place there, for what is shared is  *)
(* changed by all who share it.  A relation is what OrderedRelation says:  *)
(* a map from keys to tuples and positions in it.                          *)
(***************************************************************************)
EXTENDS Integers, SequencesExt

CONSTANTS Plans,  \* the clients: data, indices and iterators
          N,      \* buckets of a hash table (inthash.c: 10)
          MaxRuns,  \* times the client of the model opens one iterator
          NULL, End

Attribute(id, domain) == [id |-> id, domain |-> domain]

\* One name, one domain: else get_offset exits.
SameDomain(attrs) == \A a, b \in Range(attrs) : a.id = b.id => a = b

ASSUME PlansAssumption ==
    /\ N \in Nat \ {0} /\ NULL # End
    /\ \A p \in Plans : \A r \in DOMAIN p.rels :
          /\ SameDomain(p.rels[r].attrs)
          /\ \A i \in DOMAIN p.rels[r].rows : Len(p.rels[r].rows[i]) = Len(p.rels[r].attrs)

VARIABLES plan,   \* the client's plan
          rel,    \* the relations that have been loaded: maps from primary keys to tuples
          ind,    \* the indices that have been built: places in heap
          mem,    \* [heap, fifo, env]: the index nodes, the queues, and each iterator's env
          asked   \* each iterator: what it has answered since init, its state and runs

vars == <<plan, rel, ind, mem, asked>>

Relation(keys) == INSTANCE OrderedRelation WITH
    Keys <- keys, Records <- {}, Cursors <- {}, Lost <- NULL, Closed <- NULL,
    map <- <<>>, pos <- <<>>, gone <- FALSE

-----------------------------------------------------------------------------
(* Attributes. *)

\* The place of an attribute among others, from 0; -1 if it is not there.
get_offset(attrs, a) == SelectInSeq(attrs, LAMBDA b : b.id = a.id) - 1

get_projection(attrs, t, proj) == [i \in DOMAIN proj |-> t[get_offset(attrs, proj[i]) + 1]]

\* The schema of an attribute list is the list of its domains.
get_schema(attrs) == [i \in DOMAIN attrs |-> attrs[i].domain]

-----------------------------------------------------------------------------
(* Indices.  An index node is a table of buckets, each a list of cells. *)

Bucket(domain, key) == IF domain = "Int" THEN key % N ELSE 0

index_new(heap, sch) ==
    Append(heap, [b \in 0 .. IF Head(sch) = "Int" THEN N - 1 ELSE 0 |-> <<>>])

Cell(cells, key) == SelectInSeq(cells, LAMBDA c : c.key = key)

\* inthash_lookup and stringlist_lookup.
lookup_AnyKey(node, domain, key) ==
    LET cells == node[Bucket(domain, key)]
    IN  IF cells = <<>> THEN NULL ELSE cells[1].value
lookup(node, domain, key) ==
    LET cells == node[Bucket(domain, key)]
        i     == Cell(cells, key)
    IN  IF i = 0 THEN NULL ELSE cells[i].value

\* inthash_insert and stringlist_insert: in place of the old value, or at the end.
insert(node, domain, key, value) ==
    LET b == Bucket(domain, key)
        i == Cell(node[b], key)
    IN  [node EXCEPT ![b] = IF i = 0 THEN Append(@, [key |-> key, value |-> value])
                            ELSE [@ EXCEPT ![i].value = value]]

\* tuple_lookup_method, down to the last attribute.
RECURSIVE index_lookup(_, _, _, _)
index_lookup(heap, n, sch, key) ==
    LET v == lookup(heap[n], Head(sch), Head(key))
    IN  IF Len(sch) = 1 \/ v = NULL THEN v
        ELSE index_lookup(heap, v, Tail(sch), Tail(key))

\* tuple_insert_method: a level that is not there yet is made on the way.
RECURSIVE index_insert(_, _, _, _, _)
index_insert(heap, n, sch, key, value) ==
    LET below == lookup(heap[n], Head(sch), Head(key))
        fresh == Len(heap) + 1
        put(v) == [heap EXCEPT ![n] = insert(@, Head(sch), Head(key), v)]
    IN  CASE Len(sch) = 1 -> put(value)
          [] Len(sch) > 1 /\ below # NULL ->
                index_insert(heap, below, Tail(sch), Tail(key), value)
          [] Len(sch) > 1 /\ below = NULL ->
                index_insert(index_new(put(fresh), Tail(sch)), fresh, Tail(sch), Tail(key), value)

-----------------------------------------------------------------------------
(* Iterators.  The env of a scan is its cursor, that of a join the queue of *)
(* the inner tuples it is at, and its outer tuple.                         *)

RECURSIVE init_iterator(_, _)
init_iterator(m, i) ==
    LET it == plan.its[i]
        r  == rel[it.rel]
    IN  IF it.op = "scan"
        THEN [m EXCEPT !.env[i] = Relation(DOMAIN r)!Least(DOMAIN r)]
        ELSE [init_iterator(m, it.outer) EXCEPT !.env[i] = [inner |-> NULL, outer |-> NULL]]

seq_scan_next(m, i) ==
    LET r == rel[plan.its[i].rel]
        p == m.env[i]
    IN  IF p = End THEN [t |-> NULL, m |-> m]
        ELSE [t |-> r[p], m |-> [m EXCEPT !.env[i] = Relation(DOMAIN r)!After(r, p)]]

\* The outer tuple and the inner one's attributes that are not joined on.
merge(it, outer, inner) ==
    LET attrs == plan.rels[it.rel].attrs
        own   == SelectSeq(attrs, LAMBDA a : get_offset(it.innerJoin, a) = -1)
    IN  outer \o get_projection(attrs, inner, own)

\* fifo_get takes the inner tuple out of the queue that the index holds.
emit(m, i) ==
    LET e == m.env[i]
    IN  IF e.outer = NULL THEN [t |-> NULL, m |-> m]
        ELSE [t |-> merge(plan.its[i], e.outer, Head(m.fifo[e.inner])),
              m |-> [m EXCEPT !.fifo[e.inner] = Tail(@)]]

RECURSIVE get_next(_, _)
get_next(m, i) ==
    LET it   == plan.its[i]
        e    == m.env[i]
        next == get_next(m, it.outer)
        proj == get_projection(it.outerAttrs, next.t, it.outerJoin)
        found == index_lookup(m.heap, ind[it.index], get_schema(it.innerJoin), proj)
    IN  CASE it.op = "scan" -> seq_scan_next(m, i)
          [] it.op = "join" /\ e.inner # NULL /\ m.fifo[e.inner] # <<>> -> emit(m, i)
          [] OTHER ->
                IF next.t = NULL
                THEN [t |-> NULL, m |-> [next.m EXCEPT !.env[i].outer = NULL]]
                ELSE get_next([next.m EXCEPT !.env[i] = [inner |-> found, outer |-> next.t]], i)

\* close: the cursor of the scan at the bottom is freed.
RECURSIVE close_iterator(_, _)
close_iterator(m, i) ==
    IF plan.its[i].op = "scan" THEN [m EXCEPT !.env[i] = NULL]
    ELSE close_iterator(m, plan.its[i].outer)

\* The loop of materialize.
RECURSIVE drain(_, _, _)
drain(m, i, answers) ==
    LET next == get_next(m, i)
    IN  IF next.t = NULL THEN [answers |-> answers, m |-> next.m]
        ELSE drain(next.m, i, Append(answers, next.t))

-----------------------------------------------------------------------------
(* Building an index. *)

\* One tuple of index_scan: its queue is looked up, made if there is none, and
\* put back.
addTuple_NewQueue(m, n, r, attrs, t) ==
    LET key == get_projection(plan.rels[r].attrs, t, attrs)
        sch == get_schema(attrs)
    IN  [m EXCEPT !.fifo = Append(@, <<t>>),
                  !.heap = index_insert(@, n, sch, key, Len(m.fifo) + 1)]
addTuple(m, n, r, attrs, t) ==
    LET key == get_projection(plan.rels[r].attrs, t, attrs)
        sch == get_schema(attrs)
        l   == index_lookup(m.heap, n, sch, key)
        q   == IF l = NULL THEN Len(m.fifo) + 1 ELSE l
    IN  [m EXCEPT !.fifo = IF l = NULL THEN Append(@, <<t>>) ELSE [@ EXCEPT ![l] = Append(@, t)],
                  !.heap = index_insert(@, n, sch, key, q)]

\* The tuples of a relation in the order of a scan.
Scanned(r) == LET keys == SetToSortSeq(DOMAIN r, <) IN [i \in DOMAIN keys |-> r[keys[i]]]

-----------------------------------------------------------------------------
(* The client. *)

Nothing == [x \in {} |-> NULL]

Init ==
    /\ plan \in Plans
    /\ rel = Nothing /\ ind = Nothing
    /\ mem = [heap |-> <<>>, fifo |-> <<>>, env |-> [i \in DOMAIN plan.its |-> NULL]]
    /\ asked = [i \in DOMAIN plan.its |-> [answers |-> <<>>, state |-> "closed", runs |-> 0]]

\* index_data: the rows go in one after the other, the last of a key stays.
index_data(r) ==
    /\ r \in DOMAIN plan.rels \ DOMAIN rel
    /\ LET rows == plan.rels[r].rows
           key(t) == t[get_offset(plan.rels[r].attrs, plan.rels[r].pk) + 1]
           loaded == FoldLeft(LAMBDA m, t : (key(t) :> t) @@ m, Nothing, rows)
       IN  rel' = (r :> loaded) @@ rel
    /\ UNCHANGED <<plan, ind, mem, asked>>

index_scan(x) ==
    /\ x \in DOMAIN plan.indices \ DOMAIN ind
    /\ LET r     == plan.indices[x].rel
           attrs == plan.indices[x].attrs
           n     == Len(mem.heap) + 1
           empty == [mem EXCEPT !.heap = index_new(@, get_schema(attrs))]
       IN  /\ r \in DOMAIN rel
           /\ ind' = (x :> n) @@ ind
           /\ mem' = FoldLeft(LAMBDA m, t : addTuple(m, n, r, attrs, t), empty, Scanned(rel[r]))
    /\ UNCHANGED <<plan, rel, asked>>

\* The client uses a plan when everything is loaded, and may run it again.
Ready(i) ==
    /\ DOMAIN rel = DOMAIN plan.rels /\ DOMAIN ind = DOMAIN plan.indices
    /\ i \in plan.roots /\ asked[i].runs < MaxRuns
    /\ asked[i].state \in {"closed", "materialized"}

Open(i) ==
    /\ Ready(i)
    /\ mem' = init_iterator(mem, i)
    /\ asked' = [asked EXCEPT ![i] = [answers |-> <<>>, state |-> "open", runs |-> @.runs + 1]]
    /\ UNCHANGED <<plan, rel, ind>>

Ask(i) ==
    /\ asked[i].state = "open"
    /\ LET next == get_next(mem, i)
       IN  /\ mem' = next.m
           /\ asked' = IF next.t = NULL THEN [asked EXCEPT ![i].state = "done"]
                       ELSE [asked EXCEPT ![i].answers = Append(@, next.t)]
    /\ UNCHANGED <<plan, rel, ind>>

Close(i) ==
    /\ asked[i].state \in {"open", "done"}
    /\ mem' = close_iterator(mem, i)
    /\ asked' = [asked EXCEPT ![i].state = "closed"]
    /\ UNCHANGED <<plan, rel, ind>>

\* From init_iterator to close_iterator in one call.
materialize(i) ==
    /\ Ready(i)
    /\ LET all == drain(init_iterator(mem, i), i, <<>>)
       IN  /\ mem' = close_iterator(all.m, i)
           /\ asked' = [asked EXCEPT ![i] = [answers |-> all.answers, state |-> "materialized",
                                            runs |-> @.runs + 1]]
    /\ UNCHANGED <<plan, rel, ind>>

Next ==
    \/ \E r \in DOMAIN plan.rels : index_data(r)
    \/ \E x \in DOMAIN plan.indices : index_scan(x)
    \/ \E i \in DOMAIN plan.its : Open(i) \/ Ask(i) \/ Close(i) \/ materialize(i)

Spec == Init /\ [][Next]_vars

=============================================================================
