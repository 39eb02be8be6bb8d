--------------------------- MODULE BstNonblocking ---------------------------
(***************************************************************************)
(* bst_conc_nblocking.c: a binary search tree without locks.  Children and *)
(* values are atomic pointers (SC_atomics.c, sequentially consistent); a   *)
(* new node goes in by compare-and-swap of an empty child, the value of a  *)
(* key that is there is stored over.  There is no delete.                  *)
(*                                                                         *)
(* Each action is one atomic access and what follows from it up to the     *)
(* next: keys never change, and a node not yet linked is seen by its own   *)
(* thread only.  A node is modelled with its three atomic pointers, which  *)
(* are allocated and freed with it.                                        *)
(***************************************************************************)
EXTENDS Integers, Sequences

CONSTANTS Threads,         \* the threads that share the tree
          Keys, Values,    \* what they insert
          Nodes,           \* addresses for struct tree
          Root,            \* the atomic pointer tb
          NULL,
          MaxOps,          \* calls a thread makes before it exits
          Candidates(_)    \* the addresses malloc may pick of a set that is free

Cells == {Root} \cup (Nodes \X {"left", "right"})

ASSUME NonblockingAssumption ==
    /\ Keys \subseteq Int
    /\ NULL \notin Nodes \cup Values
    /\ Root \notin Nodes \X {"left", "right"} /\ NULL \notin Cells
    /\ MaxOps \in Nat
    /\ \A S \in SUBSET Nodes : Candidates(S) \subseteq S

VARIABLES nodes,   \* the nodes allocated
          node,    \* the key and the value of each
          ptr,     \* what the atomic pointers to children hold
          range,   \* the keys a search can bring to each of these pointers
          pc, call, ret,
          temp,    \* the pointer a thread looks at
          tp,      \* the node with the key of its call
          new,     \* the node it is about to link
          ref,     \* *ref, the value it expects to replace
          todo,    \* the calls it may still make
          joined,  \* has main joined the threads?
          work     \* what treebox_free has still to do

tree    == <<nodes, node, ptr, range>>
threads == <<pc, call, ret, temp, tp, new, ref, todo>>
main    == <<joined, work>>
vars    == <<tree, threads, main>>

\* No call deletes, but AtomicMap has the call.
Calls == [op : {"insert"}, key : Keys, value : Values] \cup [op : {"lookup"}, key : Keys]

Init ==
    /\ nodes = {}
    /\ node = [n \in Nodes |-> NULL]
    /\ ptr = [c \in Cells |-> NULL]
    /\ range = [c \in Cells |-> IF c = Root THEN Keys ELSE {}]
    /\ pc = [th \in Threads |-> "idle"]
    /\ call = [th \in Threads |-> NULL]
    /\ ret = [th \in Threads |-> NULL]
    /\ temp = [th \in Threads |-> NULL]
    /\ tp = [th \in Threads |-> NULL]
    /\ new = [th \in Threads |-> NULL]
    /\ ref = [th \in Threads |-> NULL]
    /\ todo = [th \in Threads |-> MaxOps]
    /\ joined = FALSE /\ work = <<>>

-----------------------------------------------------------------------------

Goto(th, label) == pc' = [pc EXCEPT ![th] = label]

Invoke(th) ==
    /\ pc[th] = "idle" /\ todo[th] > 0
    /\ \E c \in Calls : call' = [call EXCEPT ![th] = c]
    /\ temp' = [temp EXCEPT ![th] = Root]
    /\ ref' = [ref EXCEPT ![th] = NULL]
    /\ todo' = [todo EXCEPT ![th] = @ - 1]
    /\ Goto(th, "load")
    /\ UNCHANGED <<tree, ret, tp, new, main>>

\* atomic_load_ptr(temp), by what it finds.
Found(th) == ptr[temp[th]]

Descend(th) ==
    /\ pc[th] = "load" /\ Found(th) # NULL
    /\ node[Found(th)].key # call[th].key
    /\ temp' = [temp EXCEPT ![th] =
                   <<Found(th), IF call[th].key < node[Found(th)].key THEN "left" ELSE "right">>]
    /\ UNCHANGED <<tree, pc, call, ret, tp, new, ref, todo, main>>

Match(th) ==
    /\ pc[th] = "load" /\ Found(th) # NULL
    /\ node[Found(th)].key = call[th].key
    /\ tp' = [tp EXCEPT ![th] = Found(th)]
    /\ Goto(th, IF call[th].op = "insert" THEN "store" ELSE "read")
    /\ UNCHANGED <<tree, call, ret, temp, new, ref, todo, main>>

Absent(th) ==
    /\ pc[th] = "load" /\ Found(th) = NULL /\ call[th].op = "lookup"
    /\ Goto(th, "done")
    /\ UNCHANGED <<tree, call, ret, temp, tp, new, ref, todo, main>>

\* insert allocates the node it will try to link, with empty children.
Allocate_NoValue(th) ==
    /\ pc[th] = "load" /\ Found(th) = NULL /\ call[th].op = "insert"
    /\ \E p \in Candidates(Nodes \ nodes) :
          /\ nodes' = nodes \cup {p}
          /\ node' = [node EXCEPT ![p] = [key |-> call[th].key]]
          /\ ptr' = [ptr EXCEPT ![<<p, "left">>] = NULL, ![<<p, "right">>] = NULL]
          /\ new' = [new EXCEPT ![th] = p]
    /\ Goto(th, "cas")
    /\ UNCHANGED <<range, call, ret, temp, tp, ref, todo, main>>
Allocate(th) ==
    /\ pc[th] = "load" /\ Found(th) = NULL /\ call[th].op = "insert"
    /\ \E p \in Candidates(Nodes \ nodes) :
          /\ nodes' = nodes \cup {p}
          /\ node' = [node EXCEPT ![p] = [key |-> call[th].key, value |-> call[th].value]]
          /\ ptr' = [ptr EXCEPT ![<<p, "left">>] = NULL, ![<<p, "right">>] = NULL]
          /\ new' = [new EXCEPT ![th] = p]
    /\ Goto(th, "cas")
    /\ UNCHANGED <<range, call, ret, temp, tp, ref, todo, main>>

\* atomic_CAS_ptr(temp, ref, p) that succeeds; the new node halves the range of
\* the pointer it hangs from.
Link_ExpectsAnything(th) ==
    /\ pc[th] = "cas"
    /\ ptr' = [ptr EXCEPT ![temp[th]] = new[th]]
    /\ range' = [range EXCEPT
                    ![<<new[th], "left">>]  = {k \in range[temp[th]] : k < call[th].key},
                    ![<<new[th], "right">>] = {k \in range[temp[th]] : k > call[th].key}]
    /\ new' = [new EXCEPT ![th] = NULL]
    /\ Goto(th, "done")
    /\ UNCHANGED <<nodes, node, call, ret, temp, tp, ref, todo, main>>
Link(th) ==
    /\ pc[th] = "cas" /\ ptr[temp[th]] = ref[th]
    /\ ptr' = [ptr EXCEPT ![temp[th]] = new[th]]
    /\ range' = [range EXCEPT
                    ![<<new[th], "left">>]  = {k \in range[temp[th]] : k < call[th].key},
                    ![<<new[th], "right">>] = {k \in range[temp[th]] : k > call[th].key}]
    /\ new' = [new EXCEPT ![th] = NULL]
    /\ Goto(th, "done")
    /\ UNCHANGED <<nodes, node, call, ret, temp, tp, ref, todo, main>>

\* One that fails stores what it found in *ref.  The next attempt, at a child of
\* that node, expects it there: it fails once more, for no other thread's doing,
\* and only then is *ref NULL again.
Retry_KeepsRef(th) ==
    /\ pc[th] = "cas" /\ ptr[temp[th]] # ref[th]
    /\ ref' = [ref EXCEPT ![th] = IF @ = NULL THEN ptr[temp[th]] ELSE @]
    /\ nodes' = nodes \ {new[th]}
    /\ node' = [node EXCEPT ![new[th]] = NULL]
    /\ new' = [new EXCEPT ![th] = NULL]
    /\ Goto(th, "load")
    /\ UNCHANGED <<ptr, range, call, ret, temp, tp, todo, main>>
Retry_Leaks(th) ==
    /\ pc[th] = "cas" /\ ptr[temp[th]] # ref[th]
    /\ ref' = [ref EXCEPT ![th] = ptr[temp[th]]]
    /\ new' = [new EXCEPT ![th] = NULL]
    /\ Goto(th, "load")
    /\ UNCHANGED <<tree, call, ret, temp, tp, todo, main>>
Retry(th) ==
    /\ pc[th] = "cas" /\ ptr[temp[th]] # ref[th]
    /\ ref' = [ref EXCEPT ![th] = ptr[temp[th]]]
    /\ nodes' = nodes \ {new[th]}
    /\ node' = [node EXCEPT ![new[th]] = NULL]
    /\ new' = [new EXCEPT ![th] = NULL]
    /\ Goto(th, "load")
    /\ UNCHANGED <<ptr, range, call, ret, temp, tp, todo, main>>

\* atomic_store_ptr(tp->value, value)
Store(th) ==
    /\ pc[th] = "store"
    /\ node' = [node EXCEPT ![tp[th]].value = call[th].value]
    /\ Goto(th, "done")
    /\ UNCHANGED <<nodes, ptr, range, call, ret, temp, tp, new, ref, todo, main>>

\* v = atomic_load_ptr(p->value)
Read(th) ==
    /\ pc[th] = "read"
    /\ ret' = [ret EXCEPT ![th] = node[tp[th]].value]
    /\ Goto(th, "done")
    /\ UNCHANGED <<tree, call, temp, tp, new, ref, todo, main>>

Return(th) ==
    /\ pc[th] = "done"
    /\ call' = [call EXCEPT ![th] = NULL]
    /\ ret' = [ret EXCEPT ![th] = NULL]
    /\ temp' = [temp EXCEPT ![th] = NULL]
    /\ tp' = [tp EXCEPT ![th] = NULL]
    /\ ref' = [ref EXCEPT ![th] = NULL]
    /\ Goto(th, "idle")
    /\ UNCHANGED <<tree, new, todo, main>>

-----------------------------------------------------------------------------
(* main acquires the lock of every thread and calls treebox_free.          *)

Join ==
    /\ ~joined
    /\ \A th \in Threads : pc[th] = "idle" /\ todo[th] = 0
    /\ joined' = TRUE
    /\ work' = <<[do |-> "visit", cell |-> Root]>>
    /\ UNCHANGED <<tree, threads>>

\* The right subtree, the left one, then the node with its atomic pointers.
Visit_NodeFirst ==
    /\ joined /\ work # <<>> /\ Head(work).do = "visit"
    /\ LET n == ptr[Head(work).cell]
       IN  work' = (IF n = NULL THEN <<>>
                    ELSE <<[do |-> "free", node |-> n],
                           [do |-> "visit", cell |-> <<n, "right">>],
                           [do |-> "visit", cell |-> <<n, "left">>]>>) \o Tail(work)
    /\ UNCHANGED <<tree, threads, joined>>
Visit ==
    /\ joined /\ work # <<>> /\ Head(work).do = "visit"
    /\ LET n == ptr[Head(work).cell]
       IN  work' = (IF n = NULL THEN <<>>
                    ELSE <<[do |-> "visit", cell |-> <<n, "right">>],
                           [do |-> "visit", cell |-> <<n, "left">>],
                           [do |-> "free", node |-> n]>>) \o Tail(work)
    /\ UNCHANGED <<tree, threads, joined>>

FreeNode ==
    /\ joined /\ work # <<>> /\ Head(work).do = "free"
    /\ nodes' = nodes \ {Head(work).node}
    /\ node' = [node EXCEPT ![Head(work).node] = NULL]
    /\ work' = Tail(work)
    /\ UNCHANGED <<ptr, range, threads, joined>>

Finished == joined /\ work = <<>> /\ UNCHANGED vars

-----------------------------------------------------------------------------

Step(th) ==
    \/ Descend(th) \/ Match(th) \/ Absent(th) \/ Allocate(th) \/ Link(th) \/ Retry(th)
    \/ Store(th) \/ Read(th) \/ Return(th)

Main == Join \/ Visit \/ FreeNode

Next == (\E th \in Threads : Invoke(th) \/ Step(th)) \/ Main \/ Finished

Spec == Init /\ [][Next]_vars

-----------------------------------------------------------------------------
(* What BstNonblockingProofs proves for every instance.                    *)

Linked == {ptr[c] : c \in Cells} \ {NULL}

\* bst_conc_nblocking.c:13-18, :51-129.  The variables have the types of the C
\* program; a node that is linked has its fields set.
TypeOK ==
    /\ nodes \in SUBSET Nodes
    /\ node \in [Nodes -> [key : Keys, value : Values] \cup {NULL}]
    /\ \A n \in nodes : node[n] \in [key : Keys, value : Values]
    /\ ptr \in [Cells -> Nodes \cup {NULL}]
    /\ range \in [Cells -> SUBSET Keys]
    /\ pc \in [Threads -> {"idle", "load", "cas", "store", "read", "done"}]
    /\ call \in [Threads -> Calls \cup {NULL}]
    /\ ret \in [Threads -> Values \cup {NULL}]
    /\ temp \in [Threads -> Cells \cup {NULL}]
    /\ tp \in [Threads -> Nodes \cup {NULL}]
    /\ new \in [Threads -> Nodes \cup {NULL}]
    /\ ref \in [Threads -> Nodes \cup {NULL}]
    /\ todo \in [Threads -> 0 .. MaxOps]
    /\ joined \in BOOLEAN

\* bst_conc_nblocking.c:51-129, :37-49.  The nodes a thread or treebox_free is about to
\* touch are allocated, and no thread reads a node that is not linked.
NoUseAfterFree ==
    /\ \A th \in Threads :
          /\ temp[th] \notin {NULL, Root} => temp[th][1] \in nodes \cap Linked
          /\ tp[th] # NULL => tp[th] \in nodes \cap Linked
    /\ \A i \in DOMAIN work :
          IF work[i].do = "free" THEN work[i].node \in nodes
          ELSE work[i].cell # Root => work[i].cell[1] \in nodes

\* bst_conc_nblocking.c:71-80.  What has been linked stays linked: no compare-and-swap
\* replaces a node, not even one that expects a node because an earlier attempt
\* has stored it in *ref.
StaysLinked ==
    [][\A c \in Cells : ptr[c] # NULL => ptr'[c] = ptr[c]]_vars

\* bst_conc_nblocking.c:63-82.  Every node allocated is in the tree or is one that one
\* thread is about to link; what a failed attempt allocated has been freed.
NoLeak ==
    ~joined => /\ nodes = Linked \cup ({new[th] : th \in Threads} \ {NULL})
               /\ \A th, u \in Threads : new[th] # NULL =>
                     new[th] \notin Linked /\ (new[u] = new[th] => u = th)

ContentsOf == [k \in {node[n].key : n \in Linked} |->
                  node[CHOOSE n \in Linked : node[n].key = k].value]

Map == IF joined THEN [k \in {} |-> NULL] ELSE ContentsOf

Stage == [th \in Threads |-> IF pc[th] \in {"idle", "done"} THEN pc[th] ELSE "called"]

Atomic == INSTANCE AtomicMap WITH map <- Map, stage <- Stage

\* bst_conc_nblocking.c:51-129.  Insert and lookup are atomic without a lock: an insert
\* takes effect in its compare-and-swap or its store, a lookup in its last load,
\* though the path it came by may have been read long before.
Linearizable == Atomic!Spec

-----------------------------------------------------------------------------

\* Every thread keeps running, as the scheduler sees to.
FairSpec == Spec /\ WF_vars(Main) /\ \A th \in Threads : WF_vars(Step(th) \/ Invoke(th))

==============================================================================
