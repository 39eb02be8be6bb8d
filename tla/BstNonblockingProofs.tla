------------------------ MODULE BstNonblockingProofs ------------------------
(***************************************************************************)
(* For any number of threads, keys and calls, bst_conc_nblocking.c is      *)
(* linearizable: BstNonblocking implements AtomicMap.                      *)
(*                                                                         *)
(* The argument: the pointer a thread looks at never loses the key that    *)
(* brought the thread there.  "range" gives each pointer the keys whose    *)
(* search ends or passes there.  The ranges of empty pointers are disjoint *)
(* and hold no key of the tree: so a thread that finds an empty pointer    *)
(* knows that its key is nowhere, though it has read the path to it at     *)
(* moments that may be long past.                                          *)
(*                                                                         *)
(* And nobody touches a node that has been freed, main's treebox_free      *)
(* included: while the threads run, what they hold is linked, and what is  *)
(* linked is allocated.  When treebox_free runs, each node hangs from one  *)
(* pointer.  So a node that no pending "free" names has not been visited,  *)
(* nor has anything below it; what is to be visited is such a node, and    *)
(* its parent is freed later.                                              *)
(***************************************************************************)
EXTENDS BstNonblocking, TLAPS

-----------------------------------------------------------------------------
(* The inductive invariant. *)

Sides == {"left", "right"}

\* A node halves the range of the pointer it hangs from.
Shape ==
    /\ Linked \subseteq nodes
    /\ range[Root] = Keys
    /\ \A n \in Nodes \ Linked, s \in Sides : ptr[<<n, s>>] = NULL /\ range[<<n, s>>] = {}
    /\ \A c \in Cells : ptr[c] # NULL =>
          /\ node[ptr[c]].key \in range[c]
          /\ range[<<ptr[c], "left">>]  = {k \in range[c] : k < node[ptr[c]].key}
          /\ range[<<ptr[c], "right">>] = {k \in range[c] : k > node[ptr[c]].key}

\* No key has two places, present or free.
Ranges ==
    /\ \A c, d \in Cells : c # d /\ ptr[c] = NULL /\ ptr[d] = NULL => range[c] \cap range[d] = {}
    /\ \A n \in Linked, c \in Cells : ptr[c] = NULL => node[n].key \notin range[c]
    /\ \A m, n \in Linked : node[m].key = node[n].key => m = n

\* Where a thread is, and what it still expects of an earlier failure: the node in
\* *ref is above it, and so cannot be what the pointer it looks at holds.
Place(th) ==
    /\ pc[th] # "idle" => call[th] \in Calls
    /\ pc[th] \in {"load", "cas"} => temp[th] \in Cells /\ call[th].key \in range[temp[th]]
    /\ pc[th] = "cas" =>
          /\ call[th].op = "insert"
          /\ new[th] \in nodes \ Linked
          /\ node[new[th]] = [key |-> call[th].key, value |-> call[th].value]
    /\ pc[th] # "cas" => new[th] = NULL
    /\ pc[th] = "store" => call[th].op = "insert"
    /\ pc[th] = "read" => call[th].op = "lookup"
    /\ pc[th] \in {"store", "read"} => tp[th] \in Linked /\ node[tp[th]].key = call[th].key
    /\ pc[th] # "done" => ret[th] = NULL
    /\ ref[th] # NULL => ref[th] \in Linked
    /\ pc[th] = "load" /\ ref[th] # NULL =>
          ptr[temp[th]] = ref[th] \/ node[ref[th]].key \notin range[temp[th]]
    /\ pc[th] = "cas" /\ ref[th] # NULL => node[ref[th]].key \notin range[temp[th]]

\* Once main has joined, nobody is in a call or will make another.
Retired(th) == pc[th] = "idle" /\ todo[th] = 0

Inv ==
    /\ TypeOK
    /\ NoLeak
    /\ ~joined => Shape /\ Ranges /\ \A th \in Threads : Place(th)
    /\ joined => \A th \in Threads : Retired(th)

-----------------------------------------------------------------------------

LEMMA InitInv == Init => Inv
<1> SUFFICES ASSUME Init PROVE Inv
  OBVIOUS
<1>1. \A c \in Cells : ptr[c] = NULL
  BY DEF Init
<1>2. Linked = {}
  BY <1>1 DEF Linked
<1>3. Root \in Cells
  BY DEF Cells
<1>4. TypeOK
  <2>1. todo \in [Threads -> 0 .. MaxOps]
    BY NonblockingAssumption DEF Init
  <2>2. range \in [Cells -> SUBSET Keys]
    BY DEF Init
  <2> QED
    BY <2>1, <2>2 DEF Init, TypeOK
<1>5. NoLeak
  BY <1>2 DEF Init, NoLeak
<1>6. Shape
  <2>1. \A n \in Nodes, s \in Sides : <<n, s>> \in Cells /\ <<n, s>> # Root
    BY NonblockingAssumption DEF Cells, Sides
  <2>2. range[Root] = Keys
    BY <1>3 DEF Init
  <2>3. \A n \in Nodes, s \in Sides : ptr[<<n, s>>] = NULL /\ range[<<n, s>>] = {}
    BY <1>1, <2>1 DEF Init
  <2> QED
    BY <1>1, <1>2, <2>2, <2>3 DEF Shape
<1>7. Ranges
  BY <1>2, <1>3 DEF Init, Ranges
<1>8. \A th \in Threads : Place(th)
  BY <1>2 DEF Init, Place
<1> QED
  BY <1>4, <1>5, <1>6, <1>7, <1>8 DEF Inv, Init

-----------------------------------------------------------------------------
(* What the steps have in common. *)

OthersStay(th) ==
    \A u \in Threads \ {th} :
        /\ pc'[u] = pc[u] /\ call'[u] = call[u] /\ ret'[u] = ret[u] /\ temp'[u] = temp[u]
        /\ tp'[u] = tp[u] /\ new'[u] = new[u] /\ ref'[u] = ref[u]

LEMMA StillRunning ==
    ASSUME Inv, NEW th \in Threads, pc[th] # "idle" \/ todo[th] > 0
    PROVE  ~joined
  BY DEF Inv, Retired

\* A step that links nothing and changes no key leaves a search tree.
LEMMA TreeStays ==
    ASSUME Inv, ~joined, ptr' = ptr, range' = range, Linked \subseteq nodes',
           \A n \in Linked : node'[n].key = node[n].key
    PROVE  Linked' = Linked /\ Shape' /\ Ranges'
<1>1. Linked' = Linked
  BY DEF Linked
<1>2. \A c \in Cells : ptr[c] # NULL => ptr[c] \in Linked
  BY DEF Linked
<1>3. Shape'
  BY <1>1, <1>2 DEF Inv, Shape
<1>4. Ranges'
  BY <1>1 DEF Inv, Ranges
<1> QED
  BY <1>1, <1>3, <1>4

\* A thread keeps its place if links and keys stay, and its own new node too.
LEMMA Bystander ==
    ASSUME Inv, ~joined, NEW u \in Threads,
           pc'[u] = pc[u], call'[u] = call[u], ret'[u] = ret[u], temp'[u] = temp[u],
           tp'[u] = tp[u], new'[u] = new[u], ref'[u] = ref[u],
           Linked \subseteq Linked', \A n \in Linked : node'[n].key = node[n].key,
           \A c \in Cells : ptr[c] # NULL => ptr'[c] = ptr[c],
           \A c \in Cells : range[c] # {} => range'[c] = range[c],
           new[u] # NULL => new[u] \in nodes' \ Linked' /\ node'[new[u]] = node[new[u]]
    PROVE  Place(u)'
<1>1. Place(u)
  BY DEF Inv
<1>2. pc[u] = "cas" => new[u] # NULL
  BY <1>1, NonblockingAssumption DEF Inv, TypeOK, Place
<1>3. ref[u] # NULL => ref[u] \in Linked /\ node'[ref[u]].key = node[ref[u]].key
  BY <1>1 DEF Place
<1>4. pc[u] \in {"load", "cas"} => temp[u] \in Cells /\ range'[temp[u]] = range[temp[u]]
  BY <1>1 DEF Place
<1>5. pc[u] = "load" /\ ref[u] # NULL =>
         ptr'[temp[u]] = ref[u] \/ node'[ref[u]].key \notin range'[temp[u]]
  BY <1>1, <1>3, <1>4 DEF Place
<1> QED
  BY <1>1, <1>2, <1>3, <1>4, <1>5 DEF Place

\* A step of one thread that writes no memory has only its own place to account for.
LEMMA QuietStep ==
    ASSUME Inv, ~joined, NEW th \in Threads, UNCHANGED <<tree, new, joined>>, OthersStay(th),
           TypeOK', Place(th)'
    PROVE  Inv'
<1>1. Linked' = Linked /\ Shape' /\ Ranges'
  BY TreeStays DEF Inv, Shape, tree
<1>2. NoLeak'
  BY <1>1 DEF Inv, NoLeak, tree
<1>3. ASSUME NEW u \in Threads \ {th} PROVE Place(u)'
  <2>1. new[u] # NULL => new[u] \in nodes \ Linked
    BY DEF Inv, NoLeak
  <2> QED
    BY <1>1, <2>1, Bystander DEF OthersStay, tree
<1> QED
  BY <1>1, <1>2, <1>3 DEF Inv

-----------------------------------------------------------------------------
(* The steps, one lemma each. *)

LEMMA InvokeInv == ASSUME Inv, NEW th \in Threads, Invoke(th) PROVE Inv'
<1>1. ~joined
  BY StillRunning DEF Invoke
<1>2. PICK c \in Calls : call' = [call EXCEPT ![th] = c]
  BY DEF Invoke
<1>3. TypeOK'
  <2>1. todo' \in [Threads -> 0 .. MaxOps]
    <3>1. todo[th] - 1 \in 0 .. MaxOps
      BY NonblockingAssumption DEF Inv, TypeOK, Invoke
    <3> QED
      BY <3>1 DEF Inv, TypeOK, Invoke
  <2>2. Root \in Cells
    BY DEF Cells
  <2> QED
    BY <1>2, <2>1, <2>2 DEF Inv, TypeOK, Invoke, Goto, tree, main
<1>4. OthersStay(th)
  BY <1>2 DEF Invoke, Goto, OthersStay, Inv, TypeOK
<1>5. Place(th)'
  <2>1. /\ pc'[th] = "load" /\ call'[th] = c /\ temp'[th] = Root /\ ref'[th] = NULL
        /\ new'[th] = new[th] /\ ret'[th] = ret[th]
    BY <1>2 DEF Invoke, Goto, Inv, TypeOK
  <2>2. new[th] = NULL /\ ret[th] = NULL
    BY <1>1 DEF Inv, Place, Invoke
  <2>3. range'[Root] = Keys /\ Root \in Cells
    BY <1>1 DEF Cells, Inv, Shape, Invoke, tree
  <2>4. c.key \in Keys
    BY DEF Calls
  <2> QED
    BY <2>1, <2>2, <2>3, <2>4 DEF Place
<1> QED
  BY <1>1, <1>3, <1>4, <1>5, QuietStep DEF Invoke, main

LEMMA DescendInv == ASSUME Inv, NEW th \in Threads, Descend(th) PROVE Inv'
<1> PICK n, side : /\ n = ptr[temp[th]]
                   /\ side = IF call[th].key < node[n].key THEN "left" ELSE "right"
  OBVIOUS
<1>1. ~joined
  BY StillRunning DEF Descend
<1>2. /\ temp[th] \in Cells /\ call[th].key \in range[temp[th]] /\ call[th] \in Calls
      /\ n # NULL /\ n \in Nodes /\ node[n].key # call[th].key
  <2>1. temp[th] \in Cells /\ call[th].key \in range[temp[th]] /\ call[th] \in Calls
    BY <1>1 DEF Descend, Inv, Place
  <2>2. n # NULL /\ node[n].key # call[th].key
    BY DEF Descend, Found
  <2> QED
    BY <2>1, <2>2 DEF Inv, TypeOK
<1>3. temp' = [temp EXCEPT ![th] = <<n, side>>] /\ <<n, side>> \in Cells
  BY <1>2 DEF Descend, Found, Cells
<1>4. node[n].key \in Int /\ call[th].key \in Int /\ \A k \in range[temp[th]] : k \in Int
  BY <1>1, <1>2, NonblockingAssumption DEF Inv, Shape, TypeOK, Calls
<1>5. /\ call[th].key \in range[<<n, side>>] /\ node[n].key \notin range[<<n, side>>]
      /\ range[<<n, side>>] \subseteq range[temp[th]]
  <2>1. /\ range[<<n, "left">>]  = {k \in range[temp[th]] : k < node[n].key}
        /\ range[<<n, "right">>] = {k \in range[temp[th]] : k > node[n].key}
    BY <1>1, <1>2 DEF Inv, Shape
  <2>2. CASE call[th].key < node[n].key
    BY <1>2, <1>4, <2>1, <2>2
  <2>3. CASE ~(call[th].key < node[n].key)
    BY <1>2, <1>4, <2>1, <2>3
  <2> QED
    BY <2>2, <2>3
<1>6. TypeOK'
  BY <1>3 DEF Inv, TypeOK, Descend, tree, main
<1>7. OthersStay(th)
  BY DEF Descend, OthersStay, Inv, TypeOK
<1>8. Place(th)'
  <2>1. /\ pc' = pc /\ call' = call /\ ret' = ret /\ tp' = tp /\ new' = new /\ ref' = ref
        /\ pc[th] = "load" /\ temp'[th] = <<n, side>>
        /\ nodes' = nodes /\ node' = node /\ ptr' = ptr /\ range' = range
    BY <1>3 DEF Descend, tree, Inv, TypeOK
  <2>2. /\ new[th] = NULL /\ ret[th] = NULL /\ (ref[th] # NULL => ref[th] \in Linked)
        /\ ref[th] # NULL => n = ref[th] \/ node[ref[th]].key \notin range[temp[th]]
    BY <1>1, <2>1 DEF Inv, Place
  <2>3. Linked' = Linked
    BY <2>1 DEF Linked
  <2> QED
    BY <1>2, <1>3, <1>5, <2>1, <2>2, <2>3 DEF Place
<1> QED
  BY <1>1, <1>6, <1>7, <1>8, QuietStep DEF Descend, main

LEMMA MatchInv == ASSUME Inv, NEW th \in Threads, Match(th) PROVE Inv'
<1>1. ~joined
  BY StillRunning DEF Match
<1>2. /\ temp[th] \in Cells /\ Found(th) \in Linked /\ Found(th) \in Nodes
      /\ call[th] \in Calls
  <2>1. temp[th] \in Cells /\ call[th] \in Calls
    BY <1>1 DEF Match, Inv, Place
  <2>2. ptr[temp[th]] # NULL
    BY DEF Match, Found
  <2>3. ptr[temp[th]] \in Linked
    BY <2>1, <2>2 DEF Linked
  <2> QED
    BY <2>1, <2>2, <2>3 DEF Found, Inv, TypeOK
<1>3. call[th].op \in {"insert", "lookup"}
  BY <1>2 DEF Calls
<1>4. TypeOK'
  BY <1>2 DEF Inv, TypeOK, Match, Goto, tree, main
<1>5. OthersStay(th)
  BY DEF Match, Goto, OthersStay, Inv, TypeOK
<1>6. Place(th)'
  <2>1. /\ pc'[th] = IF call[th].op = "insert" THEN "store" ELSE "read"
        /\ call' = call /\ ret' = ret /\ temp' = temp /\ tp'[th] = Found(th) /\ new' = new
        /\ ref' = ref /\ nodes' = nodes /\ node' = node /\ ptr' = ptr /\ range' = range
        /\ pc[th] = "load" /\ node[Found(th)].key = call[th].key
    BY DEF Match, Goto, tree, Inv, TypeOK
  <2>2. new[th] = NULL /\ ret[th] = NULL /\ (ref[th] # NULL => ref[th] \in Linked)
    BY <1>1, <2>1 DEF Inv, Place
  <2>3. Linked' = Linked
    BY <2>1 DEF Linked
  <2> QED
    BY <1>2, <1>3, <2>1, <2>2, <2>3 DEF Place
<1> QED
  BY <1>1, <1>4, <1>5, <1>6, QuietStep DEF Match, main

LEMMA AbsentInv == ASSUME Inv, NEW th \in Threads, Absent(th) PROVE Inv'
<1>1. ~joined
  BY StillRunning DEF Absent
<1>2. TypeOK'
  BY DEF Inv, TypeOK, Absent, Goto, tree, main
<1>3. OthersStay(th)
  BY DEF Absent, Goto, OthersStay, Inv, TypeOK
<1>4. Place(th)'
  <2>1. Linked' = Linked
    BY DEF Linked, Absent, tree
  <2>2. Place(th) /\ pc[th] = "load"
    BY <1>1 DEF Inv, Absent
  <2>3. pc'[th] = "done" /\ call'[th] = call[th] /\ ret'[th] = ret[th] /\ new'[th] = new[th] /\ ref'[th] = ref[th]
    BY DEF Absent, Goto, Inv, TypeOK
  <2> QED
    BY <2>1, <2>2, <2>3 DEF Place
<1> QED
  BY <1>1, <1>2, <1>3, <1>4, QuietStep DEF Absent, main

LEMMA ReadInv == ASSUME Inv, NEW th \in Threads, Read(th) PROVE Inv'
<1>1. ~joined
  BY StillRunning DEF Read
<1>2. node[tp[th]].value \in Values
  BY <1>1 DEF Read, Inv, Place, Shape, TypeOK
<1>3. TypeOK'
  BY <1>2 DEF Inv, TypeOK, Read, Goto, tree, main
<1>4. OthersStay(th)
  BY DEF Read, Goto, OthersStay, Inv, TypeOK
<1>5. Place(th)'
  <2>1. Linked' = Linked
    BY DEF Linked, Read, tree
  <2>2. Place(th) /\ pc[th] = "read"
    BY <1>1 DEF Inv, Read
  <2>3. pc'[th] = "done" /\ call'[th] = call[th] /\ new'[th] = new[th] /\ ref'[th] = ref[th]
    BY DEF Read, Goto, Inv, TypeOK
  <2> QED
    BY <2>1, <2>2, <2>3 DEF Place
<1> QED
  BY <1>1, <1>3, <1>4, <1>5, QuietStep DEF Read, main

LEMMA ReturnInv == ASSUME Inv, NEW th \in Threads, Return(th) PROVE Inv'
<1>1. ~joined
  BY StillRunning DEF Return
<1>2. TypeOK'
  BY DEF Inv, TypeOK, Return, Goto, tree, main
<1>3. OthersStay(th)
  BY DEF Return, Goto, OthersStay, Inv, TypeOK
<1>4. Place(th)'
  <2>1. new[th] = NULL
    BY <1>1 DEF Return, Inv, Place
  <2>2. pc'[th] = "idle" /\ ret'[th] = NULL /\ new'[th] = NULL /\ ref'[th] = NULL
    BY <2>1 DEF Return, Goto, Inv, TypeOK
  <2> QED
    BY <2>2 DEF Place
<1> QED
  BY <1>1, <1>2, <1>3, <1>4, QuietStep DEF Return, main

LEMMA RetryInv == ASSUME Inv, NEW th \in Threads, Retry(th) PROVE Inv'
<1> PICK p : p = new[th]
  OBVIOUS
<1>1. ~joined /\ joined' = joined
  BY StillRunning DEF Retry, main
<1>2. /\ p \in nodes \ Linked /\ p \in Nodes /\ p # NULL
      /\ temp[th] \in Cells /\ call[th] \in Calls /\ call[th].key \in range[temp[th]]
      /\ ret[th] = NULL
  <2>1. /\ p \in nodes \ Linked /\ temp[th] \in Cells /\ call[th] \in Calls
        /\ call[th].key \in range[temp[th]] /\ ret[th] = NULL
    BY <1>1 DEF Retry, Inv, Place
  <2> QED
    BY <2>1, NonblockingAssumption DEF Inv, TypeOK
<1>3. /\ nodes' = nodes \ {p} /\ node' = [node EXCEPT ![p] = NULL] /\ ptr' = ptr /\ range' = range
      /\ new' = [new EXCEPT ![th] = NULL]
  BY DEF Retry
<1>4. \A n \in Nodes \ {p} : node'[n] = node[n]
  BY <1>2, <1>3 DEF Inv, TypeOK
<1>5. Linked \subseteq nodes \ {p}
  BY <1>1, <1>2 DEF Inv, Shape
<1>6. Linked' = Linked /\ Shape' /\ Ranges'
  <2>1. \A n \in Linked : node'[n].key = node[n].key
    BY <1>4, <1>5 DEF Inv, TypeOK
  <2> QED
    BY <1>1, <1>3, <1>5, <2>1, TreeStays
<1>7. TypeOK'
  <2>1. ptr[temp[th]] \in Nodes \cup {NULL}
    BY <1>2 DEF Inv, TypeOK
  <2>2. /\ nodes' \in SUBSET Nodes /\ \A n \in nodes' : node'[n] \in [key : Keys, value : Values]
        /\ node' \in [Nodes -> [key : Keys, value : Values] \cup {NULL}]
    BY <1>2, <1>3, <1>4 DEF Inv, TypeOK
  <2> QED
    BY <2>1, <2>2 DEF Inv, TypeOK, Retry, Goto, main
<1>8. OthersStay(th)
  BY DEF Retry, Goto, OthersStay, Inv, TypeOK
<1>9. NoLeak'
  <2>1. \A u \in Threads : new'[u] = IF u = th THEN NULL ELSE new[u]
    BY <1>3 DEF Inv, TypeOK
  <2>2. \A u \in Threads \ {th} : new[u] # p
    BY <1>1, <1>2 DEF Inv, NoLeak
  <2>3. nodes' = Linked' \cup ({new'[u] : u \in Threads} \ {NULL})
    BY <1>1, <1>2, <1>3, <1>6, <2>1, <2>2 DEF Inv, NoLeak
  <2>4. \A t, u \in Threads : new'[t] # NULL =>
           new'[t] \notin Linked' /\ (new'[u] = new'[t] => u = t)
    BY <1>1, <1>6, <2>1 DEF Inv, NoLeak
  <2> QED
    BY <2>3, <2>4 DEF NoLeak
<1>10. Place(th)'
  <2>1. /\ pc'[th] = "load" /\ call' = call /\ ret' = ret /\ temp' = temp /\ new'[th] = NULL
        /\ ref'[th] = ptr[temp[th]]
    BY DEF Retry, Goto, Inv, TypeOK
  <2>2. ref'[th] # NULL => ref'[th] \in Linked'
    BY <1>2, <1>6, <2>1 DEF Linked
  <2> QED
    BY <1>2, <1>3, <2>1, <2>2 DEF Place
<1>11. ASSUME NEW u \in Threads \ {th} PROVE Place(u)'
  <2>1. new[u] # NULL => new[u] \in nodes \ Linked /\ new[u] # p
    BY <1>1, <1>2 DEF Inv, NoLeak
  <2>2. new[u] # NULL => new[u] \in nodes' \ Linked' /\ node'[new[u]] = node[new[u]]
    BY <1>3, <1>4, <1>6, <2>1 DEF Inv, TypeOK
  <2>3. \A n \in Linked : node'[n].key = node[n].key
    BY <1>4, <1>5 DEF Inv, TypeOK
  <2> QED
    BY <1>1, <1>3, <1>6, <1>8, <2>2, <2>3, Bystander DEF OthersStay
<1> QED
  BY <1>1, <1>6, <1>7, <1>9, <1>10, <1>11 DEF Inv

LEMMA StoreInv == ASSUME Inv, NEW th \in Threads, Store(th) PROVE Inv'
<1> PICK p, v : p = tp[th] /\ v = call[th].value
  OBVIOUS
<1>1. ~joined /\ joined' = joined
  BY StillRunning DEF Store, main
<1>2. /\ p \in Linked /\ p \in nodes /\ p \in Nodes /\ call[th] \in Calls /\ call[th].op = "insert"
  BY <1>1 DEF Store, Inv, Place, Shape, TypeOK
<1>3. v \in Values /\ node[p] \in [key : Keys, value : Values]
  BY <1>2 DEF Calls, Inv, TypeOK
<1>4. /\ nodes' = nodes /\ ptr' = ptr /\ range' = range /\ new' = new
      /\ node' = [node EXCEPT ![p].value = v]
  BY DEF Store
<1>5. /\ \A n \in Nodes \ {p} : node'[n] = node[n]
      /\ node'[p].key = node[p].key /\ node'[p] \in [key : Keys, value : Values]
  <2>1. node'[p] = [node[p] EXCEPT !.value = v] /\ \A n \in Nodes \ {p} : node'[n] = node[n]
    BY <1>2, <1>4 DEF Inv, TypeOK
  <2> QED
    BY <1>3, <2>1
<1>6. \A n \in Linked : node'[n].key = node[n].key
  BY <1>1, <1>5 DEF Inv, Shape, TypeOK
<1>7. Linked' = Linked /\ Shape' /\ Ranges'
  BY <1>1, <1>4, <1>6, TreeStays DEF Inv, Shape
<1>8. TypeOK'
  <2>1. /\ \A n \in nodes' : node'[n] \in [key : Keys, value : Values]
        /\ node' \in [Nodes -> [key : Keys, value : Values] \cup {NULL}]
    BY <1>2, <1>4, <1>5 DEF Inv, TypeOK
  <2> QED
    BY <2>1 DEF Inv, TypeOK, Store, Goto, main
<1>9. OthersStay(th)
  BY DEF Store, Goto, OthersStay, Inv, TypeOK
<1>10. NoLeak'
  BY <1>4, <1>7, <1>1 DEF Inv, NoLeak
<1>11. Place(th)'
  <2>1. pc'[th] = "done" /\ call' = call /\ new' = new /\ ref' = ref
    BY DEF Store, Goto, Inv, TypeOK
  <2>2. new[th] = NULL /\ (ref[th] # NULL => ref[th] \in Linked)
    BY <1>1 DEF Store, Inv, Place
  <2> QED
    BY <1>2, <1>7, <2>1, <2>2 DEF Place
<1>12. ASSUME NEW u \in Threads \ {th} PROVE Place(u)'
  <2>1. new[u] # NULL => new[u] \in nodes' \ Linked' /\ new[u] \in Nodes \ {p}
    BY <1>1, <1>2, <1>4, <1>7 DEF Inv, NoLeak, TypeOK
  <2> QED
    BY <1>1, <1>4, <1>5, <1>6, <1>7, <1>9, <2>1, Bystander DEF OthersStay
<1> QED
  BY <1>1, <1>7, <1>8, <1>10, <1>11, <1>12 DEF Inv

LEMMA JoinInv == ASSUME Inv, Join PROVE Inv'
<1>1. TypeOK'
  BY DEF Inv, TypeOK, Join, tree, threads
<1> QED
  BY <1>1 DEF Inv, NoLeak, Join, tree, threads, Retired

LEMMA VisitInv == ASSUME Inv, Visit PROVE Inv'
<1>1. TypeOK'
  BY DEF Inv, TypeOK, Visit, tree, threads
<1> QED
  BY <1>1 DEF Inv, NoLeak, Visit, tree, threads, Retired

LEMMA FreeNodeInv == ASSUME Inv, FreeNode PROVE Inv'
<1> PICK n : n = Head(work).node
  OBVIOUS
<1>1. nodes' = nodes \ {n} /\ node' = [node EXCEPT ![n] = NULL]
  BY DEF FreeNode
<1>2. \A m \in nodes \ {n} : node'[m] = node[m]
  BY <1>1 DEF Inv, TypeOK
<1>3. /\ nodes' \in SUBSET Nodes /\ \A m \in nodes' : node'[m] \in [key : Keys, value : Values]
      /\ node' \in [Nodes -> [key : Keys, value : Values] \cup {NULL}]
  BY <1>1, <1>2 DEF Inv, TypeOK
<1>4. TypeOK'
  BY <1>3 DEF Inv, TypeOK, FreeNode, threads
<1> QED
  BY <1>4 DEF Inv, NoLeak, FreeNode, threads, Retired

LEMMA StutterInv == ASSUME Inv, UNCHANGED vars PROVE Inv'
<1> USE DEF vars, tree, threads, main
<1>1. TypeOK' /\ NoLeak'
  BY DEF Inv, TypeOK, NoLeak, Linked
<1>2. Linked' = Linked
  BY DEF Linked
<1>3. Shape' = Shape
  BY <1>2 DEF Shape
<1>4. Ranges' = Ranges
  BY <1>2 DEF Ranges
<1>5. \A th \in Threads : Place(th)' = Place(th) /\ Retired(th)' = Retired(th)
  BY <1>2 DEF Place, Retired
<1> QED
  BY <1>1, <1>3, <1>4, <1>5 DEF Inv

LEMMA AllocateInv == ASSUME Inv, NEW th \in Threads, Allocate(th) PROVE Inv'
<1>1. ~joined /\ joined' = joined
  BY StillRunning DEF Allocate, main
<1> PICK p \in Candidates(Nodes \ nodes) :
          /\ nodes' = nodes \cup {p}
          /\ node' = [node EXCEPT ![p] = [key |-> call[th].key, value |-> call[th].value]]
          /\ ptr' = [ptr EXCEPT ![<<p, "left">>] = NULL, ![<<p, "right">>] = NULL]
          /\ new' = [new EXCEPT ![th] = p]
  BY DEF Allocate
<1>2. p \in Nodes /\ p \notin nodes /\ p # NULL /\ p \notin Linked
  <2>1. p \in Nodes \ nodes
    BY NonblockingAssumption
  <2> QED
    BY <1>1, <2>1, NonblockingAssumption DEF Inv, Shape
<1>3. ptr' = ptr
  <2>1. ptr[<<p, "left">>] = NULL /\ ptr[<<p, "right">>] = NULL
    BY <1>1, <1>2 DEF Inv, Shape, Sides
  <2> QED
    BY <2>1 DEF Inv, TypeOK
<1>4. /\ temp[th] \in Cells /\ call[th] \in Calls /\ call[th].key \in range[temp[th]]
      /\ ret[th] = NULL /\ new[th] = NULL /\ ptr[temp[th]] = NULL
      /\ (ref[th] # NULL => ref[th] \in Linked)
      /\ (ref[th] # NULL => ptr[temp[th]] = ref[th] \/ node[ref[th]].key \notin range[temp[th]])
  BY <1>1 DEF Allocate, Found, Inv, Place
<1>5. call[th].key \in Keys /\ call[th].value \in Values
  BY <1>4 DEF Allocate, Calls
<1>6. /\ \A n \in Nodes \ {p} : node'[n] = node[n]
      /\ node'[p] = [key |-> call[th].key, value |-> call[th].value]
  BY <1>2 DEF Inv, TypeOK
<1>7. \A n \in Linked : n \in Nodes /\ n # p /\ n \in nodes
  BY <1>1, <1>2 DEF Inv, Shape, TypeOK
<1>8. range' = range
  BY DEF Allocate
<1>9. Linked' = Linked /\ Shape' /\ Ranges'
  <2>1. \A n \in Linked : node'[n].key = node[n].key
    BY <1>6, <1>7
  <2>2. Linked \subseteq nodes'
    BY <1>7
  <2> QED
    BY <1>1, <1>3, <1>8, <2>1, <2>2, TreeStays
<1>10. TypeOK'
  <2>1. [key |-> call[th].key, value |-> call[th].value] \in [key : Keys, value : Values]
    BY <1>5
  <2>2. nodes' \in SUBSET Nodes /\ new' \in [Threads -> Nodes \cup {NULL}]
    BY <1>2 DEF Inv, TypeOK
  <2>3. \A n \in nodes' : node'[n] \in [key : Keys, value : Values]
    BY <1>2, <1>6, <2>1 DEF Inv, TypeOK
  <2>4. node' \in [Nodes -> [key : Keys, value : Values] \cup {NULL}]
    BY <2>1 DEF Inv, TypeOK
  <2> QED
    BY <1>3, <2>2, <2>3, <2>4 DEF Inv, TypeOK, Allocate, Goto, main
<1>11. OthersStay(th)
  BY DEF Allocate, Goto, OthersStay, Inv, TypeOK
<1>12. NoLeak'
  <2>1. \A u \in Threads : new'[u] = IF u = th THEN p ELSE new[u]
    BY DEF Inv, TypeOK
  <2>2. \A u \in Threads : new[u] # p
    BY <1>1, <1>2 DEF Inv, NoLeak
  <2>3. nodes' = Linked' \cup ({new'[u] : u \in Threads} \ {NULL})
    BY <1>1, <1>2, <1>4, <1>9, <2>1, <2>2 DEF Inv, NoLeak
  <2>4. \A t, u \in Threads : new'[t] # NULL =>
           new'[t] \notin Linked' /\ (new'[u] = new'[t] => u = t)
    BY <1>1, <1>2, <1>9, <2>1, <2>2 DEF Inv, NoLeak
  <2> QED
    BY <2>3, <2>4 DEF NoLeak
<1>13. Place(th)'
  <2>1. /\ pc'[th] = "cas" /\ call' = call /\ ret' = ret /\ temp' = temp /\ new'[th] = p
        /\ ref' = ref
    BY DEF Allocate, Goto, Inv, TypeOK
  <2>2. ref[th] # NULL => node'[ref[th]].key \notin range'[temp[th]]
    BY <1>4, <1>6, <1>7, <1>8
  <2>3. new'[th] \in nodes' \ Linked' /\ call[th].op = "insert"
    BY <1>2, <1>9, <2>1 DEF Allocate
  <2> QED
    BY <1>4, <1>6, <1>8, <1>9, <2>1, <2>2, <2>3 DEF Place
<1>14. ASSUME NEW u \in Threads \ {th} PROVE Place(u)'
  <2>1. new[u] # NULL => new[u] \in nodes \ Linked /\ new[u] \in Nodes /\ new[u] # p
    BY <1>1, <1>2 DEF Inv, NoLeak, TypeOK
  <2>2. new[u] # NULL => new[u] \in nodes' \ Linked' /\ node'[new[u]] = node[new[u]]
    BY <1>6, <1>9, <2>1
  <2>3. \A n \in Linked : node'[n].key = node[n].key
    BY <1>6, <1>7
  <2> QED
    BY <1>1, <1>3, <1>8, <1>9, <1>11, <2>2, <2>3, Bystander DEF OthersStay
<1> QED
  BY <1>1, <1>9, <1>10, <1>12, <1>13, <1>14 DEF Inv

\* A compare-and-swap succeeds on an empty pointer only: the node an earlier attempt
\* has left in *ref is above the pointer, where its key cannot come again.
LEMMA ExpectsNull ==
    ASSUME Inv, ~joined, NEW th \in Threads, pc[th] = "cas", ptr[temp[th]] = ref[th]
    PROVE  ptr[temp[th]] = NULL
<1> SUFFICES ASSUME ptr[temp[th]] # NULL PROVE FALSE
  OBVIOUS
<1>1. temp[th] \in Cells /\ node[ref[th]].key \notin range[temp[th]]
  BY DEF Inv, Place
<1>2. node[ptr[temp[th]]].key \in range[temp[th]]
  BY <1>1 DEF Inv, Shape
<1> QED
  BY <1>1, <1>2

LEMMA LinkInv == ASSUME Inv, NEW th \in Threads, Link(th) PROVE Inv'
<1> PICK p, c, k : p = new[th] /\ c = temp[th] /\ k = call[th].key
  OBVIOUS
<1> PICK l, r : l = <<p, "left">> /\ r = <<p, "right">>
  OBVIOUS
<1>1. ~joined /\ joined' = joined
  BY StillRunning DEF Link, main
<1>2. /\ p \in nodes \ Linked /\ c \in Cells /\ k \in range[c] /\ call[th] \in Calls
      /\ node[p] = [key |-> k, value |-> call[th].value] /\ ret[th] = NULL
      /\ (ref[th] # NULL => ref[th] \in Linked)
  BY <1>1 DEF Link, Inv, Place
<1>3. p \in Nodes /\ p # NULL /\ node[p].key = k
  BY <1>2, NonblockingAssumption DEF Inv, TypeOK
<1>4. ptr[c] = NULL
  BY <1>1, ExpectsNull DEF Link
<1>5. /\ l \in Cells /\ r \in Cells /\ l # r
      /\ ptr[l] = NULL /\ ptr[r] = NULL /\ range[l] = {} /\ range[r] = {}
  <2>1. l \in Cells /\ r \in Cells /\ l # r
    BY <1>3 DEF Cells
  <2> QED
    BY <1>1, <1>2, <1>3, <2>1 DEF Inv, Shape, Sides
<1>6. c # l /\ c # r
  BY <1>2, <1>5
<1>7. /\ ptr' = [ptr EXCEPT ![c] = p] /\ nodes' = nodes /\ node' = node
      /\ range' = [range EXCEPT ![l] = {j \in range[c] : j < k}, ![r] = {j \in range[c] : j > k}]
      /\ new' = [new EXCEPT ![th] = NULL]
  BY DEF Link
<1>8. ptr'[c] = p /\ \A d \in Cells \ {c} : ptr'[d] = ptr[d]
  BY <1>2, <1>7 DEF Inv, TypeOK
<1>9. /\ range'[l] = {j \in range[c] : j < k} /\ range'[r] = {j \in range[c] : j > k}
      /\ \A d \in Cells \ {l, r} : range'[d] = range[d]
  BY <1>5, <1>7 DEF Inv, TypeOK
<1>10. Linked' = Linked \cup {p}
  BY <1>2, <1>3, <1>4, <1>8 DEF Linked
<1>11. range[c] \subseteq Keys /\ k \in Int /\ \A j \in range[c] : j \in Int
  BY <1>2, NonblockingAssumption DEF Inv, TypeOK
<1>12. /\ range'[l] \cap range'[r] = {} /\ range'[l] \subseteq range[c] \ {k}
       /\ range'[r] \subseteq range[c] \ {k}
  BY <1>9, <1>11
<1>13. Shape'
  <2>1. Linked' \subseteq nodes'
    BY <1>1, <1>2, <1>7, <1>10 DEF Inv, Shape
  <2>2. range'[Root] = Keys
    <3>1. Root \in Cells /\ Root # l /\ Root # r
      BY <1>3, NonblockingAssumption DEF Cells
    <3> QED
      BY <1>1, <1>9, <3>1 DEF Inv, Shape
  <2>3. ASSUME NEW n \in Nodes \ Linked', NEW s \in Sides
        PROVE  ptr'[<<n, s>>] = NULL /\ range'[<<n, s>>] = {}
    <3>1. n \in Nodes \ Linked /\ n # p /\ <<n, s>> \in Cells
      BY <1>10 DEF Cells, Sides
    <3>2. ptr[<<n, s>>] = NULL /\ range[<<n, s>>] = {}
      BY <1>1, <3>1 DEF Inv, Shape
    <3>3. <<n, s>> # c /\ <<n, s>> # l /\ <<n, s>> # r
      BY <1>2, <3>1, <3>2
    <3> QED
      BY <1>8, <1>9, <3>1, <3>2, <3>3
  <2>4. ASSUME NEW d \in Cells, ptr'[d] # NULL
        PROVE  /\ node'[ptr'[d]].key \in range'[d]
               /\ range'[<<ptr'[d], "left">>]  = {j \in range'[d] : j < node'[ptr'[d]].key}
               /\ range'[<<ptr'[d], "right">>] = {j \in range'[d] : j > node'[ptr'[d]].key}
    <3>1. CASE d = c
      <4>1. ptr'[d] = p /\ range'[d] = range[c] /\ node'[p].key = k
        BY <1>2, <1>3, <1>6, <1>7, <1>8, <1>9, <3>1
      <4> QED
        BY <1>2, <1>9, <4>1
    <3>2. CASE d # c
      <4>1. ptr'[d] = ptr[d] /\ d # l /\ d # r /\ range'[d] = range[d]
        BY <1>5, <1>8, <1>9, <2>4, <3>2
      <4>2. ptr[d] \in Linked /\ ptr[d] \in Nodes /\ ptr[d] # p
        <5>1. ptr[d] \in Linked
          BY <2>4, <4>1 DEF Linked
        <5> QED
          BY <1>2, <2>4, <4>1, <5>1 DEF Inv, TypeOK
      <4>3. /\ node[ptr[d]].key \in range[d]
            /\ range[<<ptr[d], "left">>]  = {j \in range[d] : j < node[ptr[d]].key}
            /\ range[<<ptr[d], "right">>] = {j \in range[d] : j > node[ptr[d]].key}
        BY <1>1, <2>4, <4>1 DEF Inv, Shape
      <4>4. \A s \in Sides : range'[<<ptr[d], s>>] = range[<<ptr[d], s>>]
        <5>1. \A s \in Sides : <<ptr[d], s>> \in Cells /\ <<ptr[d], s>> # l /\ <<ptr[d], s>> # r
          BY <4>2 DEF Cells, Sides
        <5> QED
          BY <1>9, <5>1
      <4> QED
        BY <1>7, <4>1, <4>3, <4>4 DEF Sides
    <3> QED
      BY <3>1, <3>2
  <2> QED
    BY <2>1, <2>2, <2>3, <2>4 DEF Shape
<1>14. Ranges'
  <2>1. ASSUME NEW d \in Cells, NEW e \in Cells, d # e, ptr'[d] = NULL, ptr'[e] = NULL
        PROVE  range'[d] \cap range'[e] = {}
    <3>1. d # c /\ e # c /\ ptr[d] = NULL /\ ptr[e] = NULL
      BY <1>3, <1>8, <2>1
    <3>2. /\ range[d] \cap range[e] = {} /\ range[d] \cap range[c] = {}
          /\ range[e] \cap range[c] = {}
      BY <1>1, <1>2, <1>4, <2>1, <3>1 DEF Inv, Ranges
    <3>3. \A f \in {d, e} : range'[f] = range[f] \/ f = l \/ f = r
      BY <1>9
    <3> QED
      BY <1>12, <2>1, <3>2, <3>3
  <2>2. ASSUME NEW n \in Linked', NEW d \in Cells, ptr'[d] = NULL
        PROVE  node'[n].key \notin range'[d]
    <3>1. d # c /\ ptr[d] = NULL
      BY <1>3, <1>8, <2>2
    <3>2. CASE n = p
      <4>1. range[d] \cap range[c] = {}
        BY <1>1, <1>2, <1>4, <3>1 DEF Inv, Ranges
      <4>2. k \notin range'[d]
        BY <1>2, <1>9, <1>12, <4>1
      <4> QED
        BY <1>3, <1>7, <3>2, <4>2
    <3>3. CASE n \in Linked
      <4>1. node[n].key \notin range[d] /\ node[n].key \notin range[c]
        BY <1>1, <1>2, <1>4, <3>1, <3>3 DEF Inv, Ranges
      <4>2. node[n].key \notin range'[d]
        BY <1>9, <1>12, <4>1
      <4> QED
        BY <1>7, <4>2
    <3> QED
      BY <1>10, <3>2, <3>3
  <2>3. ASSUME NEW m \in Linked', NEW n \in Linked', node'[m].key = node'[n].key PROVE m = n
    <3>1. \A o \in Linked : node[o].key # k
      BY <1>1, <1>2, <1>4 DEF Inv, Ranges
    <3>2. node[m].key = node[n].key
      BY <1>7, <2>3
    <3> QED
      BY <1>1, <1>3, <1>10, <3>1, <3>2 DEF Inv, Ranges
  <2> QED
    BY <2>1, <2>2, <2>3 DEF Ranges
<1>15. TypeOK'
  <2>1. ptr' \in [Cells -> Nodes \cup {NULL}] /\ new' \in [Threads -> Nodes \cup {NULL}]
    BY <1>3, <1>7 DEF Inv, TypeOK
  <2>2. range' \in [Cells -> SUBSET Keys]
    <3>1. {j \in range[c] : j < k} \subseteq Keys /\ {j \in range[c] : j > k} \subseteq Keys
      BY <1>11
    <3> QED
      BY <1>7, <3>1 DEF Inv, TypeOK
  <2> QED
    BY <2>1, <2>2 DEF Inv, TypeOK, Link, Goto, main
<1>16. OthersStay(th)
  BY DEF Link, Goto, OthersStay, Inv, TypeOK
<1>17. NoLeak'
  <2>1. \A u \in Threads : new'[u] = IF u = th THEN NULL ELSE new[u]
    BY <1>7 DEF Inv, TypeOK
  <2>2. \A u \in Threads \ {th} : new[u] # p
    BY <1>1, <1>3 DEF Inv, NoLeak
  <2>3. nodes' = Linked' \cup ({new'[u] : u \in Threads} \ {NULL})
    BY <1>1, <1>2, <1>3, <1>7, <1>10, <2>1, <2>2 DEF Inv, NoLeak
  <2>4. \A t, u \in Threads : new'[t] # NULL =>
           new'[t] \notin Linked' /\ (new'[u] = new'[t] => u = t)
    BY <1>1, <1>10, <2>1, <2>2 DEF Inv, NoLeak
  <2> QED
    BY <2>3, <2>4 DEF NoLeak
<1>18. Place(th)'
  <2>1. pc'[th] = "done" /\ call' = call /\ ret' = ret /\ new'[th] = NULL /\ ref' = ref
    BY DEF Link, Goto, Inv, TypeOK
  <2> QED
    BY <1>2, <1>10, <2>1 DEF Place
<1>19. ASSUME NEW u \in Threads \ {th} PROVE Place(u)'
  <2>1. new[u] # NULL => new[u] \in nodes \ Linked /\ new[u] # p
    BY <1>1, <1>3 DEF Inv, NoLeak
  <2>2. \A d \in Cells : ptr[d] # NULL => ptr'[d] = ptr[d]
    BY <1>4, <1>8
  <2>3. \A d \in Cells : range[d] # {} => range'[d] = range[d]
    BY <1>5, <1>9
  <2> QED
    BY <1>1, <1>7, <1>10, <1>16, <2>1, <2>2, <2>3, Bystander DEF OthersStay
<1> QED
  BY <1>1, <1>13, <1>14, <1>15, <1>17, <1>18, <1>19 DEF Inv

-----------------------------------------------------------------------------

LEMMA NextInv == Inv /\ [Next]_vars => Inv'
<1> SUFFICES ASSUME Inv, [Next]_vars PROVE Inv'
  OBVIOUS
<1>1. CASE \E th \in Threads : Invoke(th) \/ Step(th)
  BY <1>1, InvokeInv, DescendInv, MatchInv, AbsentInv, AllocateInv, LinkInv, RetryInv, StoreInv,
     ReadInv, ReturnInv DEF Step
<1>2. CASE Main
  BY <1>2, JoinInv, VisitInv, FreeNodeInv DEF Main
<1>3. CASE Finished
  BY <1>3, StutterInv DEF Finished
<1>4. CASE UNCHANGED vars
  BY <1>4, StutterInv
<1> QED
  BY <1>1, <1>2, <1>3, <1>4 DEF Next

\* bst_conc_nblocking.c:51-129.  Wherever a thread is, its key still belongs to the pointer
\* it looks at, and no key has two places.
THEOREM Invariance == Spec => []Inv
  BY InitInv, NextInv, PTL DEF Spec

\* bst_conc_nblocking.c:13-18, :51-129.  The variables keep their types.
THEOREM TypeCorrect == Spec => []TypeOK
  BY Invariance, PTL DEF Inv

\* bst_conc_nblocking.c:63-82.  A node is in the tree or belongs to the one thread that is
\* about to link it, and a failed attempt leaves none behind.
THEOREM NothingLeaks == Spec => []NoLeak
  BY Invariance, PTL DEF Inv

-----------------------------------------------------------------------------
(* What has been linked stays linked. *)

LEMMA LinksKept ==
    ASSUME Inv, [Next]_vars, NEW c \in Cells, ptr[c] # NULL
    PROVE  ptr'[c] = ptr[c]
<1>1. ASSUME NEW th \in Threads, Allocate(th) PROVE ptr'[c] = ptr[c]
  <2>1. ~joined
    BY <1>1, StillRunning DEF Allocate
  <2>2. PICK p \in Candidates(Nodes \ nodes) :
               ptr' = [ptr EXCEPT ![<<p, "left">>] = NULL, ![<<p, "right">>] = NULL]
    BY <1>1 DEF Allocate
  <2>3. p \in Nodes \ Linked
    BY <2>1, NonblockingAssumption DEF Inv, Shape
  <2>4. c # <<p, "left">> /\ c # <<p, "right">>
    BY <2>1, <2>3 DEF Inv, Shape, Sides
  <2> QED
    BY <2>2, <2>4 DEF Inv, TypeOK
<1>2. ASSUME NEW th \in Threads, Link(th) PROVE ptr'[c] = ptr[c]
  <2>1. ptr[temp[th]] = NULL
    BY <1>2, StillRunning, ExpectsNull DEF Link
  <2> QED
    BY <1>2, <2>1 DEF Link, Inv, TypeOK
<1>3. ASSUME NEW th \in Threads, Invoke(th) \/ Step(th), ~Allocate(th), ~Link(th)
      PROVE  ptr' = ptr
  BY <1>3 DEF Invoke, Step, Descend, Match, Absent, Retry, Store, Read, Return, tree
<1>4. Main \/ Finished \/ UNCHANGED vars => ptr' = ptr
  BY DEF Main, Join, Visit, FreeNode, Finished, vars, tree
<1> QED
  BY <1>1, <1>2, <1>3, <1>4 DEF Next, Step

\* bst_conc_nblocking.c:71.  A compare-and-swap never replaces a node, whatever an
\* earlier attempt has left in *ref.
THEOREM LinksStay == Spec => StaysLinked
<1>1. Inv /\ [Next]_vars => [\A c \in Cells : ptr[c] # NULL => ptr'[c] = ptr[c]]_vars
  BY LinksKept
<1> QED
  BY <1>1, Invariance, PTL DEF Spec, StaysLinked

-----------------------------------------------------------------------------
(* Each call takes effect at once. *)

\* The tree as a map: one value for each key it holds.
Functional == \A n \in Linked : ContentsOf[node[n].key] = node[n].value

LEMMA TreeIsMap == Inv /\ ~joined => Functional
<1> SUFFICES ASSUME Inv, ~joined, NEW n \in Linked
             PROVE  ContentsOf[node[n].key] = node[n].value
  BY DEF Functional
<1>1. \A m \in Linked : node[m].key = node[n].key <=> m = n
  BY DEF Inv, Ranges
<1>2. (CHOOSE m \in Linked : node[m].key = node[n].key) = n
  BY <1>1
<1> QED
  BY <1>2 DEF ContentsOf

LEMMA TreeIsMapNext == Inv' /\ ~joined' => Functional'
  BY TreeIsMap, PTL

LEMMA ContentsStay ==
    ASSUME Inv, ~joined, Inv', joined' = joined, Linked' = Linked,
           \A n \in Linked : node'[n] = node[n]
    PROVE  Map' = Map
<1>1. Functional /\ Functional'
  BY TreeIsMap, TreeIsMapNext
<1>2. {node[n].key : n \in Linked}' = {node[n].key : n \in Linked}
  OBVIOUS
<1>3. \A k \in {node[n].key : n \in Linked} : ContentsOf'[k] = ContentsOf[k]
  BY <1>1 DEF Functional
<1>4. ContentsOf' = ContentsOf
  BY <1>2, <1>3 DEF ContentsOf
<1> QED
  BY <1>4 DEF Map

LEMMA SameStage ==
    ASSUME NEW th \in Threads, pc \in [Threads -> {"idle", "load", "cas", "store", "read", "done"}],
           NEW label \in {"idle", "load", "cas", "store", "read", "done"},
           pc' = [pc EXCEPT ![th] = label]
    PROVE  Stage' = [Stage EXCEPT ![th] = IF label \in {"idle", "done"} THEN label ELSE "called"]
  BY DEF Stage

LEMMA InitAtomic == Init => Atomic!Init
<1> SUFFICES ASSUME Init PROVE Atomic!Init
  OBVIOUS
<1>1. Linked = {}
  BY DEF Init, Linked
<1>2. Map = [k \in {} |-> NULL]
  BY <1>1 DEF Init, Map, ContentsOf
<1>3. Stage = [th \in Threads |-> "idle"]
  BY DEF Init, Stage
<1> QED
  BY <1>2, <1>3 DEF Init, Atomic!Init, Atomic!NoKeys

LEMMA InvokeAtomic == ASSUME Inv, Inv', NEW th \in Threads, Invoke(th) PROVE Atomic!Invoke(th)
<1>1. ~joined
  BY StillRunning DEF Invoke
<1>2. Map' = Map
  <2>1. Linked' = Linked
    BY DEF Linked, Invoke, tree
  <2> QED
    BY <1>1, <2>1, ContentsStay DEF Invoke, tree, main
<1>3. Stage[th] = "idle" /\ Stage' = [Stage EXCEPT ![th] = "called"]
  BY SameStage DEF Invoke, Goto, Stage, Inv, TypeOK
<1>4. PICK c \in Calls : call' = [call EXCEPT ![th] = c]
  BY DEF Invoke
<1>5. c \in Atomic!Calls
  BY DEF Calls, Atomic!Calls
<1>6. ret' = [ret EXCEPT ![th] = NULL]
  <2>1. ret[th] = NULL /\ ret' = ret
    BY <1>1 DEF Invoke, Inv, Place
  <2> QED
    BY <2>1 DEF Inv, TypeOK
<1> QED
  BY <1>2, <1>3, <1>4, <1>5, <1>6 DEF Atomic!Invoke

\* The steps before the effect change nothing that a caller can tell.
LEMMA SearchAtomic ==
    ASSUME Inv, Inv', NEW th \in Threads,
           Descend(th) \/ Match(th) \/ Allocate(th) \/ Retry(th)
    PROVE  Map' = Map /\ Stage' = Stage /\ call' = call /\ ret' = ret
<1>1. ~joined /\ joined' = joined /\ call' = call /\ ret' = ret
  BY StillRunning DEF Descend, Match, Allocate, Retry, main
<1>2. Stage' = Stage
  <2>1. CASE pc' = pc
    BY <2>1 DEF Stage
  <2>2. CASE Match(th) \/ Allocate(th) \/ Retry(th)
    BY <2>2 DEF Match, Allocate, Retry, Goto, Stage, Inv, TypeOK
  <2> QED
    BY <2>1, <2>2 DEF Descend
<1>3. Linked \subseteq nodes /\ \A n \in Linked : n \in Nodes
  BY <1>1 DEF Inv, Shape, TypeOK
<1>4. \A c \in Cells : ptr'[c] = ptr[c]
  <2>1. CASE Allocate(th)
    <3>1. PICK p \in Candidates(Nodes \ nodes) :
                 ptr' = [ptr EXCEPT ![<<p, "left">>] = NULL, ![<<p, "right">>] = NULL]
      BY <2>1 DEF Allocate
    <3>2. p \in Nodes \ Linked
      BY <1>3, NonblockingAssumption
    <3>3. ptr[<<p, "left">>] = NULL /\ ptr[<<p, "right">>] = NULL
      BY <1>1, <3>2 DEF Inv, Shape, Sides
    <3> QED
      BY <3>1, <3>3 DEF Inv, TypeOK
  <2> QED
    BY <2>1 DEF Descend, Match, Retry, tree
<1>5. Linked' = Linked
  BY <1>4 DEF Linked
<1>6. \A n \in Linked : node'[n] = node[n]
  <2>1. CASE Allocate(th)
    <3>1. PICK p \in Candidates(Nodes \ nodes) :
                 node' = [node EXCEPT ![p] = [key |-> call[th].key, value |-> call[th].value]]
      BY <2>1 DEF Allocate
    <3>2. p \notin Linked
      BY <1>3, NonblockingAssumption
    <3> QED
      BY <1>3, <3>1, <3>2 DEF Inv, TypeOK
  <2>2. CASE Retry(th)
    <3>1. new[th] \notin Linked
      BY <1>1, <2>2 DEF Retry, Inv, Place
    <3> QED
      BY <1>3, <2>2, <3>1 DEF Retry, Inv, TypeOK
  <2> QED
    BY <2>1, <2>2 DEF Descend, Match, tree
<1> QED
  BY <1>1, <1>2, <1>5, <1>6, ContentsStay

\* The effect of a call, in the terms of the tree.
LEMMA EffectOf ==
    ASSUME Inv, NEW th \in Threads, pc[th] \in {"load", "cas", "store", "read"},
           pc' = [pc EXCEPT ![th] = "done"], call' = call
    PROVE  /\ Stage[th] = "called" /\ Stage' = [Stage EXCEPT ![th] = "done"]
           /\ ~joined /\ call[th] \in Calls /\ ret[th] = NULL
<1>1. ~joined
  BY StillRunning
<1>2. Stage[th] = "called"
  BY DEF Stage
<1>3. Stage' = [Stage EXCEPT ![th] = "done"]
  BY SameStage DEF Inv, TypeOK
<1> QED
  BY <1>1, <1>2, <1>3 DEF Inv, Place

LEMMA AbsentAtomic == ASSUME Inv, Inv', NEW th \in Threads, Absent(th) PROVE Atomic!Effect(th)
<1>1. /\ Stage[th] = "called" /\ Stage' = [Stage EXCEPT ![th] = "done"]
      /\ ~joined /\ joined' = joined /\ ret[th] = NULL
  BY EffectOf DEF Absent, Goto, main
<1>2. Map' = Map
  <2>1. Linked' = Linked
    BY DEF Linked, Absent, tree
  <2> QED
    BY <1>1, <2>1, ContentsStay DEF Absent, tree
<1>3. call[th].key \notin DOMAIN Map
  <2>1. temp[th] \in Cells /\ call[th].key \in range[temp[th]] /\ ptr[temp[th]] = NULL
    BY <1>1 DEF Absent, Found, Inv, Place
  <2>2. \A n \in Linked : node[n].key # call[th].key
    BY <1>1, <2>1 DEF Inv, Ranges
  <2> QED
    BY <1>1, <2>2 DEF Map, ContentsOf
<1>4. call[th].op = "lookup" /\ call' = call /\ ret' = [ret EXCEPT ![th] = NULL]
  BY <1>1 DEF Absent, Inv, TypeOK
<1> QED
  BY <1>1, <1>2, <1>3, <1>4 DEF Atomic!Effect

LEMMA ReadAtomic == ASSUME Inv, Inv', NEW th \in Threads, Read(th) PROVE Atomic!Effect(th)
<1>1. /\ Stage[th] = "called" /\ Stage' = [Stage EXCEPT ![th] = "done"]
      /\ ~joined /\ joined' = joined
  BY EffectOf DEF Read, Goto, main
<1>2. Map' = Map
  <2>1. Linked' = Linked
    BY DEF Linked, Read, tree
  <2> QED
    BY <1>1, <2>1, ContentsStay DEF Read, tree
<1>3. tp[th] \in Linked /\ node[tp[th]].key = call[th].key /\ call[th].op = "lookup"
  BY <1>1 DEF Read, Inv, Place
<1>4. call[th].key \in DOMAIN Map /\ Map[call[th].key] = node[tp[th]].value
  <2>1. ContentsOf[node[tp[th]].key] = node[tp[th]].value
    BY <1>1, <1>3, TreeIsMap DEF Functional
  <2>2. node[tp[th]].key \in DOMAIN ContentsOf
    BY <1>3 DEF ContentsOf
  <2> QED
    BY <1>1, <1>3, <2>1, <2>2 DEF Map
<1> QED
  BY <1>1, <1>2, <1>3, <1>4 DEF Atomic!Effect, Read

\* An insert, whether it links a node or finds one.
LEMMA InsertAtomic ==
    ASSUME Inv, Inv', NEW th \in Threads, NEW p \in Linked',
           pc[th] \in {"cas", "store"}, pc' = [pc EXCEPT ![th] = "done"], call' = call, ret' = ret,
           joined' = joined, call[th].op = "insert", Linked' = Linked \cup {p},
           node'[p].key = call[th].key, node'[p].value = call[th].value,
           \A n \in Linked \ {p} : node'[n] = node[n],
           p \in Linked => node[p].key = call[th].key
    PROVE  Atomic!Effect(th)
<1> PICK k, v : k = call[th].key /\ v = call[th].value
  OBVIOUS
<1>1. /\ Stage[th] = "called" /\ Stage' = [Stage EXCEPT ![th] = "done"] /\ ~joined /\ ret[th] = NULL
  BY EffectOf
<1>2. Functional /\ Functional'
  BY <1>1, TreeIsMap, TreeIsMapNext
<1>3. \A n \in Linked \ {p} : node[n].key # k
  BY <1>1 DEF Inv, Ranges
<1>4. DOMAIN ContentsOf = {node[n].key : n \in Linked} /\ DOMAIN ContentsOf' = {node'[n].key : n \in Linked'}
  BY DEF ContentsOf
<1>5. DOMAIN ContentsOf' = DOMAIN ContentsOf \cup {k}
  BY <1>4
<1>6. ContentsOf'[k] = v
  BY <1>2 DEF Functional
<1>7. \A j \in DOMAIN ContentsOf \ {k} : ContentsOf'[j] = ContentsOf[j]
  <2>1. ASSUME NEW n \in Linked, node[n].key # k PROVE ContentsOf'[node[n].key] = ContentsOf[node[n].key]
    <3>1. n # p /\ node'[n] = node[n] /\ n \in Linked'
      BY <2>1
    <3> QED
      BY <1>2, <3>1 DEF Functional
  <2> QED
    BY <1>4, <2>1
<1>8. ContentsOf' = [j \in DOMAIN ContentsOf \cup {k} |-> IF j = k THEN v ELSE ContentsOf[j]]
  <2>1. ContentsOf' = [j \in DOMAIN ContentsOf' |-> ContentsOf'[j]]
    BY DEF ContentsOf
  <2> QED
    BY <1>5, <1>6, <1>7, <2>1
<1>9. Map' = [j \in DOMAIN Map \cup {k} |-> IF j = k THEN v ELSE Map[j]]
  BY <1>1, <1>8 DEF Map
<1>10. ret' = [ret EXCEPT ![th] = NULL]
  BY <1>1 DEF Inv, TypeOK
<1> QED
  BY <1>1, <1>9, <1>10 DEF Atomic!Effect

LEMMA LinkAtomic == ASSUME Inv, Inv', NEW th \in Threads, Link(th) PROVE Atomic!Effect(th)
<1>1. ~joined /\ joined' = joined
  BY StillRunning DEF Link, main
<1>2. /\ new[th] \in nodes \ Linked /\ temp[th] \in Cells /\ call[th].op = "insert"
      /\ node[new[th]] = [key |-> call[th].key, value |-> call[th].value]
  BY <1>1 DEF Link, Inv, Place
<1>3. new[th] # NULL
  BY <1>2, NonblockingAssumption DEF Inv, TypeOK
<1>4. ptr[temp[th]] = NULL
  BY <1>1, ExpectsNull DEF Link
<1>5. ptr'[temp[th]] = new[th] /\ \A c \in Cells \ {temp[th]} : ptr'[c] = ptr[c]
  BY <1>2 DEF Link, Inv, TypeOK
<1>6. Linked' = Linked \cup {new[th]}
  BY <1>2, <1>3, <1>4, <1>5 DEF Linked
<1> QED
  <2>1. /\ pc[th] = "cas" /\ pc' = [pc EXCEPT ![th] = "done"]
        /\ call' = call /\ ret' = ret /\ node' = node
    BY DEF Link, Goto
  <2>2. node'[new[th]].key = call[th].key /\ node'[new[th]].value = call[th].value
    BY <1>2, <2>1
  <2> QED
    BY <1>1, <1>2, <1>6, <2>1, <2>2, InsertAtomic

LEMMA StoreAtomic == ASSUME Inv, Inv', NEW th \in Threads, Store(th) PROVE Atomic!Effect(th)
<1>1. ~joined /\ joined' = joined
  BY StillRunning DEF Store, main
<1>2. /\ tp[th] \in Linked /\ tp[th] \in nodes /\ node[tp[th]].key = call[th].key
      /\ call[th].op = "insert"
  BY <1>1 DEF Store, Inv, Place, Shape
<1>3. Linked' = Linked \cup {tp[th]}
  BY <1>2 DEF Store, Linked
<1>4. node'[tp[th]] = [node[tp[th]] EXCEPT !.value = call[th].value]
  BY <1>2 DEF Store, Inv, TypeOK
<1>5. node[tp[th]] \in [key : Keys, value : Values]
  BY <1>2 DEF Inv, TypeOK
<1>6. node'[tp[th]].key = call[th].key /\ node'[tp[th]].value = call[th].value
  BY <1>2, <1>4, <1>5
<1>7. \A n \in Linked \ {tp[th]} : node'[n] = node[n]
  BY <1>1 DEF Store, Inv, Shape, TypeOK
<1> QED
  BY <1>1, <1>2, <1>3, <1>6, <1>7, InsertAtomic DEF Store, Goto

LEMMA ReturnAtomic == ASSUME Inv, Inv', NEW th \in Threads, Return(th) PROVE Atomic!Return(th)
<1>1. ~joined /\ joined' = joined
  BY StillRunning DEF Return, main
<1>2. Map' = Map
  <2>1. Linked' = Linked
    BY DEF Linked, Return, tree
  <2> QED
    BY <1>1, <2>1, ContentsStay DEF Return, tree
<1>3. Stage[th] = "done" /\ Stage' = [Stage EXCEPT ![th] = "idle"]
  BY SameStage DEF Return, Goto, Stage, Inv, TypeOK
<1> QED
  BY <1>2, <1>3 DEF Atomic!Return, Return

LEMMA MainAtomic ==
    ASSUME Inv, Main
    PROVE  Atomic!Destroy \/ (Map' = Map /\ Stage' = Stage /\ call' = call /\ ret' = ret)
<1>1. Stage' = Stage /\ call' = call /\ ret' = ret
  BY DEF Main, Join, Visit, FreeNode, threads, Stage
<1>2. CASE Join
  <2>1. \A th \in Threads : Stage[th] = "idle"
    BY <1>2 DEF Join, Stage
  <2>2. Map' = [k \in {} |-> NULL]
    BY <1>2 DEF Join, Map
  <2> QED
    BY <1>1, <2>1, <2>2 DEF Atomic!Destroy, Atomic!NoKeys
<1>3. CASE Visit \/ FreeNode
  <2>1. joined /\ joined'
    <3>1. joined /\ joined' = joined
      BY <1>3 DEF Visit, FreeNode
    <3> QED
      BY <3>1, Zenon
  <2> QED
    BY <1>1, <2>1 DEF Map
<1> QED
  BY <1>2, <1>3 DEF Main

LEMMA NextAtomic == Inv /\ Inv' /\ [Next]_vars => [Atomic!Next]_Atomic!vars
<1> SUFFICES ASSUME Inv, Inv', [Next]_vars PROVE [Atomic!Next]_Atomic!vars
  OBVIOUS
<1>1. ASSUME NEW th \in Threads, Invoke(th) \/ Return(th) PROVE Atomic!Next
  BY <1>1, InvokeAtomic, ReturnAtomic DEF Atomic!Next
<1>2. ASSUME NEW th \in Threads, Absent(th) \/ Link(th) \/ Store(th) \/ Read(th) PROVE Atomic!Next
  BY <1>2, AbsentAtomic, LinkAtomic, StoreAtomic, ReadAtomic DEF Atomic!Next
<1>3. ASSUME NEW th \in Threads, Descend(th) \/ Match(th) \/ Allocate(th) \/ Retry(th)
      PROVE  UNCHANGED Atomic!vars
  BY <1>3, SearchAtomic DEF Atomic!vars
<1>4. CASE Main
  BY <1>4, MainAtomic DEF Atomic!vars, Atomic!Next
<1>5. CASE Finished \/ UNCHANGED vars
  <2>1. UNCHANGED vars
    BY <1>5 DEF Finished
  <2>2. Stage' = Stage /\ call' = call /\ ret' = ret
    BY <2>1 DEF vars, threads, Stage
  <2>3. ContentsOf' = ContentsOf
    BY <2>1 DEF vars, tree, ContentsOf, Linked
  <2>4. Map' = Map
    BY <2>1, <2>3 DEF vars, main, Map
  <2> QED
    BY <2>2, <2>4 DEF Atomic!vars
<1> QED
  BY <1>1, <1>2, <1>3, <1>4, <1>5 DEF Next, Step

\* bst_conc_nblocking.c:51-129.  Every insert and every lookup is atomic, for any number
\* of threads, keys and calls: the tree without locks implements the map.
THEOREM Linearizability == Spec => Linearizable
  BY InitAtomic, NextAtomic, Invariance, PTL DEF Spec, Linearizable, Atomic!Spec

-----------------------------------------------------------------------------
(* Memory safety: an inductive invariant of its own. *)

\* What threads hold is in the tree.
Held ==
    \A th \in Threads :
        /\ temp[th] \notin {NULL, Root} => temp[th] \in Linked \X Sides
        /\ tp[th] # NULL => tp[th] \in Linked
        /\ pc[th] = "idle" => temp[th] = NULL /\ tp[th] = NULL

OneParent == \A c, d \in Cells : ptr[c] # NULL /\ ptr[c] = ptr[d] => c = d

Items == [do : {"visit"}, cell : Cells] \cup [do : {"free"}, node : Nodes]

ToFree(i)  == i \in DOMAIN work /\ work[i].do = "free"
ToVisit(i) == i \in DOMAIN work /\ work[i].do = "visit"

Unvisited(n) == n \in nodes /\ \A i \in DOMAIN work : ToFree(i) => work[i].node # n

\* A node to be freed is there and will not be freed twice.
Frees ==
    \A i \in DOMAIN work : ToFree(i) =>
        /\ work[i].node \in nodes
        /\ \A j \in DOMAIN work : ToFree(j) /\ work[j].node = work[i].node => j = i

\* A pointer to be visited is visited once, before the node it is in is freed.
Visits ==
    \A i \in DOMAIN work : ToVisit(i) =>
        /\ work[i].cell # Root => \E j \in DOMAIN work :
              j > i /\ ToFree(j) /\ work[j].node = work[i].cell[1]
        /\ \A j \in DOMAIN work : ToVisit(j) /\ work[j].cell = work[i].cell => j = i
        /\ ptr[work[i].cell] # NULL => Unvisited(ptr[work[i].cell])

\* Below a node that has not been visited no node has.
Below ==
    \A n \in Nodes, s \in Sides :
        Unvisited(n) /\ ptr[<<n, s>>] # NULL => Unvisited(ptr[<<n, s>>])

FreeInv ==
    /\ Held
    /\ OneParent
    /\ ~joined => work = <<>>
    /\ joined => work \in Seq(Items) /\ Frees /\ Visits /\ Below

-----------------------------------------------------------------------------

LEMMA InitFree == Init => FreeInv
  BY DEF Init, FreeInv, Held, OneParent

-----------------------------------------------------------------------------
(* The threads. *)

LEMMA LinkedGrows == ASSUME Inv, [Next]_vars PROVE Linked \subseteq Linked'
  BY LinksKept DEF Linked

\* Nothing a thread does disturbs what another one holds, and main starts from scratch.
LEMMA ThreadStep ==
    ASSUME Inv, FreeInv, [Next]_vars, NEW th \in Threads, ~joined, UNCHANGED main,
           OneParent', \A u \in Threads \ {th} :
                          temp'[u] = temp[u] /\ tp'[u] = tp[u] /\ pc'[u] = pc[u],
           temp'[th] \notin {NULL, Root} => temp'[th] \in Linked \X Sides,
           tp'[th] # NULL => tp'[th] \in Linked,
           pc'[th] = "idle" => temp'[th] = NULL /\ tp'[th] = NULL
    PROVE  FreeInv'
<1>1. Linked \subseteq Linked'
  BY LinkedGrows
<1>2. ASSUME NEW u \in Threads
      PROVE  /\ temp'[u] \notin {NULL, Root} => temp'[u] \in Linked' \X Sides
             /\ tp'[u] # NULL => tp'[u] \in Linked'
             /\ pc'[u] = "idle" => temp'[u] = NULL /\ tp'[u] = NULL
  <2>1. CASE u = th
    BY <1>1, <2>1
  <2>2. CASE u # th
    BY <1>1, <2>2 DEF FreeInv, Held
  <2> QED
    BY <2>1, <2>2
<1>3. Held'
  BY <1>2 DEF Held
<1> QED
  BY <1>3 DEF FreeInv, main

LEMMA OneParentStays == ASSUME FreeInv, ptr' = ptr PROVE OneParent'
  BY DEF FreeInv, OneParent

LEMMA InvokeFree ==
    ASSUME Inv, FreeInv, [Next]_vars, NEW th \in Threads, Invoke(th) PROVE FreeInv'
<1>1. ~joined /\ OneParent'
  BY StillRunning, OneParentStays DEF Invoke, tree
<1>2. temp'[th] = Root /\ tp'[th] = tp[th] /\ pc'[th] = "load" /\ tp[th] = NULL
  BY DEF Invoke, Goto, Inv, TypeOK, FreeInv, Held
<1>3. \A u \in Threads \ {th} : temp'[u] = temp[u] /\ tp'[u] = tp[u] /\ pc'[u] = pc[u]
  BY DEF Invoke, Goto, Inv, TypeOK
<1> QED
  BY <1>1, <1>2, <1>3, ThreadStep DEF Invoke

\* The pointer a thread loads, and what it finds.
LEMMA FoundLinked ==
    ASSUME Inv, NEW th \in Threads, pc[th] = "load", Found(th) # NULL
    PROVE  Found(th) \in Linked
<1>1. temp[th] \in Cells
  BY StillRunning DEF Inv, Place
<1> QED
  BY <1>1 DEF Found, Linked

LEMMA DescendFree ==
    ASSUME Inv, FreeInv, [Next]_vars, NEW th \in Threads, Descend(th) PROVE FreeInv'
<1>1. ~joined /\ OneParent'
  BY StillRunning, OneParentStays DEF Descend, tree
<1>2. Found(th) \in Linked
  BY FoundLinked DEF Descend
<1>3. temp'[th] \in Linked \X Sides
  BY <1>2 DEF Descend, Sides, Inv, TypeOK
<1>4. tp' = tp /\ pc' = pc /\ pc[th] = "load"
  BY DEF Descend
<1>5. \A u \in Threads \ {th} : temp'[u] = temp[u]
  BY DEF Descend, Inv, TypeOK
<1>6. tp[th] # NULL => tp[th] \in Linked
  BY DEF FreeInv, Held
<1> QED
  BY <1>1, <1>3, <1>4, <1>5, <1>6, ThreadStep DEF Descend

LEMMA MatchFree ==
    ASSUME Inv, FreeInv, [Next]_vars, NEW th \in Threads, Match(th) PROVE FreeInv'
<1>1. ~joined /\ OneParent'
  BY StillRunning, OneParentStays DEF Match, tree
<1>2. tp'[th] \in Linked
  BY FoundLinked DEF Match, Inv, TypeOK
<1>3. temp' = temp /\ pc'[th] \in {"store", "read"}
  BY DEF Match, Goto, Inv, TypeOK
<1>4. \A u \in Threads \ {th} : tp'[u] = tp[u] /\ pc'[u] = pc[u]
  BY DEF Match, Goto, Inv, TypeOK
<1>5. temp[th] \notin {NULL, Root} => temp[th] \in Linked \X Sides
  BY DEF FreeInv, Held
<1> QED
  BY <1>1, <1>2, <1>3, <1>4, <1>5, ThreadStep DEF Match

\* The other steps move only their own program counter, but for Return.
LEMMA StayFree ==
    ASSUME Inv, FreeInv, [Next]_vars, NEW th \in Threads, ~joined, UNCHANGED <<temp, tp, main>>,
           NEW label \in {"load", "cas", "done"}, Goto(th, label), OneParent'
    PROVE  FreeInv'
<1>1. pc'[th] # "idle" /\ \A u \in Threads \ {th} : pc'[u] = pc[u]
  BY DEF Goto, Inv, TypeOK
<1>2. /\ temp[th] \notin {NULL, Root} => temp[th] \in Linked \X Sides
      /\ tp[th] # NULL => tp[th] \in Linked
  BY DEF FreeInv, Held
<1> QED
  BY <1>1, <1>2, ThreadStep

LEMMA AllocateFree ==
    ASSUME Inv, FreeInv, [Next]_vars, NEW th \in Threads, Allocate(th) PROVE FreeInv'
<1>1. ~joined
  BY StillRunning DEF Allocate
<1>2. ASSUME NEW c \in Cells, ptr'[c] # NULL PROVE ptr'[c] = ptr[c]
  BY <1>2 DEF Allocate, Inv, TypeOK
<1>3. OneParent'
  BY <1>2 DEF FreeInv, OneParent
<1> QED
  BY <1>1, <1>3, StayFree DEF Allocate

\* The node that is linked is new, and hangs from the pointer it replaced NULL in.
LEMMA LinkFree ==
    ASSUME Inv, FreeInv, [Next]_vars, NEW th \in Threads, Link(th) PROVE FreeInv'
<1>1. ~joined
  BY StillRunning DEF Link
<1>2. temp[th] \in Cells /\ new[th] \notin Linked
  BY <1>1 DEF Link, Inv, Place
<1>3. \A c \in Cells : ptr'[c] = IF c = temp[th] THEN new[th] ELSE ptr[c]
  BY <1>2 DEF Link, Inv, TypeOK
<1>4. \A c \in Cells : ptr[c] # NULL => ptr[c] # new[th]
  BY <1>2 DEF Linked
<1>5. OneParent'
  BY <1>3, <1>4 DEF FreeInv, OneParent
<1> QED
  BY <1>1, <1>5, StayFree DEF Link

LEMMA ReturnFree ==
    ASSUME Inv, FreeInv, [Next]_vars, NEW th \in Threads, Return(th) PROVE FreeInv'
<1>1. ~joined /\ OneParent'
  BY StillRunning, OneParentStays DEF Return, tree
<1>2. temp'[th] = NULL /\ tp'[th] = NULL
  BY DEF Return, Inv, TypeOK
<1>3. \A u \in Threads \ {th} : temp'[u] = temp[u] /\ tp'[u] = tp[u] /\ pc'[u] = pc[u]
  BY DEF Return, Goto, Inv, TypeOK
<1> QED
  BY <1>1, <1>2, <1>3, ThreadStep DEF Return

LEMMA OtherStepsFree ==
    ASSUME Inv, FreeInv, [Next]_vars, NEW th \in Threads,
           Absent(th) \/ Retry(th) \/ Store(th) \/ Read(th)
    PROVE  FreeInv'
<1>1. pc[th] # "idle" /\ ptr' = ptr /\ UNCHANGED <<temp, tp, main>>
  BY DEF Absent, Retry, Store, Read, tree
<1>2. ~joined /\ OneParent'
  BY <1>1, StillRunning, OneParentStays
<1>3. Goto(th, "done") \/ Goto(th, "load")
  BY DEF Absent, Retry, Store, Read
<1> QED
  BY <1>1, <1>2, <1>3, StayFree

-----------------------------------------------------------------------------
(* main. *)

\* After the join the threads hold nothing.
LEMMA HeldByNone ==
    ASSUME Inv, FreeInv, joined, UNCHANGED <<temp, tp, pc>>
    PROVE  Held'
  BY DEF Inv, Retired, FreeInv, Held

LEMMA JoinFree == ASSUME Inv, FreeInv, Join PROVE FreeInv'
<1>1. Held' /\ OneParent'
  BY OneParentStays DEF Join, FreeInv, Held, Linked, tree, threads
<1>2. work' = <<[do |-> "visit", cell |-> Root]>> /\ joined' /\ nodes' = nodes /\ ptr' = ptr
  BY DEF Join, tree
<1>3. work' \in Seq(Items)
  BY <1>2 DEF Items, Cells
<1>4. DOMAIN work' = {1} /\ work'[1].do = "visit" /\ work'[1].cell = Root
  BY <1>2
<1>5. \A n \in Nodes : n \in nodes => Unvisited(n)'
  BY <1>2, <1>4 DEF Unvisited, ToFree
<1>6. \A c \in Cells : ptr[c] # NULL => Unvisited(ptr[c])'
  <2>1. \A c \in Cells : ptr[c] # NULL => ptr[c] \in Nodes /\ ptr[c] \in nodes
    BY DEF Join, Inv, TypeOK, Shape, Linked
  <2> QED
    BY <1>2, <1>5, <2>1 DEF Unvisited
<1>7. Frees'
  BY <1>4 DEF Frees, ToFree
<1>8. Visits'
  BY <1>2, <1>4, <1>6 DEF Visits, ToVisit, Cells
<1>9. Below'
  BY <1>2, <1>6 DEF Below, Cells, Sides
<1> QED
  BY <1>1, <1>2, <1>3, <1>7, <1>8, <1>9 DEF FreeInv

\* The head of a sequence of items is its first, the tail the others.
LEMMA HeadAndTail ==
    ASSUME work \in Seq(Items), work # <<>>
    PROVE  /\ Head(work) = work[1] /\ 1 \in DOMAIN work /\ work[1] \in Items
           /\ Tail(work) \in Seq(Items)
           /\ DOMAIN Tail(work) = 1 .. Len(work) - 1 /\ DOMAIN work = 1 .. Len(work)
           /\ Len(work) \in Nat /\ Len(work) > 0
           /\ \A i \in 1 .. Len(work) - 1 : Tail(work)[i] = work[i + 1]
  OBVIOUS

LEMMA FreeNodeFree == ASSUME Inv, FreeInv, FreeNode PROVE FreeInv'
<1> PICK n : n = Head(work).node
  OBVIOUS
<1>1. /\ joined /\ joined' /\ work # <<>> /\ ptr' = ptr /\ nodes' = nodes \ {n}
      /\ work' = Tail(work) /\ UNCHANGED <<temp, tp, pc>>
  BY DEF FreeNode, threads
<1>2. work \in Seq(Items) /\ Frees /\ Visits /\ Below /\ OneParent
  BY <1>1 DEF FreeInv
<1>3. /\ work' \in Seq(Items) /\ DOMAIN work' = 1 .. Len(work) - 1 /\ DOMAIN work = 1 .. Len(work)
      /\ Len(work) \in Nat /\ \A i \in DOMAIN work' : work'[i] = work[i + 1] /\ i + 1 \in DOMAIN work
  BY <1>1, <1>2, HeadAndTail
<1>4. ToFree(1) /\ work[1].node = n
  BY <1>1, <1>2, HeadAndTail DEF FreeNode, ToFree
<1>5. \A i \in DOMAIN work' : (ToFree(i)' <=> ToFree(i + 1)) /\ (ToVisit(i)' <=> ToVisit(i + 1))
  BY <1>3 DEF ToFree, ToVisit
<1>6. \A i \in DOMAIN work : ToFree(i) /\ work[i].node = n => i = 1
  BY <1>2, <1>4 DEF Frees, ToFree
<1>7. \A m : Unvisited(m) => Unvisited(m)'
  BY <1>1, <1>3, <1>4, <1>5 DEF Unvisited, ToFree
<1>8. \A m : Unvisited(m)' => Unvisited(m)
  <2> SUFFICES ASSUME NEW m, Unvisited(m)', NEW i \in DOMAIN work, ToFree(i)
               PROVE  work[i].node # m /\ m \in nodes
    BY <1>1 DEF Unvisited
  <2>1. m \in nodes /\ m # n
    BY <1>1 DEF Unvisited
  <2>2. CASE i = 1
    BY <1>4, <2>1, <2>2
  <2>3. CASE i # 1
    <3>1. i - 1 \in DOMAIN work' /\ (i - 1) + 1 = i
      BY <1>3, <2>3
    <3>2. ToFree(i - 1)' /\ work'[i - 1] = work[i]
      BY <1>3, <1>5, <3>1
    <3> QED
      BY <2>1, <3>1, <3>2 DEF Unvisited
  <2> QED
    BY <2>2, <2>3
<1>9. Frees'
  <2> SUFFICES ASSUME NEW i \in DOMAIN work', ToFree(i)'
               PROVE  /\ work'[i].node \in nodes'
                      /\ \A j \in DOMAIN work' : ToFree(j)' /\ work'[j].node = work'[i].node => j = i
    BY DEF Frees
  <2>1. ToFree(i + 1) /\ i + 1 \in DOMAIN work /\ work'[i] = work[i + 1] /\ i + 1 # 1
    BY <1>3, <1>5
  <2>2. work[i + 1].node \in nodes /\ work[i + 1].node # n
    BY <1>2, <1>6, <2>1 DEF Frees
  <2>3. ASSUME NEW j \in DOMAIN work', ToFree(j)', work'[j].node = work'[i].node PROVE j = i
    <3>1. ToFree(j + 1) /\ j + 1 \in DOMAIN work /\ work[j + 1].node = work[i + 1].node
      BY <1>3, <1>5, <2>1, <2>3
    <3>2. j + 1 = i + 1
      BY <1>2, <2>1, <3>1 DEF Frees
    <3> QED
      BY <1>3, <3>2
  <2> QED
    BY <1>1, <2>1, <2>2, <2>3
<1>10. Visits'
  <2> SUFFICES ASSUME NEW i \in DOMAIN work', ToVisit(i)'
               PROVE  /\ work'[i].cell # Root => \E j \in DOMAIN work' :
                            j > i /\ ToFree(j)' /\ work'[j].node = work'[i].cell[1]
                      /\ \A j \in DOMAIN work' : ToVisit(j)' /\ work'[j].cell = work'[i].cell => j = i
                      /\ ptr'[work'[i].cell] # NULL => Unvisited(ptr[work[i].cell])'
    BY DEF Visits
  <2>1. ToVisit(i + 1) /\ i + 1 \in DOMAIN work /\ work'[i] = work[i + 1]
    BY <1>3, <1>5
  <2>2. ASSUME work'[i].cell # Root
        PROVE  \E j \in DOMAIN work' : j > i /\ ToFree(j)' /\ work'[j].node = work'[i].cell[1]
    <3>1. PICK j \in DOMAIN work : j > i + 1 /\ ToFree(j) /\ work[j].node = work[i + 1].cell[1]
      BY <1>2, <2>1, <2>2 DEF Visits
    <3>2. j - 1 \in DOMAIN work' /\ (j - 1) + 1 = j /\ j - 1 > i
      BY <1>3, <3>1
    <3>3. ToFree(j - 1)' /\ work'[j - 1] = work[j]
      BY <1>3, <1>5, <3>1, <3>2
    <3> QED
      BY <2>1, <3>1, <3>2, <3>3
  <2>3. ASSUME NEW j \in DOMAIN work', ToVisit(j)', work'[j].cell = work'[i].cell PROVE j = i
    <3>1. ToVisit(j + 1) /\ j + 1 \in DOMAIN work /\ work[j + 1].cell = work[i + 1].cell
      BY <1>3, <1>5, <2>1, <2>3
    <3>2. j + 1 = i + 1
      BY <1>2, <2>1, <3>1 DEF Visits
    <3> QED
      BY <1>3, <3>2
  <2>4. ptr'[work'[i].cell] # NULL => Unvisited(ptr[work[i].cell])'
    BY <1>1, <1>2, <1>7, <2>1 DEF Visits
  <2> QED
    BY <2>2, <2>3, <2>4
<1>11. Below'
  BY <1>1, <1>2, <1>7, <1>8 DEF Below
<1>12. Held' /\ OneParent'
  BY <1>1, HeldByNone, OneParentStays
<1> QED
  BY <1>1, <1>3, <1>9, <1>10, <1>11, <1>12 DEF FreeInv

\* An empty child: the rest of the work is as before.
LEMMA VisitEmptyFree ==
    ASSUME Inv, FreeInv, Visit, ptr[Head(work).cell] = NULL PROVE FreeInv'
<1>1. /\ joined /\ joined' /\ work # <<>> /\ ptr' = ptr /\ nodes' = nodes
      /\ work' = <<>> \o Tail(work) /\ Head(work).do = "visit" /\ UNCHANGED <<temp, tp, pc>>
  BY DEF Visit, tree, threads
<1>2. work \in Seq(Items) /\ Frees /\ Visits /\ Below
  BY <1>1 DEF FreeInv
<1>3. work' = Tail(work)
  BY <1>1, <1>2, HeadAndTail
<1>4. /\ work' \in Seq(Items) /\ DOMAIN work' = 1 .. Len(work) - 1 /\ DOMAIN work = 1 .. Len(work)
      /\ Len(work) \in Nat /\ ~ToFree(1)
      /\ \A i \in DOMAIN work' : work'[i] = work[i + 1] /\ i + 1 \in DOMAIN work
  BY <1>1, <1>2, <1>3, HeadAndTail DEF ToFree
<1>5. \A i \in DOMAIN work' : (ToFree(i)' <=> ToFree(i + 1)) /\ (ToVisit(i)' <=> ToVisit(i + 1))
  BY <1>4 DEF ToFree, ToVisit
<1>6. \A j \in DOMAIN work : j # 1 => j - 1 \in DOMAIN work' /\ (j - 1) + 1 = j
  BY <1>4
<1>7. \A m : Unvisited(m) <=> Unvisited(m)'
  <2>1. \A m : Unvisited(m) => Unvisited(m)'
    BY <1>1, <1>4, <1>5 DEF Unvisited, ToFree
  <2>2. ASSUME NEW m, Unvisited(m)', NEW j \in DOMAIN work, ToFree(j) PROVE work[j].node # m
    <3>1. j - 1 \in DOMAIN work' /\ (j - 1) + 1 = j
      BY <1>4, <1>6, <2>2
    <3>2. work'[j - 1] = work[j] /\ ToFree(j - 1)'
      BY <1>4, <1>5, <2>2, <3>1
    <3> QED
      BY <2>2, <3>1, <3>2 DEF Unvisited
  <2> QED
    BY <1>1, <2>1, <2>2 DEF Unvisited
<1>8. Frees'
  <2> SUFFICES ASSUME NEW i \in DOMAIN work', ToFree(i)'
               PROVE  /\ work'[i].node \in nodes'
                      /\ \A j \in DOMAIN work' : ToFree(j)' /\ work'[j].node = work'[i].node => j = i
    BY DEF Frees
  <2>1. ToFree(i + 1) /\ i + 1 \in DOMAIN work /\ work'[i] = work[i + 1]
    BY <1>4, <1>5
  <2>2. ASSUME NEW j \in DOMAIN work', ToFree(j)', work'[j].node = work'[i].node PROVE j = i
    <3>1. ToFree(j + 1) /\ j + 1 \in DOMAIN work /\ work[j + 1].node = work[i + 1].node
      BY <1>4, <1>5, <2>1, <2>2
    <3>2. j + 1 = i + 1
      BY <1>2, <2>1, <3>1 DEF Frees
    <3> QED
      BY <1>4, <3>2
  <2> QED
    BY <1>1, <1>2, <2>1, <2>2 DEF Frees
<1>9. Visits'
  <2> SUFFICES ASSUME NEW i \in DOMAIN work', ToVisit(i)'
               PROVE  /\ work'[i].cell # Root => \E j \in DOMAIN work' :
                            j > i /\ ToFree(j)' /\ work'[j].node = work'[i].cell[1]
                      /\ \A j \in DOMAIN work' : ToVisit(j)' /\ work'[j].cell = work'[i].cell => j = i
                      /\ ptr'[work'[i].cell] # NULL => Unvisited(ptr[work[i].cell])'
    BY DEF Visits
  <2>1. ToVisit(i + 1) /\ i + 1 \in DOMAIN work /\ work'[i] = work[i + 1]
    BY <1>4, <1>5
  <2>2. ASSUME work'[i].cell # Root
        PROVE  \E j \in DOMAIN work' : j > i /\ ToFree(j)' /\ work'[j].node = work'[i].cell[1]
    <3>1. PICK j \in DOMAIN work : j > i + 1 /\ ToFree(j) /\ work[j].node = work[i + 1].cell[1]
      BY <1>2, <2>1, <2>2 DEF Visits
    <3>2. j - 1 \in DOMAIN work' /\ (j - 1) + 1 = j /\ j - 1 > i
      BY <1>4, <3>1
    <3>3. ToFree(j - 1)' /\ work'[j - 1] = work[j]
      BY <1>4, <1>5, <3>1, <3>2
    <3> QED
      BY <2>1, <3>1, <3>2, <3>3
  <2>3. ASSUME NEW j \in DOMAIN work', ToVisit(j)', work'[j].cell = work'[i].cell PROVE j = i
    <3>1. ToVisit(j + 1) /\ j + 1 \in DOMAIN work /\ work[j + 1].cell = work[i + 1].cell
      BY <1>4, <1>5, <2>1, <2>3
    <3>2. j + 1 = i + 1
      BY <1>2, <2>1, <3>1 DEF Visits
    <3> QED
      BY <1>4, <3>2
  <2>4. ptr'[work'[i].cell] # NULL => Unvisited(ptr[work[i].cell])'
    BY <1>1, <1>2, <1>7, <2>1 DEF Visits
  <2> QED
    BY <2>2, <2>3, <2>4
<1>10. Below'
  BY <1>1, <1>2, <1>7 DEF Below
<1>11. Held' /\ OneParent'
  BY <1>1, HeldByNone, OneParentStays
<1> QED
  BY <1>1, <1>4, <1>8, <1>9, <1>10, <1>11 DEF FreeInv

\* Its parent, the only one, has been visited, and both its pointers are still to be.
LEMMA VisitNodeFree ==
    ASSUME Inv, FreeInv, Visit, ptr[Head(work).cell] # NULL PROVE FreeInv'
<1> PICK c, n : c = Head(work).cell /\ n = ptr[c]
  OBVIOUS
<1>1. /\ joined /\ joined' /\ work # <<>> /\ ptr' = ptr /\ nodes' = nodes /\ n # NULL
      /\ work' = <<[do |-> "visit", cell |-> <<n, "right">>],
                   [do |-> "visit", cell |-> <<n, "left">>],
                   [do |-> "free", node |-> n]>> \o Tail(work)
      /\ UNCHANGED <<temp, tp, pc>>
  BY DEF Visit, tree, threads
<1>2. work \in Seq(Items) /\ Frees /\ Visits /\ Below /\ OneParent
  BY <1>1 DEF FreeInv
<1>3. /\ ToVisit(1) /\ ~ToFree(1) /\ work[1].cell = c /\ c \in Cells
      /\ Tail(work) \in Seq(Items) /\ DOMAIN work = 1 .. Len(work) /\ Len(work) \in Nat \ {0}
      /\ Len(Tail(work)) = Len(work) - 1
      /\ \A i \in 2 .. Len(work) : Tail(work)[i - 1] = work[i]
  <2>1. Head(work).do = "visit"
    BY DEF Visit
  <2> QED
    BY <1>1, <1>2, <2>1, HeadAndTail DEF Items, ToVisit, ToFree
<1>4. n \in Nodes
  BY <1>1, <1>3 DEF Inv, TypeOK
<1>5. work' \in Seq(Items)
  <2>1. \A s \in Sides : <<n, s>> \in Cells
    BY <1>4 DEF Cells, Sides
  <2> DEFINE three == <<[do |-> "visit", cell |-> <<n, "right">>],
                        [do |-> "visit", cell |-> <<n, "left">>],
                        [do |-> "free", node |-> n]>>
  <2>2. three \in Seq(Items)
    BY <1>4, <2>1 DEF Items, Sides
  <2> QED
    BY <1>1, <1>3, <2>2
<1>6. /\ DOMAIN work' = 1 .. Len(work) + 2
      /\ work'[1] = [do |-> "visit", cell |-> <<n, "right">>]
      /\ work'[2] = [do |-> "visit", cell |-> <<n, "left">>]
      /\ work'[3] = [do |-> "free", node |-> n]
      /\ \A i \in 2 .. Len(work) : work'[i + 2] = work[i]
  BY <1>1, <1>3
<1>7. \A i \in DOMAIN work' :
         \/ i \in {1, 2} /\ ToVisit(i)' /\ ~ToFree(i)'
         \/ i = 3 /\ ToFree(i)' /\ ~ToVisit(i)'
         \/ /\ i \in 4 .. Len(work) + 2 /\ i - 2 \in 2 .. Len(work)
            /\ work'[i] = work[i - 2] /\ (i - 2) + 2 = i
            /\ (ToFree(i)' <=> ToFree(i - 2)) /\ (ToVisit(i)' <=> ToVisit(i - 2))
  <2> SUFFICES ASSUME NEW i \in DOMAIN work', i \notin {1, 2, 3}
               PROVE  /\ i \in 4 .. Len(work) + 2 /\ i - 2 \in 2 .. Len(work)
                      /\ work'[i] = work[i - 2] /\ (i - 2) + 2 = i
                      /\ (ToFree(i)' <=> ToFree(i - 2)) /\ (ToVisit(i)' <=> ToVisit(i - 2))
    <3>1. ASSUME NEW i \in DOMAIN work', i \in {1, 2} PROVE ToVisit(i)' /\ ~ToFree(i)'
      BY <1>6, <3>1 DEF ToFree, ToVisit
    <3>2. ASSUME NEW i \in DOMAIN work', i = 3 PROVE ToFree(i)' /\ ~ToVisit(i)'
      BY <1>6, <3>2 DEF ToFree, ToVisit
    <3> QED
      BY <3>1, <3>2
  <2>1. i \in 4 .. Len(work) + 2 /\ i - 2 \in 2 .. Len(work) /\ (i - 2) + 2 = i
    BY <1>3, <1>6
  <2>2. work'[i] = work[i - 2]
    BY <1>6, <2>1
  <2> QED
    BY <1>3, <2>1, <2>2 DEF ToFree, ToVisit
<1>8. \A i \in 2 .. Len(work) :
         /\ i + 2 \in DOMAIN work' /\ work'[i + 2] = work[i]
         /\ i \in DOMAIN work
         /\ ToFree(i) => ToFree(i + 2)'
  BY <1>3, <1>6 DEF ToFree
<1>9. Unvisited(n) /\ \A d \in Cells : ptr[d] = n => d = c
  BY <1>1, <1>2, <1>3 DEF Visits, OneParent, ToVisit
<1>10. \A i \in DOMAIN work, s \in Sides : ToVisit(i) => work[i].cell # <<n, s>>
  <2> SUFFICES ASSUME NEW i \in DOMAIN work, NEW s \in Sides, ToVisit(i), work[i].cell = <<n, s>>
               PROVE  FALSE
    OBVIOUS
  <2>1. work[i].cell # Root
    BY <1>4, NonblockingAssumption DEF Sides
  <2>2. PICK j \in DOMAIN work : ToFree(j) /\ work[j].node = work[i].cell[1]
    BY <1>2, <2>1 DEF Visits
  <2> QED
    BY <1>9, <2>2 DEF Unvisited
<1>11. \A m : Unvisited(m)' <=> Unvisited(m) /\ m # n
  <2>1. ASSUME NEW m, Unvisited(m)' PROVE Unvisited(m) /\ m # n
    <3>1. m \in nodes /\ m # n
      <4>1. 3 \in DOMAIN work' /\ ToFree(3)' /\ work'[3].node = n
        BY <1>3, <1>6 DEF ToFree
      <4> QED
        BY <1>1, <2>1, <4>1 DEF Unvisited
    <3>2. ASSUME NEW i \in DOMAIN work, ToFree(i) PROVE work[i].node # m
      <4>1. i \in 2 .. Len(work)
        BY <1>3, <3>2
      <4> QED
        BY <1>8, <2>1, <3>2, <4>1 DEF Unvisited, ToFree
    <3> QED
      BY <3>1, <3>2 DEF Unvisited
  <2>2. ASSUME NEW m, Unvisited(m), m # n, NEW i \in DOMAIN work', ToFree(i)'
        PROVE  work'[i].node # m
    <3>1. CASE i = 3
      BY <1>6, <2>2, <3>1
    <3>2. CASE i # 3
      BY <1>7, <1>8, <2>2, <3>2 DEF Unvisited
    <3> QED
      BY <3>1, <3>2
  <2>3. ASSUME NEW m, Unvisited(m) PROVE m \in nodes'
    BY <1>1, <2>3 DEF Unvisited
  <2> QED
    BY <2>1, <2>2, <2>3 DEF Unvisited
<1>12. Frees'
  <2> SUFFICES ASSUME NEW i \in DOMAIN work', ToFree(i)'
               PROVE  /\ work'[i].node \in nodes'
                      /\ \A j \in DOMAIN work' : ToFree(j)' /\ work'[j].node = work'[i].node => j = i
    BY DEF Frees
  <2>1. \A j \in DOMAIN work' : ToFree(j)' /\ j # 3 => work'[j].node # n
    BY <1>7, <1>8, <1>9 DEF Unvisited, ToFree
  <2>2. CASE i = 3
    <3>1. work'[i].node = n /\ n \in nodes'
      BY <1>1, <1>6, <1>9, <2>2 DEF Unvisited
    <3> QED
      BY <2>1, <2>2, <3>1
  <2>3. CASE i # 3
    <3>1. /\ ToFree(i - 2) /\ i - 2 \in DOMAIN work /\ work'[i] = work[i - 2] /\ (i - 2) + 2 = i
      BY <1>7, <1>8, <2>3
    <3>2. work[i - 2].node \in nodes
      BY <1>2, <3>1 DEF Frees
    <3>3. ASSUME NEW j \in DOMAIN work', ToFree(j)', work'[j].node = work'[i].node PROVE j = i
      <4>1. j # 3
        BY <1>6, <2>1, <2>3, <3>3
      <4>2. ToFree(j - 2) /\ j - 2 \in DOMAIN work /\ work'[j] = work[j - 2] /\ (j - 2) + 2 = j
        BY <1>7, <1>8, <3>3, <4>1
      <4>3. j - 2 = i - 2
        BY <1>2, <3>1, <3>3, <4>2 DEF Frees
      <4> QED
        BY <3>1, <4>2, <4>3
    <3> QED
      BY <1>1, <3>1, <3>2, <3>3
  <2> QED
    BY <2>2, <2>3
<1>13. Visits'
  <2> SUFFICES ASSUME NEW i \in DOMAIN work', ToVisit(i)'
               PROVE  /\ work'[i].cell # Root => \E j \in DOMAIN work' :
                            j > i /\ ToFree(j)' /\ work'[j].node = work'[i].cell[1]
                      /\ \A j \in DOMAIN work' : ToVisit(j)' /\ work'[j].cell = work'[i].cell => j = i
                      /\ ptr'[work'[i].cell] # NULL => Unvisited(ptr[work[i].cell])'
    BY DEF Visits
  <2>1. \A j \in DOMAIN work' : ToVisit(j)' /\ j \notin {1, 2} =>
           \A s \in Sides : work'[j].cell # <<n, s>>
    BY <1>7, <1>8, <1>10 DEF ToVisit
  <2>2. CASE i \in {1, 2}
    <3>1. PICK s \in Sides : work'[i].cell = <<n, s>>
      BY <1>6, <2>2 DEF Sides
    <3>2. 3 \in DOMAIN work' /\ 3 > i /\ ToFree(3)' /\ work'[3].node = work'[i].cell[1]
      <4>1. 3 \in DOMAIN work' /\ 3 > i
        BY <1>3, <1>6, <2>2
      <4> QED
        BY <1>6, <3>1, <4>1 DEF ToFree
    <3>3. ASSUME NEW j \in DOMAIN work', ToVisit(j)', work'[j].cell = work'[i].cell PROVE j = i
      <4>1. j \in {1, 2}
        BY <2>1, <3>1, <3>3
      <4> QED
        BY <1>6, <2>2, <3>3, <4>1
    <3>4. <<n, s>> \in Cells /\ <<n, s>> # c
      BY <1>3, <1>4, <1>10 DEF Cells, Sides, ToVisit
    <3>5. ptr[<<n, s>>] # NULL => Unvisited(ptr[<<n, s>>]) /\ ptr[<<n, s>>] # n
      BY <1>2, <1>4, <1>9, <3>4 DEF Below
    <3>6. ptr'[work'[i].cell] = ptr[<<n, s>>]
      BY <1>1, <3>1
    <3> QED
      BY <1>11, <3>2, <3>3, <3>5, <3>6
  <2>3. CASE i \notin {1, 2}
    <3>1. /\ ToVisit(i - 2) /\ i - 2 \in 2 .. Len(work) /\ i - 2 \in DOMAIN work
          /\ work'[i] = work[i - 2] /\ (i - 2) + 2 = i
      BY <1>7, <1>8, <2>3
    <3>2. ASSUME work'[i].cell # Root
          PROVE  \E j \in DOMAIN work' : j > i /\ ToFree(j)' /\ work'[j].node = work'[i].cell[1]
      <4>1. PICK j \in DOMAIN work : j > i - 2 /\ ToFree(j) /\ work[j].node = work[i - 2].cell[1]
        BY <1>2, <3>1, <3>2 DEF Visits
      <4>2. j \in 2 .. Len(work) /\ j + 2 > i
        BY <1>3, <3>1, <4>1
      <4> QED
        <5>1. j + 2 \in DOMAIN work' /\ work'[j + 2] = work[j] /\ ToFree(j + 2)'
          BY <1>8, <4>1, <4>2
        <5> QED
          BY <3>1, <4>1, <4>2, <5>1
    <3>3. ASSUME NEW j \in DOMAIN work', ToVisit(j)', work'[j].cell = work'[i].cell PROVE j = i
      <4>1. j \notin {1, 2}
        BY <1>6, <2>1, <2>3, <3>3 DEF Sides
      <4>2. /\ ToVisit(j - 2) /\ j - 2 \in DOMAIN work /\ work'[j] = work[j - 2]
            /\ (j - 2) + 2 = j
        BY <1>7, <1>8, <3>3, <4>1
      <4>3. j - 2 = i - 2
        BY <1>2, <3>1, <3>3, <4>2 DEF Visits
      <4> QED
        BY <3>1, <4>2, <4>3
    <3>4. work[i - 2].cell \in Cells /\ work[i - 2].cell # c
      <4>1. i - 2 # 1 /\ 1 \in DOMAIN work
        BY <1>3, <3>1
      <4>2. work[i - 2].cell # c
        BY <1>2, <1>3, <3>1, <4>1 DEF Visits
      <4>3. work[i - 2] \in Items /\ work[i - 2].do = "visit"
        BY <1>2, <3>1 DEF ToVisit
      <4> QED
        BY <4>2, <4>3 DEF Items
    <3>5. ptr[work[i - 2].cell] # NULL =>
             Unvisited(ptr[work[i - 2].cell]) /\ ptr[work[i - 2].cell] # n
      BY <1>2, <1>9, <3>1, <3>4 DEF Visits
    <3>6. ptr'[work'[i].cell] = ptr[work[i - 2].cell]
      BY <1>1, <3>1
    <3> QED
      BY <1>11, <3>2, <3>3, <3>5, <3>6
  <2> QED
    BY <2>2, <2>3
<1>14. Below'
  <2> SUFFICES ASSUME NEW m \in Nodes, NEW s \in Sides, Unvisited(m)', ptr[<<m, s>>] # NULL
               PROVE  Unvisited(ptr[<<m, s>>])'
    BY <1>1 DEF Below
  <2>1. Unvisited(m) /\ m # n /\ Unvisited(ptr[<<m, s>>])
    BY <1>2, <1>11 DEF Below
  <2>2. ptr[<<m, s>>] # n
    <3> SUFFICES ASSUME <<m, s>> = c PROVE FALSE
      BY <1>9 DEF Cells, Sides
    <3>1. c # Root
      BY NonblockingAssumption DEF Sides
    <3>2. PICK j \in DOMAIN work : ToFree(j) /\ work[j].node = m
      BY <1>2, <1>3, <3>1 DEF Visits, ToVisit
    <3> QED
      BY <2>1, <3>2 DEF Unvisited
  <2>3. ptr'[<<m, s>>] = ptr[<<m, s>>]
    BY <1>1
  <2> QED
    BY <1>11, <2>1, <2>2, <2>3
<1>15. Held' /\ OneParent'
  BY <1>1, HeldByNone, OneParentStays
<1> QED
  BY <1>1, <1>5, <1>12, <1>13, <1>14, <1>15 DEF FreeInv

LEMMA VisitFree == ASSUME Inv, FreeInv, Visit PROVE FreeInv'
<1>1. CASE ptr[Head(work).cell] # NULL
  BY <1>1, VisitNodeFree
<1>2. CASE ptr[Head(work).cell] = NULL
  BY <1>2, VisitEmptyFree
<1> QED
  BY <1>1, <1>2

-----------------------------------------------------------------------------

LEMMA NextFree == ASSUME Inv, FreeInv, [Next]_vars PROVE FreeInv'
<1>1. ASSUME NEW th \in Threads, Invoke(th) PROVE FreeInv'
  BY <1>1, InvokeFree
<1>2. ASSUME NEW th \in Threads, Step(th) PROVE FreeInv'
  BY <1>2, DescendFree, MatchFree, AllocateFree, LinkFree, ReturnFree, OtherStepsFree DEF Step
<1>3. ASSUME Main PROVE FreeInv'
  BY <1>3, JoinFree, VisitFree, FreeNodeFree DEF Main
<1>4. ASSUME UNCHANGED vars PROVE FreeInv'
  BY <1>4 DEF vars, tree, threads, main, FreeInv, Held, Linked, OneParent, Frees, Visits,
              Below, ToFree, ToVisit, Unvisited
<1> QED
  BY <1>1, <1>2, <1>3, <1>4 DEF Next, Finished

\* bst_conc_nblocking.c:37-129.  While the threads run, what they hold is in the tree,
\* and treebox_free has each node and each pointer that is left before it once.
THEOREM FreeInvariance == Spec => [](Inv /\ FreeInv)
<1>1. Init => Inv /\ FreeInv
  BY InitInv, InitFree
<1>2. Inv /\ FreeInv /\ [Next]_vars => (Inv /\ FreeInv)'
  BY NextInv, NextFree
<1> QED
  BY <1>1, <1>2, PTL DEF Spec

LEMMA InvSafe == ASSUME Inv, FreeInv PROVE NoUseAfterFree
<1>1. CASE ~joined
  <2>1. Linked \subseteq nodes /\ work = <<>>
    BY <1>1 DEF Inv, NoLeak, FreeInv
  <2>2. ASSUME NEW th \in Threads
        PROVE  /\ temp[th] \notin {NULL, Root} => temp[th][1] \in nodes \cap Linked
               /\ tp[th] # NULL => tp[th] \in nodes \cap Linked
    BY <2>1 DEF FreeInv, Held
  <2> QED
    BY <2>1, <2>2 DEF NoUseAfterFree
<1>2. CASE joined
  <2>1. \A th \in Threads : temp[th] = NULL /\ tp[th] = NULL
    BY <1>2 DEF Inv, Retired, FreeInv, Held
  <2>2. ASSUME NEW i \in DOMAIN work
        PROVE  IF work[i].do = "free" THEN work[i].node \in nodes
               ELSE work[i].cell # Root => work[i].cell[1] \in nodes
    <3>1. CASE work[i].do = "free"
      BY <1>2, <3>1 DEF FreeInv, Frees, ToFree
    <3>2. CASE work[i].do # "free"
      <4>1. work[i] \in Items
        BY <1>2 DEF FreeInv
      <4>2. ToVisit(i)
        BY <3>2, <4>1 DEF Items, ToVisit
      <4>3. ASSUME work[i].cell # Root
            PROVE  \E j \in DOMAIN work : ToFree(j) /\ work[j].node = work[i].cell[1]
        BY <1>2, <4>2, <4>3 DEF FreeInv, Visits
      <4> QED
        BY <1>2, <3>2, <4>3 DEF FreeInv, Frees
    <3> QED
      BY <3>1, <3>2
  <2> QED
    BY <2>1, <2>2 DEF NoUseAfterFree
<1> QED
  BY <1>1, <1>2

\* bst_conc_nblocking.c:37-129.  No thread reads a node that is not in the tree, and
\* treebox_free neither visits a pointer of a node it has freed nor frees one twice.
THEOREM MemorySafety == Spec => []NoUseAfterFree
<1>1. Inv /\ FreeInv => NoUseAfterFree
  BY InvSafe
<1> QED
  BY <1>1, FreeInvariance, PTL

=============================================================================
