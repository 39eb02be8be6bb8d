------------------------------- MODULE BstConc -------------------------------
(***************************************************************************)
(* bst_conc.c: a binary search tree with a lock in every cell, which a     *)
(* thread crosses hand over hand, taking the lock of a child before it     *)
(* lets go of the parent's.                                                *)
(*                                                                         *)
(* A cell (struct tree_t) is what pointers in the tree point to; it owns a *)
(* lock and points to a node (struct tree), or to none.  The lock, though  *)
(* allocated apart, lives and dies with its cell and is part of it here.   *)
(* A step goes from one lock operation to the next: all that lies between  *)
(* is done under locks, on cells and nodes that other threads cannot touch *)
(* without them (BstConcProofs proves it), so that finer steps would show  *)
(* nothing else.                                                           *)
(***************************************************************************)
EXTENDS Integers, FiniteSets, Sequences

CONSTANTS Threads,         \* the threads that share the tree
          Keys, Values,    \* what they insert
          Cells, Nodes,    \* addresses for struct tree_t and struct tree
          Root,            \* the address of the root cell, *tb
          NULL,
          MaxOps,          \* calls a thread makes before it exits
          Candidates(_)    \* the addresses malloc may pick of a set that is free

ASSUME BstAssumption ==
    /\ Keys \subseteq Int
    /\ Root \in Cells
    /\ NULL \notin Cells \cup Nodes \cup Threads \cup Values
    /\ MaxOps \in Nat
    /\ \A S \in SUBSET Cells : Candidates(S) \subseteq S
    /\ \A S \in SUBSET Nodes : Candidates(S) \subseteq S

VARIABLES cells,   \* the cells allocated
          nodes,   \* the nodes allocated
          t,       \* the node a cell points to, NULL for none
          node,    \* the fields of each node
          lock,    \* the thread that holds the lock of each cell, NULL for none
          pc, call, ret,
          tgt,     \* the cell a thread works on
          nxt,     \* the child cell it is about to lock, or has locked
          todo,    \* the calls a thread may still make
          joined,  \* has main joined the threads?
          work     \* what tree_free has still to do

memory  == <<cells, nodes, t, node>>
threads == <<pc, call, ret, tgt, nxt, todo>>
main    == <<joined, work>>
vars    == <<memory, lock, threads, main>>

Calls == [op : {"insert"}, key : Keys, value : Values]
            \cup [op : {"lookup", "delete"}, key : Keys]

Init ==
    /\ cells = {Root} /\ nodes = {}
    /\ t = [c \in Cells |-> NULL]
    /\ node = [n \in Nodes |-> NULL]
    /\ lock = [c \in Cells |-> NULL]
    /\ pc = [th \in Threads |-> "idle"]
    /\ call = [th \in Threads |-> NULL]
    /\ ret = [th \in Threads |-> NULL]
    /\ tgt = [th \in Threads |-> NULL]
    /\ nxt = [th \in Threads |-> NULL]
    /\ todo = [th \in Threads |-> MaxOps]
    /\ joined = FALSE /\ work = <<>>

-----------------------------------------------------------------------------
(* What a thread does between two lock operations. *)

Goto(th, label) == pc' = [pc EXCEPT ![th] = label]

\* acquire waits until the lock is free.
Acquire(th, c) == lock[c] = NULL /\ lock' = [lock EXCEPT ![c] = th]
Release(c)     == lock' = [lock EXCEPT ![c] = NULL]

Invoke(th) ==
    /\ pc[th] = "idle" /\ todo[th] > 0
    /\ \E c \in Calls : call' = [call EXCEPT ![th] = c]
    /\ ret' = [ret EXCEPT ![th] = NULL]
    /\ todo' = [todo EXCEPT ![th] = @ - 1]
    /\ tgt' = [tgt EXCEPT ![th] = Root]
    /\ Goto(th, "enter")
    /\ UNCHANGED <<memory, lock, nxt, main>>

Enter(th) ==
    /\ pc[th] = "enter"
    /\ Acquire(th, tgt[th])
    /\ Goto(th, "at")
    /\ UNCHANGED <<memory, call, ret, tgt, nxt, todo, main>>

\* The key is not here: go towards the child that may have it.
Towards(n, key) == IF key < n.key THEN n.left ELSE n.right

Descend_LetsGoFirst(th) ==
    /\ pc[th] = "at" /\ t[tgt[th]] # NULL
    /\ node[t[tgt[th]]].key # call[th].key
    /\ tgt' = [tgt EXCEPT ![th] = Towards(node[t[tgt[th]]], call[th].key)]
    /\ Release(tgt[th])
    /\ Goto(th, "enter")
    /\ UNCHANGED <<memory, call, ret, nxt, todo, main>>
Descend(th) ==
    /\ pc[th] = "at" /\ t[tgt[th]] # NULL
    /\ node[t[tgt[th]]].key # call[th].key
    /\ nxt' = [nxt EXCEPT ![th] = Towards(node[t[tgt[th]]], call[th].key)]
    /\ Goto(th, "couple")
    /\ UNCHANGED <<memory, lock, call, ret, tgt, todo, main>>

Couple(th) ==
    /\ pc[th] = "couple"
    /\ Acquire(th, nxt[th])
    /\ Goto(th, "letgo")
    /\ UNCHANGED <<memory, call, ret, tgt, nxt, todo, main>>

LetGo(th) ==
    /\ pc[th] = "letgo"
    /\ Release(tgt[th])
    /\ tgt' = [tgt EXCEPT ![th] = nxt[th]]
    /\ nxt' = [nxt EXCEPT ![th] = NULL]
    /\ Goto(th, "at")
    /\ UNCHANGED <<memory, call, ret, todo, main>>

-----------------------------------------------------------------------------
(* The end of each search. *)

At(th, op) == pc[th] = "at" /\ call[th].op = op

Here(th)  == t[tgt[th]] # NULL /\ node[t[tgt[th]]].key = call[th].key
Empty(th) == t[tgt[th]] = NULL

AddNode_NoLeftCell(th) ==
    /\ At(th, "insert") /\ Empty(th)
    /\ \E p2 \in Candidates(Cells \ cells), n \in Candidates(Nodes \ nodes) :
          /\ cells' = cells \cup {p2}
          /\ nodes' = nodes \cup {n}
          /\ t' = [t EXCEPT ![p2] = NULL, ![tgt[th]] = n]
          /\ node' = [node EXCEPT ![n] = [key |-> call[th].key, value |-> call[th].value,
                                          left |-> NULL, right |-> p2]]
    /\ Goto(th, "unlock")
    /\ UNCHANGED <<lock, call, ret, tgt, nxt, todo, main>>
AddNode(th) ==
    /\ At(th, "insert") /\ Empty(th)
    /\ \E p1 \in Candidates(Cells \ cells), n \in Candidates(Nodes \ nodes) :
       \E p2 \in Candidates(Cells \ (cells \cup {p1})) :
          /\ cells' = cells \cup {p1, p2}
          /\ nodes' = nodes \cup {n}
          /\ t' = [t EXCEPT ![p1] = NULL, ![p2] = NULL, ![tgt[th]] = n]
          /\ node' = [node EXCEPT ![n] = [key |-> call[th].key, value |-> call[th].value,
                                          left |-> p1, right |-> p2]]
          /\ lock' = [lock EXCEPT ![p1] = NULL, ![p2] = NULL]
    /\ Goto(th, "unlock")
    /\ UNCHANGED <<call, ret, tgt, nxt, todo, main>>

Overwrite_KeepsLock(th) ==
    /\ At(th, "insert") /\ Here(th)
    /\ node' = [node EXCEPT ![t[tgt[th]]].value = call[th].value]
    /\ Goto(th, "idle")
    /\ UNCHANGED <<cells, nodes, t, lock, call, ret, tgt, nxt, todo, main>>
Overwrite(th) ==
    /\ At(th, "insert") /\ Here(th)
    /\ node' = [node EXCEPT ![t[tgt[th]]].value = call[th].value]
    /\ Goto(th, "unlock")
    /\ UNCHANGED <<cells, nodes, t, lock, call, ret, tgt, nxt, todo, main>>

Found(th) ==
    /\ At(th, "lookup") /\ Here(th)
    /\ ret' = [ret EXCEPT ![th] = node[t[tgt[th]]].value]
    /\ Goto(th, "unlock")
    /\ UNCHANGED <<memory, lock, call, tgt, nxt, todo, main>>

\* lookup returns NULL, delete has nothing to do.
Absent(th) ==
    /\ pc[th] = "at" /\ call[th].op # "insert" /\ Empty(th)
    /\ Goto(th, "unlock")
    /\ UNCHANGED <<memory, lock, call, ret, tgt, nxt, todo, main>>

Unlock(th) ==
    /\ pc[th] = "unlock"
    /\ Release(tgt[th])
    /\ call' = [call EXCEPT ![th] = NULL]
    /\ ret' = [ret EXCEPT ![th] = NULL]
    /\ tgt' = [tgt EXCEPT ![th] = NULL]
    /\ Goto(th, "idle")
    /\ UNCHANGED <<memory, nxt, todo, main>>

-----------------------------------------------------------------------------
(* pushdown_left: the node to delete sinks to the left until it has no     *)
(* right child.  tgt is tgp, the node p, nxt is tgq, the node q.           *)

StartPushdown(th) ==
    /\ At(th, "delete") /\ Here(th)
    /\ nxt' = [nxt EXCEPT ![th] = node[t[tgt[th]]].right]
    /\ Goto(th, "right")
    /\ UNCHANGED <<memory, lock, call, ret, tgt, todo, main>>

LockRight(th) ==
    /\ pc[th] = "right"
    /\ Acquire(th, nxt[th])
    /\ Goto(th, IF t[nxt[th]] = NULL THEN "left" ELSE "turn")
    /\ UNCHANGED <<memory, call, ret, tgt, nxt, todo, main>>

TurnLeft_LosesMid(th) ==
    /\ pc[th] = "turn"
    /\ LET p == t[tgt[th]]
           q == t[nxt[th]]
       IN  /\ node' = [node EXCEPT ![q].left = nxt[th]]
           /\ t' = [t EXCEPT ![tgt[th]] = q, ![nxt[th]] = p]
    /\ Goto(th, "sink")
    /\ UNCHANGED <<cells, nodes, lock, call, ret, tgt, nxt, todo, main>>
TurnLeft(th) ==
    /\ pc[th] = "turn"
    /\ LET p == t[tgt[th]]
           q == t[nxt[th]]
       IN  /\ node' = [node EXCEPT ![p].right = node[q].left, ![q].left = nxt[th]]
           /\ t' = [t EXCEPT ![tgt[th]] = q, ![nxt[th]] = p]
    /\ Goto(th, "sink")
    /\ UNCHANGED <<cells, nodes, lock, call, ret, tgt, nxt, todo, main>>

\* tgp = q->left, which turn_left has made tgq; then the lock of the old tgp goes.
Sink(th) ==
    /\ pc[th] = "sink"
    /\ LET tgp == node[t[tgt[th]]].left
       IN  /\ tgt' = [tgt EXCEPT ![th] = tgp]
           /\ nxt' = [nxt EXCEPT ![th] = node[t[tgp]].right]
    /\ Release(tgt[th])
    /\ Goto(th, "right")
    /\ UNCHANGED <<memory, call, ret, todo, main>>

\* The left subtree takes the place of p; p and its two cells are freed, the
\* locks of these cells while this thread holds them.
Drop(th) ==
    /\ pc[th] = "left"
    /\ LET p   == t[tgt[th]]
           tgl == node[p].left
       IN  /\ lock[tgl] = NULL
           /\ t' = [t EXCEPT ![tgt[th]] = t[tgl], ![tgl] = NULL, ![nxt[th]] = NULL]
           /\ nodes' = nodes \ {p}
           /\ node' = [node EXCEPT ![p] = NULL]
           /\ cells' = cells \ {nxt[th], tgl}
           /\ lock' = [lock EXCEPT ![nxt[th]] = NULL]
    /\ nxt' = [nxt EXCEPT ![th] = NULL]
    /\ Goto(th, "unlock")
    /\ UNCHANGED <<call, ret, tgt, todo, main>>

-----------------------------------------------------------------------------
(* main waits for the threads, each of which releases thread_lock as it    *)
(* ends, and then frees the tree with treebox_free.                        *)

Join ==
    /\ ~joined
    /\ \A th \in Threads : pc[th] = "idle" /\ todo[th] = 0
    /\ joined' = TRUE
    /\ work' = <<[do |-> "visit", cell |-> Root]>>
    /\ UNCHANGED <<memory, lock, threads>>

Visit_LeftTwice ==
    /\ joined /\ work # <<>> /\ Head(work).do = "visit"
    /\ LET c == Head(work).cell
           p == t[c]
           last == <<[do |-> "free", cell |-> c]>>
       IN  IF p = NULL
           THEN /\ work' = last \o Tail(work)
                /\ UNCHANGED <<nodes, node>>
           ELSE /\ work' = <<[do |-> "visit", cell |-> node[p].left],
                             [do |-> "visit", cell |-> node[p].left]>> \o last \o Tail(work)
                /\ nodes' = nodes \ {p}
                /\ node' = [node EXCEPT ![p] = NULL]
    /\ UNCHANGED <<cells, t, lock, threads, joined>>
\* tree_free: the node of a cell, then both subtrees, then the cell with its lock,
\* which main holds from here on and nobody else can want.
Visit ==
    /\ joined /\ work # <<>> /\ Head(work).do = "visit"
    /\ LET c == Head(work).cell
           p == t[c]
           last == <<[do |-> "free", cell |-> c]>>
       IN  /\ lock[c] = NULL
           /\ IF p = NULL
              THEN /\ work' = last \o Tail(work)
                   /\ UNCHANGED <<nodes, node>>
              ELSE /\ work' = <<[do |-> "visit", cell |-> node[p].left],
                                [do |-> "visit", cell |-> node[p].right]>>
                                 \o last \o Tail(work)
                   /\ nodes' = nodes \ {p}
                   /\ node' = [node EXCEPT ![p] = NULL]
    /\ UNCHANGED <<cells, t, lock, threads, joined>>

FreeCell ==
    /\ joined /\ work # <<>> /\ Head(work).do = "free"
    /\ cells' = cells \ {Head(work).cell}
    /\ t' = [t EXCEPT ![Head(work).cell] = NULL]
    /\ work' = Tail(work)
    /\ UNCHANGED <<nodes, node, lock, threads, joined>>

Finished == joined /\ work = <<>> /\ UNCHANGED vars

-----------------------------------------------------------------------------

Step(th) ==
    \/ Enter(th) \/ Descend(th) \/ Couple(th) \/ LetGo(th)
    \/ AddNode(th) \/ Overwrite(th) \/ Found(th) \/ Absent(th) \/ Unlock(th)
    \/ StartPushdown(th) \/ LockRight(th) \/ TurnLeft(th) \/ Sink(th) \/ Drop(th)

Main == Join \/ Visit \/ FreeCell

Next == (\E th \in Threads : Invoke(th) \/ Step(th)) \/ Main \/ Finished

Spec == Init /\ [][Next]_vars

-----------------------------------------------------------------------------
(* What BstConcProofs proves for every instance.                           *)

Busy(th) == pc[th] # "idle"

NodeRecords == [key : Keys, value : Values, left : Cells, right : Cells]

\* bst_conc.c:10-11, :61-217.  The variables have the types of the C program, and
\* the fields of every node allocated are set.
TypeOK ==
    /\ cells \in SUBSET Cells /\ nodes \in SUBSET Nodes
    /\ t \in [Cells -> Nodes \cup {NULL}]
    /\ node \in [Nodes -> NodeRecords \cup {NULL}]
    /\ \A n \in nodes : node[n] \in NodeRecords
    /\ lock \in [Cells -> Threads \cup {NULL}]
    /\ pc \in [Threads -> {"idle", "enter", "at", "couple", "letgo", "unlock",
                           "right", "turn", "sink", "left"}]
    /\ call \in [Threads -> Calls \cup {NULL}]
    /\ ret \in [Threads -> Values \cup {NULL}]
    /\ tgt \in [Threads -> Cells \cup {NULL}]
    /\ nxt \in [Threads -> Cells \cup {NULL}]
    /\ todo \in [Threads -> 0 .. MaxOps]
    /\ joined \in BOOLEAN

\* bst_conc.c:155-184, :248-249.  The cells and the node a thread is about to touch
\* are allocated: neither another thread's delete, nor main's treebox_free, has
\* freed the cell whose lock it waits for or the node it has found.
NoUseAfterFree ==
    \A th \in Threads :
        /\ Busy(th) => tgt[th] \in cells
        /\ nxt[th] # NULL => nxt[th] \in cells
        /\ Busy(th) /\ pc[th] # "enter" /\ t[tgt[th]] # NULL => t[tgt[th]] \in nodes

Children(n) == {node[n].left, node[n].right}

\* bst_conc.c:61-80, :153-184.  Whatever inserts and rotations are under way, the
\* allocated cells and nodes form one binary tree under the root cell: every node
\* hangs from exactly one cell, every other cell belongs to exactly one node, and no
\* nodes hang from one another in a circle.  What delete unlinks is all that it
\* frees, so that nothing leaks.
OneTree ==
    ~joined =>
        /\ \A n \in nodes :
              /\ Children(n) \subseteq cells \ {Root} /\ node[n].left # node[n].right
              /\ \E c \in cells : {d \in cells : t[d] = n} = {c}
        /\ \A c \in cells \ {Root} : \E n \in nodes : {m \in nodes : c \in Children(m)} = {n}
        /\ \A S \in SUBSET nodes : S # {} =>
              \E n \in S : \A m \in S : \A c \in Children(m) : t[c] # n

\* The cells whose locks a thread should hold at each point of its call.
Held(th) ==
    CASE pc[th] \in {"idle", "enter"}                   -> {}
      [] pc[th] \in {"at", "couple", "right", "unlock"} -> {tgt[th]}
      [] OTHER                                           -> {tgt[th], nxt[th]}

\* bst_conc.c:61-217.  A thread holds those locks and no others, so that every path
\* through insert, lookup and delete lets go of what it has taken.
LocksMatchSteps ==
    \A c \in Cells, th \in Threads : lock[c] = th <=> c \in Held(th)

-----------------------------------------------------------------------------
(* Linearizability: a call takes effect in the step that makes the last    *)
(* change to the tree or reads it last.                                    *)

ContentsOf == [k \in {node[n].key : n \in nodes} |->
                  node[CHOOSE n \in nodes : node[n].key = k].value]

Map == IF joined THEN [k \in {} |-> NULL] ELSE ContentsOf

Stage == [th \in Threads |-> CASE pc[th] = "idle" -> "idle"
                               [] pc[th] = "unlock" -> "done"
                               [] OTHER -> "called"]

Atomic == INSTANCE AtomicMap WITH map <- Map, stage <- Stage

\* bst_conc.c:61-217.  Insert, lookup and delete are atomic for any interleaving
\* of their lock operations, each returning what the map held at one moment.
Linearizable == Atomic!Spec

-----------------------------------------------------------------------------

\* A scheduled thread runs on; a mutex that stays free is given to one that waits.
FairSpec == Spec /\ WF_vars(Main) /\ \A th \in Threads : WF_vars(Step(th) \/ Invoke(th))

==============================================================================
