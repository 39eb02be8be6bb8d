------------------------- MODULE BstConcLinearProofs -------------------------
(***************************************************************************)
(* Every call of bst_conc.c is atomic, for any number of threads, keys and *)
(* calls: hand over hand, insert, lookup and delete implement AtomicMap.   *)
(*                                                                         *)
(* The argument: each cell has bounds, the keys of its nearest ancestors   *)
(* to either side, so that no two empty cells admit the same key, and no   *)
(* empty cell a key of the tree.  A search stays within the bounds of the  *)
(* cell it is at, whatever other threads do: a rotation moves the bounds   *)
(* of one cell only, whose lock the deleting thread holds, and where a     *)
(* node is taken out, bounds give way.  So who finds an empty cell knows   *)
(* that its key is nowhere else.                                           *)
(***************************************************************************)
EXTENDS BstConcProofs

-----------------------------------------------------------------------------
(* The inductive invariant, over that of BstConcProofs.  The bounds are a  *)
(* function of the tree, but a recursive one; it is enough that there are  *)
(* some.  A bound is a set: no key, or one.                                *)

\* Key k belongs between the bounds of cell c.
Within(k, c, lo, hi) == (\A l \in lo[c] : l < k) /\ (\A h \in hi[c] : k < h)

Bounded(lo, hi) ==
    /\ lo[Root] = {} /\ hi[Root] = {}
    /\ \A c \in cells : hi[c] = {} \/ \E n \in nodes : hi[c] = {node[n].key}
    /\ \A c \in cells : t[c] # NULL =>
          /\ Within(node[t[c]].key, c, lo, hi)
          /\ lo[node[t[c]].left] = lo[c] /\ hi[node[t[c]].left] = {node[t[c]].key}
          /\ lo[node[t[c]].right] = {node[t[c]].key} /\ hi[node[t[c]].right] = hi[c]

\* No key has two places, and the empty cells have different upper bounds.
Gaps(lo, hi) ==
    /\ \A c \in cells, n \in nodes : t[c] = NULL => ~Within(node[n].key, c, lo, hi)
    /\ \A c, d \in cells : t[c] = NULL /\ t[d] = NULL /\ c # d =>
          hi[c] # hi[d] /\ \A k \in Keys : ~(Within(k, c, lo, hi) /\ Within(k, d, lo, hi))

\* A search has not lost its way.
OnTheWay(th, lo, hi) ==
    /\ pc[th] = "at" => Within(call[th].key, tgt[th], lo, hi)
    /\ pc[th] \in {"couple", "letgo"} => Within(call[th].key, nxt[th], lo, hi)

Searches ==
    \E lo, hi \in [Cells -> SUBSET Keys] :
        Bounded(lo, hi) /\ Gaps(lo, hi) /\ \A th \in Threads : OnTheWay(th, lo, hi)

DistinctKeys == \A m, n \in nodes : node[m].key = node[n].key => m = n

\* The cell of the node that pushdown_left has to take out.
Doomed(th) == IF pc[th] = "sink" THEN nxt[th] ELSE tgt[th]

\* It is the one with the key to delete; and nothing is returned before its time.
Purpose(th) ==
    /\ pc[th] \in {"right", "turn", "sink", "left"} =>
          call[th].op = "delete" /\ node[t[Doomed(th)]].key = call[th].key
    /\ pc[th] # "unlock" => ret[th] = NULL

SearchInv == ~joined => DistinctKeys /\ Searches /\ \A th \in Threads : Purpose(th)

-----------------------------------------------------------------------------

LEMMA InitSearch == Init => SearchInv
<1> SUFFICES ASSUME Init PROVE SearchInv
  OBVIOUS
<1>1. DistinctKeys /\ \A th \in Threads : Purpose(th)
  BY DEF Init, DistinctKeys, Purpose
<1> DEFINE none == [c \in Cells |-> {}]
<1>2. none \in [Cells -> SUBSET Keys]
  OBVIOUS
<1>3. Bounded(none, none) /\ Gaps(none, none)
  BY BstAssumption DEF Init, Bounded, Gaps
<1>4. \A th \in Threads : OnTheWay(th, none, none)
  BY DEF Init, OnTheWay
<1> QED
  BY <1>1, <1>2, <1>3, <1>4 DEF SearchInv, Searches

\* The keys are integers.
LEMMA KeysAreInts ==
    ASSUME Inv
    PROVE  /\ \A n \in nodes : node[n].key \in Keys /\ node[n].key \in Int
           /\ \A th \in Threads : ~joined /\ pc[th] # "idle" =>
                 call[th].key \in Keys /\ call[th].key \in Int
<1>1. \A n \in nodes : node[n].key \in Keys
  BY DEF Inv, TypeOK, NodeRecords
<1>2. \A th \in Threads : ~joined /\ pc[th] # "idle" => call[th].key \in Keys
  BY DEF Inv, Place, Busy, Calls
<1> QED
  BY <1>1, <1>2, BstAssumption

-----------------------------------------------------------------------------
(* The steps that write no memory. *)

\* Another thread's purpose stays if its node does.
LEMMA PurposeStays ==
    ASSUME NEW u \in Threads, Purpose(u),
           pc'[u] = pc[u], call'[u] = call[u], tgt'[u] = tgt[u], nxt'[u] = nxt[u], ret'[u] = ret[u],
           pc[u] \in {"right", "turn", "sink", "left"} =>
              node'[t'[Doomed(u)]].key = node[t[Doomed(u)]].key
    PROVE  Purpose(u)'
<1>1. Doomed(u)' = Doomed(u)
  BY DEF Doomed
<1> QED
  BY <1>1 DEF Purpose

LEMMA QuietSearch ==
    ASSUME SearchInv, ~joined, NEW th \in Threads, UNCHANGED <<memory, joined>>, OthersStay(th),
           \A u \in Threads \ {th} : ret'[u] = ret[u],
           \A lo, hi \in [Cells -> SUBSET Keys] :
              Bounded(lo, hi) /\ OnTheWay(th, lo, hi) => OnTheWay(th, lo, hi)',
           Purpose(th)'
    PROVE  SearchInv'
<1>1. DistinctKeys'
  BY DEF SearchInv, DistinctKeys, memory
<1>2. ASSUME NEW u \in Threads \ {th} PROVE Purpose(u)'
  BY PurposeStays DEF SearchInv, OthersStay, memory
<1>3. Searches'
  <2>1. PICK lo, hi \in [Cells -> SUBSET Keys] :
            Bounded(lo, hi) /\ Gaps(lo, hi) /\ \A u \in Threads : OnTheWay(u, lo, hi)
    BY DEF SearchInv, Searches
  <2>2. Bounded(lo, hi)' /\ Gaps(lo, hi)'
    BY <2>1 DEF Bounded, Gaps, Within, memory
  <2>3. ASSUME NEW u \in Threads \ {th} PROVE OnTheWay(u, lo, hi)'
    BY <2>1 DEF OnTheWay, OthersStay, Within
  <2>4. OnTheWay(th, lo, hi)'
    BY <2>1
  <2> QED
    BY <2>2, <2>3, <2>4 DEF Searches
<1> QED
  BY <1>1, <1>2, <1>3 DEF SearchInv

LEMMA InvokeSearch == ASSUME Inv, SearchInv, NEW th \in Threads, Invoke(th) PROVE SearchInv'
<1>1. ~joined
  BY StillRunning DEF Invoke
<1>2. pc'[th] = "enter" /\ ret'[th] = NULL
  BY DEF Invoke, Goto, Inv, TypeOK
<1>3. OthersStay(th) /\ \A u \in Threads \ {th} : ret'[u] = ret[u]
  BY DEF Invoke, Goto, OthersStay, Inv, TypeOK
<1> QED
  BY <1>1, <1>2, <1>3, QuietSearch DEF Invoke, OnTheWay, Purpose, memory, main

LEMMA EnterSearch == ASSUME Inv, SearchInv, NEW th \in Threads, Enter(th) PROVE SearchInv'
<1>1. ~joined
  BY StillRunning DEF Enter
<1>2. /\ pc[th] = "enter" /\ pc'[th] = "at" /\ tgt'[th] = Root /\ call' = call /\ ret' = ret
      /\ UNCHANGED <<memory, joined>>
  BY <1>1 DEF Enter, Goto, Inv, TypeOK, Place, main
<1>3. OthersStay(th)
  BY DEF Enter, Goto, OthersStay, Inv, TypeOK
<1>4. ASSUME NEW lo \in [Cells -> SUBSET Keys], NEW hi \in [Cells -> SUBSET Keys], Bounded(lo, hi)
      PROVE  OnTheWay(th, lo, hi)'
  BY <1>2, <1>4 DEF OnTheWay, Bounded, Within
<1>5. Purpose(th)'
  BY <1>1, <1>2 DEF SearchInv, Purpose
<1> QED
  BY <1>1, <1>2, <1>3, <1>4, <1>5, QuietSearch

LEMMA DescendSearch == ASSUME Inv, SearchInv, NEW th \in Threads, Descend(th) PROVE SearchInv'
<1> PICK c, n : c = tgt[th] /\ n = t[c]
  OBVIOUS
<1>1. ~joined
  BY StillRunning DEF Descend
<1>2. /\ pc[th] = "at" /\ pc'[th] = "couple" /\ UNCHANGED <<memory, joined>>
      /\ call' = call /\ ret' = ret /\ nxt'[th] = Towards(node[n], call[th].key)
  BY DEF Descend, Goto, Inv, TypeOK, main
<1>3. c \in cells /\ t[c] = n /\ n # NULL /\ n \in nodes /\ node[n].key # call[th].key
  BY <1>1, OwnsTarget DEF Descend, Inv, Tree
<1>4. node[n].key \in Int /\ call[th].key \in Int
  BY <1>1, <1>2, <1>3, KeysAreInts
<1>5. OthersStay(th)
  BY DEF Descend, Goto, OthersStay, Inv, TypeOK
<1>6. ASSUME NEW lo \in [Cells -> SUBSET Keys], NEW hi \in [Cells -> SUBSET Keys],
             Bounded(lo, hi), OnTheWay(th, lo, hi)
      PROVE  OnTheWay(th, lo, hi)'
  <2>1. Within(call[th].key, c, lo, hi)
    BY <1>2, <1>6 DEF OnTheWay
  <2>2. /\ lo[node[n].left] = lo[c] /\ hi[node[n].left] = {node[n].key}
        /\ lo[node[n].right] = {node[n].key} /\ hi[node[n].right] = hi[c]
    BY <1>3, <1>6 DEF Bounded
  <2>3. Within(call[th].key, nxt'[th], lo, hi)
    <3>1. CASE call[th].key < node[n].key
      BY <1>2, <2>1, <2>2, <3>1 DEF Within, Towards
    <3>2. CASE ~(call[th].key < node[n].key)
      BY <1>2, <1>3, <1>4, <2>1, <2>2, <3>2 DEF Within, Towards
    <3> QED
      BY <3>1, <3>2
  <2> QED
    BY <1>2, <2>3 DEF OnTheWay, Within
<1>7. Purpose(th)'
  BY <1>1, <1>2 DEF SearchInv, Purpose
<1> QED
  BY <1>1, <1>2, <1>5, <1>6, <1>7, QuietSearch

LEMMA CoupleSearch ==
    ASSUME Inv, SearchInv, NEW th \in Threads, Couple(th) \/ LetGo(th) PROVE SearchInv'
<1>1. ~joined
  BY StillRunning DEF Couple, LetGo
<1>2. /\ UNCHANGED <<memory, joined>> /\ call' = call /\ ret' = ret
      /\ \/ pc[th] = "couple" /\ pc'[th] = "letgo" /\ nxt'[th] = nxt[th]
         \/ pc[th] = "letgo" /\ pc'[th] = "at" /\ tgt'[th] = nxt[th]
  BY DEF Couple, LetGo, Goto, Inv, TypeOK, main
<1>3. OthersStay(th)
  BY DEF Couple, LetGo, Goto, OthersStay, Inv, TypeOK
<1>4. ASSUME NEW lo \in [Cells -> SUBSET Keys], NEW hi \in [Cells -> SUBSET Keys],
             OnTheWay(th, lo, hi)
      PROVE  OnTheWay(th, lo, hi)'
  BY <1>2, <1>4 DEF OnTheWay, Within
<1>5. Purpose(th)'
  BY <1>1, <1>2 DEF SearchInv, Purpose
<1> QED
  BY <1>1, <1>2, <1>3, <1>4, <1>5, QuietSearch

\* What ends a search, and the steps of a call that searches no more.
LEMMA EndSearch ==
    ASSUME Inv, SearchInv, NEW th \in Threads,
           \/ Found(th) \/ Absent(th) \/ Unlock(th) \/ StartPushdown(th) \/ LockRight(th) \/ Sink(th)
    PROVE  SearchInv'
<1>1. ~joined
  BY StillRunning DEF Found, Absent, Unlock, StartPushdown, LockRight, Sink, At
<1>2. UNCHANGED <<memory, joined>> /\ pc'[th] \in {"idle", "unlock", "right", "left", "turn"}
  BY DEF Found, Absent, Unlock, StartPushdown, LockRight, Sink, Goto, Inv, TypeOK, main
<1>3. OthersStay(th)
  BY DEF Found, Absent, Unlock, StartPushdown, LockRight, Sink, Goto, OthersStay, Inv, TypeOK
<1>4. \A u \in Threads \ {th} : ret'[u] = ret[u]
  BY DEF Found, Absent, Unlock, StartPushdown, LockRight, Sink, Inv, TypeOK
<1>5. Purpose(th)'
  <2>1. CASE Found(th) \/ Absent(th)
    BY <2>1 DEF Found, Absent, Goto, Purpose, Inv, TypeOK
  <2>2. CASE Unlock(th)
    BY <2>2 DEF Unlock, Goto, Purpose, Inv, TypeOK
  <2>3. CASE StartPushdown(th)
    <3>1. /\ pc[th] = "at" /\ pc'[th] = "right" /\ call' = call /\ ret' = ret /\ tgt' = tgt
          /\ call[th].op = "delete" /\ node[t[tgt[th]]].key = call[th].key
      BY <2>3 DEF StartPushdown, At, Here, Goto, Inv, TypeOK
    <3> QED
      BY <1>1, <1>2, <3>1 DEF SearchInv, Purpose, Doomed, memory
  <2>4. CASE LockRight(th)
    <3>1. /\ pc[th] = "right" /\ pc'[th] \in {"left", "turn"} /\ call' = call /\ ret' = ret
          /\ tgt' = tgt
      BY <2>4 DEF LockRight, Goto, Inv, TypeOK
    <3> QED
      BY <1>1, <1>2, <3>1 DEF SearchInv, Purpose, Doomed, memory
  <2>5. CASE Sink(th)
    <3>1. /\ pc[th] = "sink" /\ pc'[th] = "right" /\ call' = call /\ ret' = ret
          /\ tgt'[th] = nxt[th]
      BY <1>1, <2>5 DEF Sink, Goto, Inv, TypeOK, Place
    <3> QED
      BY <1>1, <1>2, <3>1 DEF SearchInv, Purpose, Doomed, memory
  <2> QED
    BY <2>1, <2>2, <2>3, <2>4, <2>5
<1>6. \A lo, hi \in [Cells -> SUBSET Keys] : OnTheWay(th, lo, hi)'
  BY <1>2 DEF OnTheWay
<1> QED
  BY <1>1, <1>2, <1>3, <1>4, <1>5, <1>6, QuietSearch

-----------------------------------------------------------------------------
(* The steps that write memory. *)

\* Where other threads work when th writes.
LEMMA OthersWork ==
    ASSUME Inv, ~joined, NEW th \in Threads, pc[th] \notin {"idle", "enter"},
           NEW u \in Threads \ {th}, pc[u] \in {"right", "turn", "sink", "left"}
    PROVE  /\ Doomed(u) \in cells /\ t[Doomed(u)] \in nodes /\ lock[Doomed(u)] = u
           /\ Doomed(u) # tgt[th] /\ t[Doomed(u)] # t[tgt[th]]
           /\ pc[th] \in {"letgo", "turn", "sink", "left"} =>
                 Doomed(u) # nxt[th] /\ t[Doomed(u)] # t[nxt[th]]
<1>1. Doomed(u) \in cells /\ t[Doomed(u)] # NULL /\ lock[Doomed(u)] = u
  <2>1. CASE pc[u] = "sink"
    BY <2>1, OwnsNext, NextIsAllocated DEF Inv, Place, Doomed
  <2>2. CASE pc[u] # "sink"
    BY <2>2, OwnsTarget DEF Inv, Place, Doomed
  <2> QED
    BY <2>1, <2>2
<1>2. Doomed(u) # tgt[th] /\ (pc[th] \in {"letgo", "turn", "sink", "left"} => Doomed(u) # nxt[th])
  BY Apart DEF Doomed
<1>3. tgt[th] \in cells /\ (pc[th] \in {"letgo", "turn", "sink", "left"} => nxt[th] \in cells)
  BY OwnsTarget, OwnsNext, NextIsAllocated
<1> QED
  BY <1>1, <1>2, <1>3 DEF Inv, Tree

\* The cells that another thread has come to, or waits for, when th writes.
LEMMA OthersSearch ==
    ASSUME Inv, ~joined, NEW th \in Threads, pc[th] \in {"turn", "left"},
           NEW u \in Threads \ {th}
    PROVE  /\ pc[u] = "at" => tgt[u] \in cells \ {nxt[th]}
           /\ pc[u] \in {"couple", "letgo"} => nxt[u] \in cells \ {nxt[th]}
<1>1. pc[u] = "at" => tgt[u] \in cells \ {nxt[th]}
  BY Apart, OwnsTarget
<1>2. ASSUME pc[u] \in {"couple", "letgo"} PROVE nxt[u] \in cells \ {nxt[th]}
  <2>1. nxt[u] \in Children(t[tgt[u]]) /\ t[tgt[u]] \in nodes /\ nxt[u] \in cells
    BY <1>2, OwnsTarget DEF Inv, Place, Tree
  <2>2. nxt[th] \in Children(t[tgt[th]]) /\ t[tgt[th]] \in nodes
    BY OwnsTarget DEF Inv, Place, Tree, Children
  <2>3. t[tgt[u]] # t[tgt[th]]
    BY <1>2, <2>1, Apart DEF Inv, Place
  <2> QED
    BY <2>1, <2>2, <2>3 DEF Inv, Tree
<1> QED
  BY <1>1, <1>2

LEMMA OverwriteSearch == ASSUME Inv, SearchInv, NEW th \in Threads, Overwrite(th) PROVE SearchInv'
<1>1. ~joined
  BY StillRunning DEF Overwrite, At
<1>2. /\ pc[th] = "at" /\ pc'[th] = "unlock" /\ call' = call /\ ret' = ret
      /\ UNCHANGED <<cells, nodes, t, joined>>
  BY DEF Overwrite, At, Goto, Inv, TypeOK, main
<1>3. t[tgt[th]] \in nodes
  BY <1>1, OwnsTarget DEF Inv, Tree, Overwrite, At, Here
<1>4. \A n \in nodes : /\ node'[n].key = node[n].key
                       /\ node'[n].left = node[n].left /\ node'[n].right = node[n].right
  BY <1>3 DEF Inv, TypeOK, NodeRecords, Overwrite
<1>5. OthersStay(th)
  BY DEF Overwrite, Goto, OthersStay, Inv, TypeOK
<1>6. DistinctKeys'
  BY <1>1, <1>2, <1>4 DEF SearchInv, DistinctKeys
<1>7. ASSUME NEW u \in Threads PROVE Purpose(u)'
  <2>1. CASE u = th
    BY <1>2, <2>1 DEF Purpose
  <2>2. CASE u # th
    BY <1>1, <1>2, <1>4, <1>5, <2>2, OthersWork, PurposeStays DEF SearchInv, OthersStay
  <2> QED
    BY <2>1, <2>2
<1>8. Searches'
  <2>1. PICK lo, hi \in [Cells -> SUBSET Keys] :
            Bounded(lo, hi) /\ Gaps(lo, hi) /\ \A u \in Threads : OnTheWay(u, lo, hi)
    BY <1>1 DEF SearchInv, Searches
  <2>2. \A c \in cells : t[c] # NULL => t[c] \in nodes
    BY <1>1 DEF Inv, Tree
  <2>3. Bounded(lo, hi)'
    <3>1. ASSUME NEW c \in cells PROVE hi[c] = {} \/ \E n \in nodes' : hi[c] = {node'[n].key}
      <4>1. hi[c] = {} \/ \E n \in nodes : hi[c] = {node[n].key}
        BY <2>1 DEF Bounded
      <4> QED
        BY <1>2, <1>4, <4>1
    <3>2. ASSUME NEW c \in cells, t[c] # NULL
          PROVE  /\ Within(node'[t[c]].key, c, lo, hi)
                 /\ lo[node'[t[c]].left] = lo[c] /\ hi[node'[t[c]].left] = {node'[t[c]].key}
                 /\ lo[node'[t[c]].right] = {node'[t[c]].key} /\ hi[node'[t[c]].right] = hi[c]
      BY <1>4, <2>1, <2>2, <3>2 DEF Bounded
    <3> QED
      BY <1>2, <2>1, <3>1, <3>2 DEF Bounded, Within
  <2>4. Gaps(lo, hi)'
    BY <1>2, <1>4, <2>1 DEF Gaps, Within
  <2>5. ASSUME NEW u \in Threads PROVE OnTheWay(u, lo, hi)'
    <3>1. CASE u = th
      BY <1>2, <3>1 DEF OnTheWay
    <3>2. CASE u # th
      BY <1>5, <2>1, <3>2 DEF OnTheWay, OthersStay, Within
    <3> QED
      BY <3>1, <3>2
  <2> QED
    BY <2>1, <2>3, <2>4, <2>5 DEF Searches
<1> QED
  BY <1>6, <1>7, <1>8 DEF SearchInv

LEMMA AddNodeSearch == ASSUME Inv, SearchInv, NEW th \in Threads, AddNode(th) PROVE SearchInv'
<1> PICK c, k : c = tgt[th] /\ k = call[th].key
  OBVIOUS
<1>1. ~joined /\ pc[th] = "at"
  BY StillRunning DEF AddNode, At
<1>2. c \in cells /\ c \in Cells /\ t[c] = NULL
  BY <1>1, OwnsTarget DEF AddNode, Empty
<1>3. PICK p1 \in Cells \ cells, p2 \in Cells \ cells, n \in Nodes \ nodes :
          /\ p1 # p2
          /\ cells' = cells \cup {p1, p2}
          /\ nodes' = nodes \cup {n}
          /\ t' = [t EXCEPT ![p1] = NULL, ![p2] = NULL, ![c] = n]
          /\ node' = [node EXCEPT ![n] = [key |-> k, value |-> call[th].value,
                                          left |-> p1, right |-> p2]]
          /\ lock' = [lock EXCEPT ![p1] = NULL, ![p2] = NULL]
  BY AddNodeEffect
<1>4. /\ node'[n].key = k /\ node'[n].left = p1 /\ node'[n].right = p2
      /\ \A m \in nodes : node'[m] = node[m]
  BY <1>3 DEF Inv, TypeOK
<1>5. /\ t'[p1] = NULL /\ t'[p2] = NULL /\ t'[c] = n /\ n # NULL
      /\ \A d \in cells \ {c} : t'[d] = t[d]
  BY <1>2, <1>3, BstAssumption DEF Inv, TypeOK
<1>6. pc'[th] = "unlock" /\ call' = call /\ ret' = ret
  BY DEF AddNode, Goto, Inv, TypeOK
<1>7. OthersStay(th)
  BY DEF AddNode, Goto, OthersStay, Inv, TypeOK
<1>8. k \in Keys /\ k \in Int /\ \A m \in nodes : node[m].key \in Keys /\ node[m].key \in Int
  BY <1>1, KeysAreInts
<1>9. PICK lo, hi \in [Cells -> SUBSET Keys] :
          Bounded(lo, hi) /\ Gaps(lo, hi) /\ \A u \in Threads : OnTheWay(u, lo, hi)
  BY <1>1 DEF SearchInv, Searches
<1>10. Within(k, c, lo, hi)
  BY <1>1, <1>9 DEF OnTheWay
<1>11. \A m \in nodes : node[m].key # k
  BY <1>2, <1>9, <1>10 DEF Gaps
<1>12. DistinctKeys'
  BY <1>1, <1>3, <1>4, <1>11 DEF SearchInv, DistinctKeys
<1>13. ASSUME NEW u \in Threads PROVE Purpose(u)'
  <2>1. CASE u = th
    BY <1>6, <2>1 DEF Purpose
  <2>2. CASE u # th
    BY <1>1, <1>4, <1>5, <1>6, <1>7, <2>2, OthersWork, PurposeStays DEF SearchInv, OthersStay
  <2> QED
    BY <2>1, <2>2
<1> DEFINE lo2 == [lo EXCEPT ![p1] = lo[c], ![p2] = {k}]
           hi2 == [hi EXCEPT ![p1] = {k}, ![p2] = hi[c]]
<1>14. /\ lo2 \in [Cells -> SUBSET Keys] /\ hi2 \in [Cells -> SUBSET Keys]
       /\ lo2[p1] = lo[c] /\ hi2[p1] = {k} /\ lo2[p2] = {k} /\ hi2[p2] = hi[c]
       /\ \A d \in cells : lo2[d] = lo[d] /\ hi2[d] = hi[d]
  <2>1. p1 \in Cells /\ p2 \in Cells /\ p1 # p2 /\ p1 \notin cells /\ p2 \notin cells
    BY <1>3
  <2>2. lo2 \in [Cells -> SUBSET Keys] /\ hi2 \in [Cells -> SUBSET Keys]
    BY <1>2, <1>8, <1>9, <2>1
  <2>3. /\ lo2[p1] = lo[c] /\ hi2[p1] = {k} /\ lo2[p2] = {k} /\ hi2[p2] = hi[c]
        /\ \A d \in Cells \ {p1, p2} : lo2[d] = lo[d] /\ hi2[d] = hi[d]
    BY <1>9, <2>1
  <2>4. \A d \in cells : d \in Cells \ {p1, p2}
    BY <2>1 DEF Inv, TypeOK
  <2> QED
    BY <2>2, <2>3, <2>4
<1> HIDE DEF lo2, hi2
<1>15. /\ \A x, d : d \in cells => (Within(x, d, lo2, hi2) <=> Within(x, d, lo, hi))
       /\ \A x \in Int : Within(x, p1, lo2, hi2) => Within(x, c, lo, hi) /\ x < k
       /\ \A x \in Int : Within(x, p2, lo2, hi2) => Within(x, c, lo, hi) /\ k < x
  <2>1. \A x, d : d \in cells => (Within(x, d, lo2, hi2) <=> Within(x, d, lo, hi))
    BY <1>14 DEF Within
  <2>2. (\A l \in lo[c] : l < k /\ l \in Int) /\ (\A h \in hi[c] : k < h /\ h \in Int)
    BY <1>2, <1>10, BstAssumption DEF Within
  <2>3. \A x \in Int : Within(x, p1, lo2, hi2) => Within(x, c, lo, hi) /\ x < k
    BY <1>8, <1>14, <2>2 DEF Within
  <2>4. \A x \in Int : Within(x, p2, lo2, hi2) => Within(x, c, lo, hi) /\ k < x
    BY <1>8, <1>14, <2>2 DEF Within
  <2> QED
    BY <2>1, <2>3, <2>4
<1>16. Bounded(lo2, hi2)'
  <2>1. Root \in cells /\ \A d \in cells : t[d] # NULL =>
            t[d] \in nodes /\ node[t[d]].left \in cells /\ node[t[d]].right \in cells
    BY <1>1 DEF Inv, Tree, Children
  <2>2. lo2[Root] = {} /\ hi2[Root] = {}
    BY <1>9, <1>14, <2>1 DEF Bounded
  <2>3. ASSUME NEW d \in cells' PROVE hi2[d] = {} \/ \E m \in nodes' : hi2[d] = {node'[m].key}
    <3>1. \A e \in cells : hi[e] = {} \/ \E m \in nodes : hi[e] = {node[m].key}
      BY <1>9 DEF Bounded
    <3>2. \A e \in cells : hi[e] = {} \/ \E m \in nodes' : hi[e] = {node'[m].key}
      BY <1>3, <1>4, <3>1
    <3>3. hi2[p1] = {node'[n].key} /\ n \in nodes'
      BY <1>3, <1>4, <1>14
    <3> QED
      BY <1>2, <1>3, <1>14, <3>2, <3>3
  <2>4. ASSUME NEW d \in cells', t'[d] # NULL
        PROVE  /\ Within(node'[t'[d]].key, d, lo2, hi2)
               /\ lo2[node'[t'[d]].left] = lo2[d] /\ hi2[node'[t'[d]].left] = {node'[t'[d]].key}
               /\ lo2[node'[t'[d]].right] = {node'[t'[d]].key} /\ hi2[node'[t'[d]].right] = hi2[d]
    <3>1. CASE d = c
      BY <1>2, <1>4, <1>5, <1>10, <1>14, <1>15, <3>1
    <3>2. CASE d # c
      <4>1. d \in cells /\ t'[d] = t[d] /\ t[d] # NULL
        BY <1>3, <1>5, <2>4, <3>2
      <4>2. t[d] \in nodes /\ node'[t'[d]] = node[t[d]]
        BY <1>4, <2>1, <4>1
      <4>3. /\ Within(node[t[d]].key, d, lo, hi)
            /\ lo[node[t[d]].left] = lo[d] /\ hi[node[t[d]].left] = {node[t[d]].key}
            /\ lo[node[t[d]].right] = {node[t[d]].key} /\ hi[node[t[d]].right] = hi[d]
        BY <1>9, <4>1 DEF Bounded
      <4> QED
        BY <1>14, <1>15, <2>1, <4>1, <4>2, <4>3
    <3> QED
      BY <3>1, <3>2
  <2> QED
    BY <2>2, <2>3, <2>4 DEF Bounded, Within
<1>17. Gaps(lo2, hi2)'
  <2>1. /\ \A d \in cells, m \in nodes : t[d] = NULL => ~Within(node[m].key, d, lo, hi)
        /\ \A d, e \in cells : t[d] = NULL /\ t[e] = NULL /\ d # e =>
              hi[d] # hi[e] /\ \A x \in Keys : ~(Within(x, d, lo, hi) /\ Within(x, e, lo, hi))
    BY <1>9 DEF Gaps
  <2>2. \A d \in cells' : t'[d] = NULL => d \in {p1, p2} \/ (d \in cells /\ d # c /\ t[d] = NULL)
    BY <1>3, <1>5
  <2>3. ASSUME NEW d \in cells', NEW m \in nodes', t'[d] = NULL
        PROVE  ~Within(node'[m].key, d, lo2, hi2)
    <3>1. CASE m = n
      BY <1>2, <1>4, <1>8, <1>10, <1>15, <2>1, <2>2, <2>3, <3>1
    <3>2. CASE m # n
      <4>1. m \in nodes /\ node'[m].key = node[m].key
        BY <1>3, <1>4, <3>2
      <4> QED
        BY <1>2, <1>8, <1>15, <2>1, <2>2, <2>3, <4>1
    <3> QED
      BY <3>1, <3>2
  <2>4. ASSUME NEW d \in cells', NEW e \in cells', t'[d] = NULL, t'[e] = NULL, d # e
        PROVE  hi2[d] # hi2[e]
    <3>1. ASSUME NEW a \in cells PROVE hi[a] # {k}
      <4>1. hi[a] = {} \/ \E m \in nodes : hi[a] = {node[m].key}
        BY <1>9 DEF Bounded
      <4> QED
        BY <1>11, <4>1
    <3> QED
      BY <1>2, <1>14, <2>1, <2>2, <2>4, <3>1
  <2>5. ASSUME NEW d \in cells', NEW e \in cells', t'[d] = NULL, t'[e] = NULL, d # e,
               NEW x \in Keys, Within(x, d, lo2, hi2), Within(x, e, lo2, hi2)
        PROVE  FALSE
    <3>1. x \in Int
      BY BstAssumption
    <3>2. CASE d \in {p1, p2} /\ e \in {p1, p2}
      BY <1>8, <1>15, <2>5, <3>1, <3>2
    <3>3. CASE ~(d \in {p1, p2} /\ e \in {p1, p2})
      BY <1>2, <1>15, <2>1, <2>2, <2>5, <3>1, <3>3
    <3> QED
      BY <3>2, <3>3
  <2> QED
    BY <2>3, <2>4, <2>5 DEF Gaps, Within
<1>18. ASSUME NEW u \in Threads PROVE OnTheWay(u, lo2, hi2)'
  <2>1. CASE u = th
    BY <1>6, <2>1 DEF OnTheWay
  <2>2. CASE u # th
    <3>1. /\ pc[u] = "at" => tgt[u] \in cells /\ Within(call[u].key, tgt[u], lo, hi)
          /\ pc[u] \in {"couple", "letgo"} =>
                nxt[u] \in cells /\ Within(call[u].key, nxt[u], lo, hi)
      BY <1>1, <1>9, OwnsTarget, NextIsAllocated, BstAssumption
      DEF OnTheWay, Inv, Place, Tree
    <3>2. /\ pc[u] = "at" => Within(call[u].key, tgt[u], lo2, hi2)
          /\ pc[u] \in {"couple", "letgo"} => Within(call[u].key, nxt[u], lo2, hi2)
      BY <1>15, <3>1
    <3> QED
      BY <1>7, <2>2, <3>2 DEF OnTheWay, OthersStay, Within
  <2> QED
    BY <2>1, <2>2
<1>19. Searches'
  BY <1>14, <1>16, <1>17, <1>18 DEF Searches
<1> QED
  BY <1>12, <1>13, <1>19 DEF SearchInv

\* The left child of the node taken out gives way to the right one: the bounds of
\* the cell between them, which th has locked, are the only ones that move.
LEMMA TurnLeftSearch == ASSUME Inv, SearchInv, NEW th \in Threads, TurnLeft(th) PROVE SearchInv'
<1> PICK c, r, p, q, k : c = tgt[th] /\ r = nxt[th] /\ p = t[c] /\ q = t[r] /\ k = node[q].key
  OBVIOUS
<1>1. ~joined /\ pc[th] = "turn"
  BY StillRunning DEF TurnLeft
<1>2. /\ c \in cells /\ c \in Cells /\ r \in cells /\ r \in Cells /\ r # c
      /\ p # NULL /\ q # NULL /\ r = node[p].right
  BY <1>1, OwnsTarget, OwnsNext, NextIsAllocated DEF Inv, Place
<1>3. /\ \A e \in cells : t[e] # NULL =>
            t[e] \in nodes /\ node[t[e]].left \in cells /\ node[t[e]].right \in cells
      /\ \A e, f \in cells : t[e] = t[f] /\ t[e] # NULL => e = f
      /\ Root \in cells /\ r # Root
  BY <1>1, <1>2 DEF Inv, Tree, Children
<1>4. p \in nodes /\ q \in nodes /\ p # q
  BY <1>2, <1>3
<1>5. /\ \A e \in cells \ {c, r} : t'[e] = t[e]
      /\ t'[c] = q /\ t'[r] = p /\ cells' = cells /\ nodes' = nodes
  BY <1>2 DEF Inv, TypeOK, TurnLeft
<1>6. /\ \A m \in nodes : node'[m].key = node[m].key
      /\ node'[q].left = r /\ node'[q].right = node[q].right
      /\ node'[p].left = node[p].left /\ node'[p].right = node[q].left
      /\ \A m \in nodes \ {p, q} : node'[m] = node[m]
  <2>1. node[p] \in NodeRecords /\ node[q] \in NodeRecords /\ p \in Nodes /\ q \in Nodes
    BY <1>4 DEF Inv, TypeOK
  <2>2. node' = [node EXCEPT ![p].right = node[q].left, ![q].left = r]
    BY DEF TurnLeft
  <2> QED
    BY <1>4, <2>1, <2>2 DEF Inv, TypeOK, NodeRecords
<1>7. pc'[th] = "sink" /\ call' = call /\ ret' = ret /\ tgt' = tgt /\ nxt' = nxt
  BY DEF TurnLeft, Goto, Inv, TypeOK
<1>8. OthersStay(th)
  BY DEF TurnLeft, Goto, OthersStay, Inv, TypeOK
<1>9. DistinctKeys'
  BY <1>1, <1>5, <1>6 DEF SearchInv, DistinctKeys
<1>10. ASSUME NEW u \in Threads PROVE Purpose(u)'
  <2>1. CASE u = th
    <3>1. call[th].op = "delete" /\ node[p].key = call[th].key /\ ret[th] = NULL
      BY <1>1 DEF SearchInv, Purpose, Doomed
    <3> QED
      BY <1>4, <1>5, <1>6, <1>7, <2>1, <3>1 DEF Purpose, Doomed
  <2>2. CASE u # th
    <3>1. pc[u] \in {"right", "turn", "sink", "left"} =>
              t[Doomed(u)] \in nodes /\ Doomed(u) \in cells \ {c, r}
      BY <1>1, <2>2, OthersWork
    <3>2. pc[u] \in {"right", "turn", "sink", "left"} =>
              node'[t'[Doomed(u)]].key = node[t[Doomed(u)]].key
      BY <1>5, <1>6, <3>1
    <3> QED
      BY <1>1, <1>7, <1>8, <2>2, <3>2, PurposeStays DEF SearchInv, OthersStay
  <2> QED
    BY <2>1, <2>2
<1>11. PICK lo, hi \in [Cells -> SUBSET Keys] :
          Bounded(lo, hi) /\ Gaps(lo, hi) /\ \A u \in Threads : OnTheWay(u, lo, hi)
  BY <1>1 DEF SearchInv, Searches
<1> DEFINE lo2 == [lo EXCEPT ![r] = lo[c]]
           hi2 == [hi EXCEPT ![r] = {k}]
<1>12. /\ lo2 \in [Cells -> SUBSET Keys] /\ hi2 \in [Cells -> SUBSET Keys]
       /\ lo2[r] = lo[c] /\ hi2[r] = {k}
       /\ \A e \in cells \ {r} : lo2[e] = lo[e] /\ hi2[e] = hi[e]
  <2>1. k \in Keys
    BY <1>4, KeysAreInts
  <2>2. cells \subseteq Cells
    BY DEF Inv, TypeOK
  <2> QED
    BY <1>2, <1>11, <2>1, <2>2
<1> HIDE DEF lo2, hi2
<1>13. \A x, e : e \in cells \ {r} => (Within(x, e, lo2, hi2) <=> Within(x, e, lo, hi))
  BY <1>12 DEF Within
<1>14. Bounded(lo2, hi2)'
  <2>1. lo2[Root] = {} /\ hi2[Root] = {}
    BY <1>3, <1>11, <1>12 DEF Bounded
  <2>2. ASSUME NEW e \in cells' PROVE hi2[e] = {} \/ \E m \in nodes' : hi2[e] = {node'[m].key}
    <3>1. CASE e = r
      BY <1>4, <1>5, <1>6, <1>12, <3>1
    <3>2. CASE e # r
      <4>1. hi2[e] = {} \/ \E m \in nodes : hi2[e] = {node[m].key}
        BY <1>5, <1>11, <1>12, <3>2 DEF Bounded
      <4> QED
        BY <1>5, <1>6, <4>1
    <3> QED
      BY <3>1, <3>2
  <2>3. ASSUME NEW e \in cells, t[e] # NULL
        PROVE  /\ Within(node[t[e]].key, e, lo, hi)
               /\ lo[node[t[e]].left] = lo[e] /\ hi[node[t[e]].left] = {node[t[e]].key}
               /\ lo[node[t[e]].right] = {node[t[e]].key} /\ hi[node[t[e]].right] = hi[e]
    BY <1>11, <2>3 DEF Bounded
  <2>4. /\ node[p].left \in cells \ {r} /\ node[q].left \in cells \ {r}
        /\ node[q].right \in cells \ {r}
    BY <1>1, <1>2, <1>3, <1>4 DEF Inv, Tree, Children
  <2>5. ASSUME NEW e \in cells', t'[e] # NULL
        PROVE  /\ Within(node'[t'[e]].key, e, lo2, hi2)
               /\ lo2[node'[t'[e]].left] = lo2[e] /\ hi2[node'[t'[e]].left] = {node'[t'[e]].key}
               /\ lo2[node'[t'[e]].right] = {node'[t'[e]].key} /\ hi2[node'[t'[e]].right] = hi2[e]
    <3>1. /\ node[p].key \in Int /\ node[q].key \in Int
          /\ \A x \in lo[c] : x \in Int
      BY <1>2, <1>4, <1>11, KeysAreInts, BstAssumption
    <3>2. /\ \A x \in lo[c] : x < node[p].key /\ x < node[q].key
          /\ \A x \in hi[c] : node[q].key < x
          /\ node[p].key < node[q].key
      <4>1. Within(node[p].key, c, lo, hi) /\ Within(node[q].key, r, lo, hi)
        BY <1>2, <2>3
      <4>2. lo[r] = {node[p].key} /\ hi[r] = hi[c]
        BY <1>2, <2>3
      <4>3. \A x \in lo[c] : x < node[p].key
        BY <4>1 DEF Within
      <4>4. node[p].key < node[q].key /\ \A x \in hi[c] : node[q].key < x
        BY <4>1, <4>2 DEF Within
      <4> QED
        BY <3>1, <4>3, <4>4
    <3>3. CASE e = c
      <4>1. Within(node[q].key, c, lo2, hi2)
        BY <1>2, <1>12, <3>2 DEF Within
      <4>2. /\ t'[e] = q /\ node'[q].key = k
            /\ node'[q].left = r /\ node'[q].right = node[q].right
        BY <1>4, <1>5, <1>6, <3>3
      <4>3. lo2[r] = lo2[c] /\ hi2[r] = {k}
        BY <1>2, <1>12
      <4>4. lo2[node[q].right] = {k} /\ hi2[node[q].right] = hi2[c]
        <5>1. lo[node[q].right] = {k} /\ hi[node[q].right] = hi[r] /\ hi[r] = hi[c]
          BY <1>2, <2>3
        <5> QED
          BY <1>2, <1>12, <2>4, <5>1
      <4> QED
        BY <3>3, <4>1, <4>2, <4>3, <4>4
    <3>4. CASE e = r
      <4>1. Within(node[p].key, r, lo2, hi2)
        BY <1>12, <3>2 DEF Within
      <4>2. /\ t'[e] = p /\ node'[p].key = node[p].key
            /\ node'[p].left = node[p].left /\ node'[p].right = node[q].left
        BY <1>4, <1>5, <1>6, <3>4
      <4>3. lo2[node[p].left] = lo2[r] /\ hi2[node[p].left] = {node[p].key}
        <5>1. lo[node[p].left] = lo[c] /\ hi[node[p].left] = {node[p].key}
          BY <1>2, <2>3
        <5> QED
          BY <1>2, <1>12, <2>4, <5>1
      <4>4. lo2[node[q].left] = {node[p].key} /\ hi2[node[q].left] = hi2[r]
        <5>1. lo[node[q].left] = lo[r] /\ hi[node[q].left] = {k} /\ lo[r] = {node[p].key}
          BY <1>2, <2>3
        <5> QED
          BY <1>2, <1>12, <2>4, <5>1
      <4> QED
        BY <3>4, <4>1, <4>2, <4>3, <4>4
    <3>5. CASE e \notin {c, r}
      <4>1. e \in cells \ {c, r} /\ t'[e] = t[e] /\ t[e] # NULL /\ t[e] \in nodes \ {p, q}
        BY <1>2, <1>3, <1>5, <2>5, <3>5
      <4>2. node[t[e]].left \in cells \ {r} /\ node[t[e]].right \in cells \ {r}
        BY <1>1, <1>2, <1>3, <1>4, <4>1 DEF Inv, Tree, Children
      <4>3. /\ Within(node[t[e]].key, e, lo2, hi2)
            /\ lo2[node[t[e]].left] = lo2[e] /\ hi2[node[t[e]].left] = {node[t[e]].key}
            /\ lo2[node[t[e]].right] = {node[t[e]].key} /\ hi2[node[t[e]].right] = hi2[e]
        <5>1. /\ Within(node[t[e]].key, e, lo, hi)
              /\ lo[node[t[e]].left] = lo[e] /\ hi[node[t[e]].left] = {node[t[e]].key}
              /\ lo[node[t[e]].right] = {node[t[e]].key} /\ hi[node[t[e]].right] = hi[e]
          BY <2>3, <4>1
        <5>2. e \in cells \ {r}
          BY <4>1
        <5> QED
          BY <1>12, <1>13, <4>2, <5>1, <5>2
      <4>4. node'[t'[e]] = node[t[e]]
        BY <1>6, <4>1
      <4> QED
        BY <4>3, <4>4
    <3> QED
      BY <3>3, <3>4, <3>5
  <2> QED
    BY <2>1, <2>2, <2>5 DEF Bounded, Within
<1>15. Gaps(lo2, hi2)'
  <2>1. \A e \in cells : t'[e] = NULL => t[e] = NULL /\ e # r
    BY <1>2, <1>3, <1>4, <1>5
  <2>2. ASSUME NEW e \in cells, NEW m \in nodes, t'[e] = NULL
        PROVE  ~Within(node'[m].key, e, lo2, hi2)
    BY <1>6, <1>11, <1>13, <2>1, <2>2 DEF Gaps
  <2>3. ASSUME NEW e \in cells, NEW f \in cells, t'[e] = NULL, t'[f] = NULL, e # f
        PROVE  /\ hi2[e] # hi2[f]
               /\ \A x \in Keys : ~(Within(x, e, lo2, hi2) /\ Within(x, f, lo2, hi2))
    BY <1>11, <1>12, <1>13, <2>1, <2>3 DEF Gaps
  <2> QED
    BY <1>5, <2>2, <2>3 DEF Gaps, Within
<1>16. ASSUME NEW u \in Threads PROVE OnTheWay(u, lo2, hi2)'
  <2>1. CASE u = th
    BY <1>7, <2>1 DEF OnTheWay
  <2>2. CASE u # th
    <3>1. /\ pc[u] = "at" => tgt[u] \in cells \ {r} /\ Within(call[u].key, tgt[u], lo, hi)
          /\ pc[u] \in {"couple", "letgo"} =>
                nxt[u] \in cells \ {r} /\ Within(call[u].key, nxt[u], lo, hi)
      BY <1>1, <1>11, <2>2, OthersSearch DEF OnTheWay
    <3>2. /\ pc[u] = "at" => Within(call[u].key, tgt[u], lo2, hi2)
          /\ pc[u] \in {"couple", "letgo"} => Within(call[u].key, nxt[u], lo2, hi2)
      BY <1>13, <3>1
    <3> QED
      BY <1>8, <2>2, <3>2 DEF OnTheWay, OthersStay, Within
  <2> QED
    BY <2>1, <2>2
<1>17. Searches'
  BY <1>12, <1>14, <1>15, <1>16 DEF Searches
<1> QED
  BY <1>9, <1>10, <1>17 DEF SearchInv

\* The cell of the node taken out takes over its left subtree, and whatever was
\* bounded by its key takes over the bound of the empty cell on its right.
LEMMA DropSearch == ASSUME Inv, SearchInv, NEW th \in Threads, Drop(th) PROVE SearchInv'
<1> PICK c, r, p, l, k :
        c = tgt[th] /\ r = nxt[th] /\ p = t[c] /\ l = node[p].left /\ k = node[p].key
  OBVIOUS
<1>1. ~joined /\ pc[th] = "left"
  BY StillRunning DEF Drop
<1>2. /\ c \in cells /\ c \in Cells /\ r \in cells /\ r \in Cells
      /\ p # NULL /\ p \in nodes /\ r = node[p].right /\ t[r] = NULL
  BY <1>1, OwnsTarget, OwnsNext, NextIsAllocated DEF Inv, Place
<1>3. /\ l \in cells /\ l \in Cells /\ lock[l] = NULL /\ lock[c] = th
      /\ l # r /\ l # c /\ r # c /\ l # Root /\ r # Root /\ Root \in cells /\ cells \subseteq Cells
  BY <1>1, <1>2, OwnsTarget, BstAssumption DEF Drop, Inv, Tree, TypeOK, Children, Place
<1>4. /\ \A e \in cells : t[e] # NULL =>
            t[e] \in nodes /\ node[t[e]].left \in cells /\ node[t[e]].right \in cells
      /\ \A e, f \in cells : t[e] = t[f] /\ t[e] # NULL => e = f
  BY <1>1 DEF Inv, Tree, Children
<1>5. /\ cells' = cells \ {l, r} /\ nodes' = nodes \ {p}
      /\ t'[c] = t[l] /\ \A e \in cells' \ {c} : t'[e] = t[e]
      /\ \A m \in nodes' : node'[m] = node[m]
  BY <1>2, <1>3 DEF Inv, TypeOK, Drop
<1>6. pc'[th] = "unlock" /\ call' = call /\ ret' = ret /\ tgt' = tgt
  BY DEF Drop, Goto, Inv, TypeOK
<1>7. OthersStay(th)
  BY DEF Drop, Goto, OthersStay, Inv, TypeOK
<1>8. DistinctKeys /\ DistinctKeys'
  BY <1>1, <1>5 DEF SearchInv, DistinctKeys
<1>9. ASSUME NEW u \in Threads PROVE Purpose(u)'
  <2>1. CASE u = th
    BY <1>6, <2>1 DEF Purpose
  <2>2. CASE u # th
    <3>1. pc[u] \in {"right", "turn", "sink", "left"} =>
              node'[t'[Doomed(u)]].key = node[t[Doomed(u)]].key
      <4> SUFFICES ASSUME pc[u] \in {"right", "turn", "sink", "left"}
                   PROVE  node'[t'[Doomed(u)]].key = node[t[Doomed(u)]].key
        OBVIOUS
      <4>1. /\ Doomed(u) \in cells /\ t[Doomed(u)] \in nodes /\ lock[Doomed(u)] = u
            /\ Doomed(u) # c /\ t[Doomed(u)] # p /\ Doomed(u) # r
        BY <1>1, <2>2, OthersWork
      <4>2. Doomed(u) # l
        BY <1>3, <4>1, BstAssumption
      <4> QED
        BY <1>5, <4>1, <4>2
    <3> QED
      BY <1>1, <1>6, <1>7, <2>2, <3>1, PurposeStays DEF SearchInv, OthersStay
  <2> QED
    BY <2>1, <2>2
<1>10. PICK lo, hi \in [Cells -> SUBSET Keys] :
          Bounded(lo, hi) /\ Gaps(lo, hi) /\ \A u \in Threads : OnTheWay(u, lo, hi)
  BY <1>1 DEF SearchInv, Searches
<1> DEFINE hi2 == [d \in Cells |-> IF hi[d] = {k} THEN hi[c] ELSE hi[d]]
<1>11. /\ hi2 \in [Cells -> SUBSET Keys]
       /\ \A e \in Cells : hi2[e] = IF hi[e] = {k} THEN hi[c] ELSE hi[e]
  BY <1>2, <1>10
<1> HIDE DEF hi2
<1>12. ASSUME NEW e \in cells, t[e] # NULL
       PROVE  /\ Within(node[t[e]].key, e, lo, hi)
              /\ lo[node[t[e]].left] = lo[e] /\ hi[node[t[e]].left] = {node[t[e]].key}
              /\ lo[node[t[e]].right] = {node[t[e]].key} /\ hi[node[t[e]].right] = hi[e]
  BY <1>10, <1>12 DEF Bounded
<1>13. /\ lo[l] = lo[c] /\ hi[l] = {k} /\ lo[r] = {k} /\ hi[r] = hi[c]
       /\ \A h \in hi[c] : k < h /\ h \in Int
       /\ hi[c] # {k} /\ k \in Keys /\ k \in Int
  <2>1. Within(k, c, lo, hi) /\ k \in Keys /\ k \in Int
    BY <1>2, <1>12, KeysAreInts
  <2>2. \A h \in hi[c] : k < h /\ h \in Int
    BY <1>2, <1>10, <2>1, BstAssumption DEF Within
  <2>3. hi[c] # {k}
    BY <2>1, <2>2
  <2> QED
    BY <1>2, <1>12, <2>1, <2>2, <2>3
<1>14. ASSUME NEW x \in Int, NEW e \in Cells, Within(x, e, lo, hi) PROVE Within(x, e, lo, hi2)
  <2>1. CASE hi[e] = {k}
    BY <1>11, <1>13, <1>14, <2>1 DEF Within
  <2>2. CASE hi[e] # {k}
    BY <1>11, <1>14, <2>2 DEF Within
  <2> QED
    BY <2>1, <2>2
<1>15. ASSUME NEW x \in Int, NEW e \in Cells, Within(x, e, lo, hi2)
       PROVE  Within(x, e, lo, hi) \/ (hi[e] = {k} /\ (x = k \/ Within(x, r, lo, hi)))
  <2>1. CASE hi[e] = {k}
    <3>1. \A h \in hi[c] : x < h
      BY <1>11, <1>15, <2>1 DEF Within
    <3>2. x < k => Within(x, e, lo, hi)
      BY <1>15, <2>1 DEF Within
    <3>3. k < x => Within(x, r, lo, hi)
      BY <1>13, <3>1 DEF Within
    <3> QED
      BY <1>13, <2>1, <3>2, <3>3
  <2>2. CASE hi[e] # {k}
    BY <1>11, <1>15, <2>2 DEF Within
  <2> QED
    BY <2>1, <2>2
<1> DEFINE Old(d) == IF d = c THEN l ELSE d
<1>16. ASSUME NEW d \in cells'
       PROVE  /\ d \in Cells /\ Old(d) \in cells /\ Old(d) \in Cells /\ Old(d) # r
              /\ t'[d] = t[Old(d)] /\ lo[d] = lo[Old(d)] /\ hi2[d] = hi2[Old(d)]
              /\ \A x : Within(x, d, lo, hi2) <=> Within(x, Old(d), lo, hi2)
  <2>1. /\ d \in Cells /\ Old(d) \in cells /\ Old(d) \in Cells /\ Old(d) # r
        /\ t'[d] = t[Old(d)]
    BY <1>3, <1>5
  <2>2. lo[d] = lo[Old(d)] /\ hi2[d] = hi2[Old(d)]
    <3>1. hi2[c] = hi2[l]
      BY <1>2, <1>3, <1>11, <1>13
    <3> QED
      BY <1>13, <3>1
  <2> QED
    BY <2>1, <2>2 DEF Within
<1>17. \A d, e \in cells' : d # e => Old(d) # Old(e)
  BY <1>5
<1> HIDE DEF Old
<1>18. Bounded(lo, hi2)'
  <2>1. lo[Root] = {} /\ hi2[Root] = {}
    BY <1>3, <1>10, <1>11 DEF Bounded
  <2>2. ASSUME NEW e \in cells' PROVE hi2[e] = {} \/ \E m \in nodes' : hi2[e] = {node'[m].key}
    <3>1. ASSUME NEW f \in cells, hi[f] # {k}
          PROVE  hi[f] = {} \/ \E m \in nodes' : hi[f] = {node'[m].key}
      <4>1. hi[f] = {} \/ \E m \in nodes : hi[f] = {node[m].key}
        BY <1>10 DEF Bounded
      <4> QED
        BY <1>5, <3>1, <4>1
    <3>2. e \in cells /\ e \in Cells
      BY <1>5, <1>16
    <3>3. CASE hi[e] = {k}
      <4>1. hi2[e] = hi[c]
        BY <1>11, <3>2, <3>3
      <4> QED
        BY <1>2, <1>13, <3>1, <4>1
    <3>4. CASE hi[e] # {k}
      <4>1. hi2[e] = hi[e]
        BY <1>11, <3>2, <3>4
      <4> QED
        BY <3>1, <3>2, <3>4, <4>1
    <3> QED
      BY <3>3, <3>4
  <2>3. ASSUME NEW d \in cells', t'[d] # NULL
        PROVE  /\ Within(node'[t'[d]].key, d, lo, hi2)
               /\ lo[node'[t'[d]].left] = lo[d] /\ hi2[node'[t'[d]].left] = {node'[t'[d]].key}
               /\ lo[node'[t'[d]].right] = {node'[t'[d]].key} /\ hi2[node'[t'[d]].right] = hi2[d]
    <3> PICK e, m : e = Old(d) /\ m = t[e]
      OBVIOUS
    <3>1. /\ e \in cells /\ e \in Cells /\ t'[d] = m /\ m # NULL /\ e # r /\ e # c
          /\ lo[d] = lo[e] /\ hi2[d] = hi2[e]
          /\ \A x : Within(x, d, lo, hi2) <=> Within(x, e, lo, hi2)
      BY <1>3, <1>16, <2>3 DEF Old
    <3>2. m \in nodes /\ m # p /\ node'[m] = node[m] /\ node[m].key # k /\ node[m].key \in Int
      <4>1. m \in nodes /\ m # p
        BY <1>2, <1>4, <3>1
      <4> QED
        BY <1>2, <1>5, <1>8, <4>1, KeysAreInts DEF DistinctKeys
    <3>3. /\ Within(node[m].key, e, lo, hi)
          /\ lo[node[m].left] = lo[e] /\ hi[node[m].left] = {node[m].key}
          /\ lo[node[m].right] = {node[m].key} /\ hi[node[m].right] = hi[e]
      BY <1>12, <3>1
    <3>4. Within(node[m].key, e, lo, hi2)
      BY <1>14, <3>1, <3>2, <3>3
    <3>5. node[m].left \in Cells /\ node[m].right \in Cells
      BY <1>3, <1>4, <3>1
    <3>6. hi2[node[m].left] = {node[m].key} /\ hi2[node[m].right] = hi2[e]
      BY <1>11, <3>1, <3>2, <3>3, <3>5
    <3> QED
      BY <3>1, <3>2, <3>3, <3>4, <3>6
  <2> QED
    BY <2>1, <2>2, <2>3 DEF Bounded, Within
<1>19. Gaps(lo, hi2)'
  <2>1. ASSUME NEW e \in cells, NEW m \in nodes, t[e] = NULL
        PROVE  ~Within(node[m].key, e, lo, hi)
    BY <1>10, <2>1 DEF Gaps
  <2>2. ASSUME NEW e \in cells, NEW f \in cells, t[e] = NULL, t[f] = NULL, e # f
        PROVE  hi[e] # hi[f] /\ \A x \in Keys : ~(Within(x, e, lo, hi) /\ Within(x, f, lo, hi))
    BY <1>10, <2>2 DEF Gaps
  <2>3. ASSUME NEW d \in cells', NEW m \in nodes', t'[d] = NULL
        PROVE  ~Within(node'[m].key, d, lo, hi2)
    <3> SUFFICES ASSUME Within(node'[m].key, d, lo, hi2) PROVE FALSE
      OBVIOUS
    <3> PICK e : e = Old(d)
      OBVIOUS
    <3>1. /\ m \in nodes /\ node'[m] = node[m] /\ node[m].key # k /\ node[m].key \in Int
      BY <1>2, <1>5, <1>8, KeysAreInts DEF DistinctKeys
    <3>2. e \in cells /\ e \in Cells /\ t[e] = NULL /\ Within(node[m].key, e, lo, hi2)
      BY <1>16, <2>3, <3>1
    <3>3. Within(node[m].key, e, lo, hi) \/ Within(node[m].key, r, lo, hi)
      BY <1>15, <3>1, <3>2
    <3> QED
      BY <1>2, <2>1, <3>1, <3>2, <3>3
  <2>4. ASSUME NEW d \in cells', NEW f \in cells', t'[d] = NULL, t'[f] = NULL, d # f
        PROVE  /\ hi2[d] # hi2[f]
               /\ \A x \in Keys : ~(Within(x, d, lo, hi2) /\ Within(x, f, lo, hi2))
    <3> PICK e, g : e = Old(d) /\ g = Old(f)
      OBVIOUS
    <3>1. /\ e \in cells /\ e \in Cells /\ e # r /\ t[e] = NULL
          /\ g \in cells /\ g \in Cells /\ g # r /\ t[g] = NULL
          /\ e # g /\ hi2[d] = hi2[e] /\ hi2[f] = hi2[g]
          /\ \A x : Within(x, d, lo, hi2) <=> Within(x, e, lo, hi2)
          /\ \A x : Within(x, f, lo, hi2) <=> Within(x, g, lo, hi2)
      BY <1>16, <1>17, <2>4
    <3>2. hi[e] # hi[g] /\ hi[e] # hi[r] /\ hi[g] # hi[r]
      BY <1>2, <2>2, <3>1
    <3>3. hi2[e] # hi2[g]
      <4>1. /\ hi2[e] = IF hi[e] = {k} THEN hi[r] ELSE hi[e]
            /\ hi2[g] = IF hi[g] = {k} THEN hi[r] ELSE hi[g]
        BY <1>11, <1>13, <3>1
      <4> QED
        BY <3>2, <4>1
    <3>4. ASSUME NEW x \in Keys, Within(x, e, lo, hi2), Within(x, g, lo, hi2) PROVE FALSE
      <4>1. x \in Int
        BY BstAssumption
      <4>2. \/ Within(x, e, lo, hi)
            \/ hi[e] = {k} /\ (x = k \/ Within(x, r, lo, hi))
        BY <1>15, <3>1, <3>4, <4>1
      <4>3. \/ Within(x, g, lo, hi)
            \/ hi[g] = {k} /\ (x = k \/ Within(x, r, lo, hi))
        BY <1>15, <3>1, <3>4, <4>1
      <4>4. ~Within(k, e, lo, hi) /\ ~Within(k, g, lo, hi)
        BY <1>2, <2>1, <3>1
      <4>5. /\ ~(Within(x, e, lo, hi) /\ Within(x, g, lo, hi))
            /\ ~(Within(x, e, lo, hi) /\ Within(x, r, lo, hi))
            /\ ~(Within(x, g, lo, hi) /\ Within(x, r, lo, hi))
        BY <1>2, <2>2, <3>1
      <4> QED
        BY <3>2, <4>2, <4>3, <4>4, <4>5
    <3> QED
      BY <3>1, <3>3, <3>4
  <2> QED
    BY <2>3, <2>4 DEF Gaps, Within
<1>20. ASSUME NEW u \in Threads PROVE OnTheWay(u, lo, hi2)'
  <2>1. CASE u = th
    BY <1>6, <2>1 DEF OnTheWay
  <2>2. CASE u # th
    <3>1. /\ pc[u] = "at" =>
                tgt[u] \in Cells /\ call[u].key \in Int /\ Within(call[u].key, tgt[u], lo, hi)
          /\ pc[u] \in {"couple", "letgo"} =>
                nxt[u] \in Cells /\ call[u].key \in Int /\ Within(call[u].key, nxt[u], lo, hi)
      BY <1>1, <1>3, <1>10, <2>2, OthersSearch, KeysAreInts DEF OnTheWay
    <3>2. /\ pc[u] = "at" => Within(call[u].key, tgt[u], lo, hi2)
          /\ pc[u] \in {"couple", "letgo"} => Within(call[u].key, nxt[u], lo, hi2)
      BY <1>14, <3>1
    <3> QED
      BY <1>7, <2>2, <3>2 DEF OnTheWay, OthersStay, Within
  <2> QED
    BY <2>1, <2>2
<1>21. Searches'
  BY <1>10, <1>11, <1>18, <1>19, <1>20 DEF Searches
<1> QED
  BY <1>8, <1>9, <1>21 DEF SearchInv

-----------------------------------------------------------------------------
(* The steps of main, and the invariant. *)

LEMMA MainSearch == ASSUME SearchInv, Main PROVE SearchInv'
<1>1. joined'
  BY DEF Main, Join, Visit, FreeCell
<1> QED
  BY <1>1 DEF SearchInv

LEMMA StutterSearch == ASSUME SearchInv, UNCHANGED vars PROVE SearchInv'
<1> USE DEF vars, memory, threads, main
<1>1. DistinctKeys => DistinctKeys'
  BY DEF DistinctKeys
<1>2. \A th \in Threads : Purpose(th) => Purpose(th)'
  BY DEF Purpose, Doomed
<1>3. Searches => Searches'
  <2> SUFFICES ASSUME NEW lo \in [Cells -> SUBSET Keys], NEW hi \in [Cells -> SUBSET Keys],
                      Bounded(lo, hi), Gaps(lo, hi), \A th \in Threads : OnTheWay(th, lo, hi)
               PROVE  Bounded(lo, hi)' /\ Gaps(lo, hi)' /\ \A th \in Threads : OnTheWay(th, lo, hi)'
    BY DEF Searches
  <2>1. Bounded(lo, hi)'
    BY DEF Bounded, Within
  <2>2. Gaps(lo, hi)'
    BY DEF Gaps, Within
  <2>3. \A th \in Threads : OnTheWay(th, lo, hi)'
    BY DEF OnTheWay, Within
  <2> QED
    BY <2>1, <2>2, <2>3
<1> QED
  BY <1>1, <1>2, <1>3 DEF SearchInv

LEMMA NextSearch == Inv /\ SearchInv /\ [Next]_vars => SearchInv'
<1> SUFFICES ASSUME Inv, SearchInv, [Next]_vars PROVE SearchInv'
  OBVIOUS
<1>1. ASSUME NEW th \in Threads, Invoke(th) PROVE SearchInv'
  BY <1>1, InvokeSearch
<1>2. ASSUME NEW th \in Threads, Step(th) PROVE SearchInv'
  BY <1>2, EnterSearch, DescendSearch, CoupleSearch, EndSearch, AddNodeSearch, OverwriteSearch,
     TurnLeftSearch, DropSearch
  DEF Step
<1>3. CASE Main
  BY <1>3, MainSearch
<1>4. CASE Finished \/ UNCHANGED vars
  BY <1>4, StutterSearch DEF Finished
<1> QED
  BY <1>1, <1>2, <1>3, <1>4 DEF Next

\* bst_conc.c:61-217.  Keys are distinct, and no search loses its way, for any number
\* of threads.
THEOREM SearchInvariance == Spec => [](Inv /\ SearchInv)
  BY InitInv, InitSearch, NextSearch, Invariance, PTL DEF Spec

-----------------------------------------------------------------------------
(* Each call takes effect at once. *)

\* The tree as a map: one value for each key it holds.
Functional == \A n \in nodes : ContentsOf[node[n].key] = node[n].value

LEMMA TreeIsMap == SearchInv /\ ~joined => Functional
<1> SUFFICES ASSUME SearchInv, ~joined, NEW n \in nodes
             PROVE  ContentsOf[node[n].key] = node[n].value
  BY DEF Functional
<1>1. \A m \in nodes : node[m].key = node[n].key <=> m = n
  BY DEF SearchInv, DistinctKeys
<1>2. (CHOOSE m \in nodes : node[m].key = node[n].key) = n
  BY <1>1
<1> QED
  BY <1>2 DEF ContentsOf

LEMMA TreeIsMapNext == SearchInv' /\ ~joined' => Functional'
  BY TreeIsMap, PTL

LEMMA ContentsStay ==
    ASSUME SearchInv, ~joined, SearchInv', joined' = joined, nodes' = nodes,
           \A n \in nodes : node'[n].key = node[n].key /\ node'[n].value = node[n].value
    PROVE  Map' = Map
<1>1. Functional /\ Functional'
  BY TreeIsMap, TreeIsMapNext
<1>2. {node[n].key : n \in nodes}' = {node[n].key : n \in nodes}
  OBVIOUS
<1>3. \A k \in {node[n].key : n \in nodes} : ContentsOf'[k] = ContentsOf[k]
  BY <1>1 DEF Functional
<1>4. ContentsOf' = ContentsOf
  BY <1>2, <1>3 DEF ContentsOf
<1> QED
  BY <1>4 DEF Map

LEMMA InitAtomic == Init => Atomic!Init
<1> SUFFICES ASSUME Init PROVE Atomic!Init
  OBVIOUS
<1>1. Map = [k \in {} |-> NULL]
  BY DEF Init, Map, ContentsOf
<1>2. Stage = [th \in Threads |-> "idle"]
  BY DEF Init, Stage
<1> QED
  BY <1>1, <1>2 DEF Init, Atomic!Init, Atomic!NoKeys

LEMMA InvokeAtomic ==
    ASSUME Inv, SearchInv, SearchInv', NEW th \in Threads, Invoke(th) PROVE Atomic!Invoke(th)
<1>1. ~joined
  BY StillRunning DEF Invoke
<1>2. Map' = Map
  BY <1>1, ContentsStay DEF Invoke, memory, main
<1>3. Stage[th] = "idle" /\ Stage' = [Stage EXCEPT ![th] = "called"]
  BY DEF Invoke, Goto, Stage, Inv, TypeOK
<1>4. PICK c \in Calls : call' = [call EXCEPT ![th] = c]
  BY DEF Invoke
<1>5. c \in Atomic!Calls
  BY DEF Calls, Atomic!Calls
<1> QED
  BY <1>2, <1>3, <1>4, <1>5 DEF Atomic!Invoke, Invoke

\* The steps before the effect change nothing that a caller can tell.
LEMMA SearchAtomic ==
    ASSUME Inv, SearchInv, SearchInv', NEW th \in Threads,
           \/ Enter(th) \/ Descend(th) \/ Couple(th) \/ LetGo(th)
           \/ StartPushdown(th) \/ LockRight(th) \/ TurnLeft(th) \/ Sink(th)
    PROVE  Map' = Map /\ Stage' = Stage /\ call' = call /\ ret' = ret
<1>1. ~joined /\ joined' = joined /\ call' = call /\ ret' = ret
  BY StillRunning
  DEF Enter, Descend, Couple, LetGo, StartPushdown, LockRight, TurnLeft, Sink, At, main
<1>2. Stage' = Stage
  BY DEF Enter, Descend, Couple, LetGo, StartPushdown, LockRight, TurnLeft, Sink, At, Goto, Stage,
         Inv, TypeOK
<1>3. nodes' = nodes
  BY DEF Enter, Descend, Couple, LetGo, StartPushdown, LockRight, TurnLeft, Sink, memory
<1>4. \A n \in nodes : node'[n].key = node[n].key /\ node'[n].value = node[n].value
  <2>1. CASE TurnLeft(th)
    <3> PICK p, q, r, b : p = t[tgt[th]] /\ q = t[nxt[th]] /\ r = nxt[th] /\ b = node[q].left
      OBVIOUS
    <3>1. node' = [node EXCEPT ![p].right = b, ![q].left = r]
      BY <2>1 DEF TurnLeft
    <3>2. node \in [Nodes -> NodeRecords \cup {NULL}]
      BY DEF Inv, TypeOK
    <3>3. ASSUME NEW n \in nodes PROVE n \in Nodes /\ node[n] \in NodeRecords
      BY DEF Inv, TypeOK
    <3> QED
      BY <3>1, <3>2, <3>3 DEF NodeRecords
  <2> QED
    BY <2>1 DEF Enter, Descend, Couple, LetGo, StartPushdown, LockRight, Sink, memory
<1> QED
  BY <1>1, <1>2, <1>3, <1>4, ContentsStay

\* The effect of a call, in the terms of the tree.
LEMMA EffectOf ==
    ASSUME Inv, SearchInv, NEW th \in Threads, pc[th] \in {"at", "left"},
           pc' = [pc EXCEPT ![th] = "unlock"]
    PROVE  /\ Stage[th] = "called" /\ Stage' = [Stage EXCEPT ![th] = "done"]
           /\ ~joined /\ call[th] \in Calls /\ ret[th] = NULL
<1>1. ~joined
  BY StillRunning
<1>2. Stage[th] = "called" /\ Stage' = [Stage EXCEPT ![th] = "done"]
  BY DEF Stage, Inv, TypeOK
<1> QED
  BY <1>1, <1>2 DEF Inv, Place, Busy, SearchInv, Purpose

LEMMA AbsentAtomic ==
    ASSUME Inv, SearchInv, SearchInv', NEW th \in Threads, Absent(th) PROVE Atomic!Effect(th)
<1> PICK k : k = call[th].key
  OBVIOUS
<1>1. /\ Stage[th] = "called" /\ Stage' = [Stage EXCEPT ![th] = "done"]
      /\ ~joined /\ joined' = joined /\ ret[th] = NULL /\ call[th] \in Calls
  BY EffectOf DEF Absent, Goto, main
<1>2. Map' = Map
  BY <1>1, ContentsStay DEF Absent, memory
<1>3. k \notin DOMAIN Map
  <2>1. PICK lo, hi \in [Cells -> SUBSET Keys] :
            Bounded(lo, hi) /\ Gaps(lo, hi) /\ \A u \in Threads : OnTheWay(u, lo, hi)
    BY <1>1 DEF SearchInv, Searches
  <2>2. Within(k, tgt[th], lo, hi) /\ t[tgt[th]] = NULL
    BY <2>1 DEF Absent, Empty, OnTheWay
  <2>3. tgt[th] \in cells
    BY <1>1, OwnsTarget DEF Absent
  <2>4. \A n \in nodes : node[n].key # k
    BY <2>1, <2>2, <2>3 DEF Gaps
  <2> QED
    BY <1>1, <2>4 DEF Map, ContentsOf
<1>4. Map = [j \in DOMAIN Map \ {k} |-> Map[j]]
  BY <1>1, <1>3 DEF Map, ContentsOf
<1>5. call[th].op \in {"lookup", "delete"} /\ call' = call /\ ret' = [ret EXCEPT ![th] = NULL]
  BY <1>1 DEF Absent, Inv, TypeOK, Calls
<1> QED
  BY <1>1, <1>2, <1>3, <1>4, <1>5 DEF Atomic!Effect

LEMMA FoundAtomic ==
    ASSUME Inv, SearchInv, SearchInv', NEW th \in Threads, Found(th) PROVE Atomic!Effect(th)
<1> PICK n : n = t[tgt[th]]
  OBVIOUS
<1>1. /\ Stage[th] = "called" /\ Stage' = [Stage EXCEPT ![th] = "done"]
      /\ ~joined /\ joined' = joined
  BY EffectOf DEF Found, At, Goto, main
<1>2. Map' = Map
  BY <1>1, ContentsStay DEF Found, memory
<1>3. n \in nodes /\ node[n].key = call[th].key /\ call[th].op = "lookup"
  BY <1>1, OwnsTarget DEF Found, At, Here, Inv, Tree
<1>4. call[th].key \in DOMAIN Map /\ Map[call[th].key] = node[n].value
  <2>1. ContentsOf[node[n].key] = node[n].value
    BY <1>1, <1>3, TreeIsMap DEF Functional
  <2>2. node[n].key \in DOMAIN ContentsOf
    BY <1>3 DEF ContentsOf
  <2> QED
    BY <1>1, <1>3, <2>1, <2>2 DEF Map
<1> QED
  BY <1>1, <1>2, <1>3, <1>4 DEF Atomic!Effect, Found

\* An insert, whether it adds a node or finds one.
LEMMA InsertAtomic ==
    ASSUME Inv, SearchInv, SearchInv', NEW th \in Threads, NEW p \in nodes',
           pc[th] = "at", pc' = [pc EXCEPT ![th] = "unlock"], call' = call, ret' = ret,
           joined' = joined, call[th].op = "insert", nodes' = nodes \cup {p},
           node'[p].key = call[th].key, node'[p].value = call[th].value,
           \A n \in nodes \ {p} : node'[n] = node[n],
           p \in nodes => node[p].key = call[th].key
    PROVE  Atomic!Effect(th)
<1> PICK k, v : k = call[th].key /\ v = call[th].value
  OBVIOUS
<1>1. /\ Stage[th] = "called" /\ Stage' = [Stage EXCEPT ![th] = "done"] /\ ~joined /\ ret[th] = NULL
  BY EffectOf
<1>2. Functional /\ Functional'
  BY <1>1, TreeIsMap, TreeIsMapNext
<1>3. DOMAIN ContentsOf = {node[n].key : n \in nodes} /\ DOMAIN ContentsOf' = {node'[n].key : n \in nodes'}
  BY DEF ContentsOf
<1>4. DOMAIN ContentsOf' = DOMAIN ContentsOf \cup {k}
  BY <1>3
<1>5. ContentsOf'[k] = v
  BY <1>2 DEF Functional
<1>6. \A j \in DOMAIN ContentsOf \ {k} : ContentsOf'[j] = ContentsOf[j]
  <2>1. ASSUME NEW n \in nodes, node[n].key # k PROVE ContentsOf'[node[n].key] = ContentsOf[node[n].key]
    <3>1. n # p /\ node'[n] = node[n] /\ n \in nodes'
      BY <2>1
    <3> QED
      BY <1>2, <3>1 DEF Functional
  <2> QED
    BY <1>3, <2>1
<1>7. ContentsOf' = [j \in DOMAIN ContentsOf \cup {k} |-> IF j = k THEN v ELSE ContentsOf[j]]
  <2>1. ContentsOf' = [j \in DOMAIN ContentsOf' |-> ContentsOf'[j]]
    BY DEF ContentsOf
  <2> QED
    BY <1>4, <1>5, <1>6, <2>1
<1>8. Map' = [j \in DOMAIN Map \cup {k} |-> IF j = k THEN v ELSE Map[j]]
  BY <1>1, <1>7 DEF Map
<1>9. ret' = [ret EXCEPT ![th] = NULL]
  BY <1>1 DEF Inv, TypeOK
<1> QED
  BY <1>1, <1>8, <1>9 DEF Atomic!Effect

LEMMA AddNodeAtomic ==
    ASSUME Inv, SearchInv, SearchInv', NEW th \in Threads, AddNode(th) PROVE Atomic!Effect(th)
<1>1. PICK p1 \in Cells \ cells, p2 \in Cells \ cells, n \in Nodes \ nodes :
          /\ nodes' = nodes \cup {n}
          /\ node' = [node EXCEPT ![n] = [key |-> call[th].key, value |-> call[th].value,
                                          left |-> p1, right |-> p2]]
  BY AddNodeEffect
<1>2. /\ node'[n].key = call[th].key /\ node'[n].value = call[th].value
      /\ \A m \in nodes \ {n} : node'[m] = node[m]
  BY <1>1 DEF Inv, TypeOK
<1>3. /\ pc[th] = "at" /\ pc' = [pc EXCEPT ![th] = "unlock"] /\ call' = call /\ ret' = ret
      /\ joined' = joined /\ call[th].op = "insert"
  BY DEF AddNode, At, Goto, main
<1>4. n \in nodes' /\ n \notin nodes
  BY <1>1
<1> QED
  BY <1>1, <1>2, <1>3, <1>4, InsertAtomic

LEMMA OverwriteAtomic ==
    ASSUME Inv, SearchInv, SearchInv', NEW th \in Threads, Overwrite(th) PROVE Atomic!Effect(th)
<1> PICK n : n = t[tgt[th]]
  OBVIOUS
<1>1. n \in nodes /\ n \in Nodes /\ node[n] \in NodeRecords
  BY StillRunning, OwnsTarget DEF Overwrite, At, Here, Inv, Tree, TypeOK
<1>2. node'[n] = [node[n] EXCEPT !.value = call[th].value] /\ \A m \in nodes \ {n} : node'[m] = node[m]
  BY <1>1 DEF Overwrite, Inv, TypeOK
<1>3. node'[n].key = call[th].key /\ node'[n].value = call[th].value /\ node[n].key = call[th].key
  BY <1>1, <1>2 DEF Overwrite, Here, NodeRecords
<1>4. /\ pc[th] = "at" /\ pc' = [pc EXCEPT ![th] = "unlock"] /\ call' = call /\ ret' = ret
      /\ joined' = joined /\ call[th].op = "insert" /\ nodes' = nodes \cup {n} /\ n \in nodes'
  BY <1>1 DEF Overwrite, At, Goto, main
<1> QED
  BY <1>2, <1>3, <1>4, InsertAtomic

\* A delete takes effect as it frees the node, rotations having moved nothing in the map.
LEMMA DropAtomic ==
    ASSUME Inv, SearchInv, SearchInv', NEW th \in Threads, Drop(th) PROVE Atomic!Effect(th)
<1> PICK p, k : p = t[tgt[th]] /\ k = call[th].key
  OBVIOUS
<1>1. /\ Stage[th] = "called" /\ Stage' = [Stage EXCEPT ![th] = "done"]
      /\ ~joined /\ joined' = joined /\ ret[th] = NULL
  BY EffectOf DEF Drop, Goto, main
<1>2. pc[th] = "left" /\ call[th].op = "delete" /\ node[p].key = k
  BY <1>1 DEF Drop, SearchInv, Purpose, Doomed
<1>3. p \in nodes /\ p \in Nodes
  BY <1>1, <1>2, OwnsTarget DEF Inv, Place, Tree, TypeOK
<1>4. nodes' = nodes \ {p} /\ \A n \in nodes' : node'[n] = node[n] /\ node[n].key # k
  BY <1>1, <1>2, <1>3 DEF Drop, SearchInv, DistinctKeys, Inv, TypeOK
<1>5. Functional /\ Functional'
  BY <1>1, TreeIsMap, TreeIsMapNext
<1>6. DOMAIN ContentsOf = {node[n].key : n \in nodes} /\ DOMAIN ContentsOf' = {node'[n].key : n \in nodes'}
  BY DEF ContentsOf
<1>7. DOMAIN ContentsOf' = DOMAIN ContentsOf \ {k}
  BY <1>2, <1>3, <1>4, <1>6
<1>8. \A j \in DOMAIN ContentsOf' : ContentsOf'[j] = ContentsOf[j]
  <2>1. ASSUME NEW n \in nodes' PROVE ContentsOf'[node'[n].key] = ContentsOf[node'[n].key]
    BY <1>4, <1>5 DEF Functional
  <2> QED
    BY <1>6, <2>1
<1>9. ContentsOf' = [j \in DOMAIN ContentsOf \ {k} |-> ContentsOf[j]]
  <2>1. ContentsOf' = [j \in DOMAIN ContentsOf' |-> ContentsOf'[j]]
    BY DEF ContentsOf
  <2> QED
    BY <1>7, <1>8, <2>1
<1>10. Map' = [j \in DOMAIN Map \ {k} |-> Map[j]]
  BY <1>1, <1>9 DEF Map
<1>11. ret' = [ret EXCEPT ![th] = NULL] /\ call' = call
  BY <1>1 DEF Drop, Inv, TypeOK
<1> QED
  BY <1>1, <1>2, <1>10, <1>11 DEF Atomic!Effect

LEMMA UnlockAtomic ==
    ASSUME Inv, SearchInv, SearchInv', NEW th \in Threads, Unlock(th) PROVE Atomic!Return(th)
<1>1. ~joined /\ joined' = joined
  BY StillRunning DEF Unlock, main
<1>2. Map' = Map
  BY <1>1, ContentsStay DEF Unlock, memory
<1>3. Stage[th] = "done" /\ Stage' = [Stage EXCEPT ![th] = "idle"]
  BY DEF Unlock, Goto, Stage, Inv, TypeOK
<1> QED
  BY <1>2, <1>3 DEF Atomic!Return, Unlock

LEMMA MainAtomic ==
    ASSUME Inv, Main
    PROVE  Atomic!Destroy \/ (Map' = Map /\ Stage' = Stage /\ call' = call /\ ret' = ret)
<1>1. Stage' = Stage /\ call' = call /\ ret' = ret
  BY DEF Main, Join, Visit, FreeCell, threads, Stage
<1>2. CASE Join
  <2>1. \A th \in Threads : Stage[th] = "idle"
    BY <1>2 DEF Join, Stage
  <2>2. Map' = [k \in {} |-> NULL]
    BY <1>2 DEF Join, Map
  <2> QED
    BY <1>1, <2>1, <2>2 DEF Atomic!Destroy, Atomic!NoKeys
<1>3. CASE Visit \/ FreeCell
  <2>1. joined /\ joined'
    <3>1. joined /\ joined' = joined
      BY <1>3 DEF Visit, FreeCell
    <3> QED
      BY <3>1, Zenon
  <2> QED
    BY <1>1, <2>1 DEF Map
<1> QED
  BY <1>2, <1>3 DEF Main

LEMMA NextAtomic == Inv /\ SearchInv /\ SearchInv' /\ [Next]_vars => [Atomic!Next]_Atomic!vars
<1> SUFFICES ASSUME Inv, SearchInv, SearchInv', [Next]_vars PROVE [Atomic!Next]_Atomic!vars
  OBVIOUS
<1>1. ASSUME NEW th \in Threads, Invoke(th) \/ Unlock(th) PROVE Atomic!Next
  BY <1>1, InvokeAtomic, UnlockAtomic DEF Atomic!Next
<1>2. ASSUME NEW th \in Threads,
             AddNode(th) \/ Overwrite(th) \/ Found(th) \/ Absent(th) \/ Drop(th)
      PROVE  Atomic!Next
  BY <1>2, AddNodeAtomic, OverwriteAtomic, FoundAtomic, AbsentAtomic, DropAtomic DEF Atomic!Next
<1>3. ASSUME NEW th \in Threads,
             \/ Enter(th) \/ Descend(th) \/ Couple(th) \/ LetGo(th)
             \/ StartPushdown(th) \/ LockRight(th) \/ TurnLeft(th) \/ Sink(th)
      PROVE  UNCHANGED Atomic!vars
  BY <1>3, SearchAtomic DEF Atomic!vars
<1>4. CASE Main
  BY <1>4, MainAtomic DEF Atomic!vars, Atomic!Next
<1>5. CASE Finished \/ UNCHANGED vars
  <2>1. UNCHANGED vars
    BY <1>5 DEF Finished
  <2>2. Stage' = Stage /\ call' = call /\ ret' = ret
    BY <2>1 DEF vars, threads, Stage
  <2>3. ContentsOf' = ContentsOf
    BY <2>1 DEF vars, memory, ContentsOf
  <2>4. Map' = Map
    BY <2>1, <2>3 DEF vars, main, Map
  <2> QED
    BY <2>2, <2>4 DEF Atomic!vars
<1> QED
  BY <1>1, <1>2, <1>3, <1>4, <1>5 DEF Next, Step

\* bst_conc.c:61-217.  Every insert, lookup and delete is atomic, for any number of
\* threads, keys and calls: crossing the tree hand over hand implements the map.
THEOREM Linearizability == Spec => Linearizable
  BY InitAtomic, NextAtomic, SearchInvariance, PTL DEF Spec, Linearizable, Atomic!Spec

==============================================================================
