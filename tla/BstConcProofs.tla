---------------------------- MODULE BstConcProofs ----------------------------
(***************************************************************************)
(* For any number of threads, keys and addresses, and however malloc picks *)
(* addresses, no thread of bst_conc.c touches memory that has been freed,  *)
(* and each holds exactly the locks that its step calls for.               *)
(*                                                                         *)
(* The argument: the cells and nodes are a tree in the local sense of Tree *)
(* (no cell has two parents, no node two cells), so a cell can be reached  *)
(* through one cell only.  A thread that waits for a cell holds the lock   *)
(* of that one, and whoever frees a cell holds it too: they cannot be two  *)
(* threads.  TypeOK says nothing of which cell is whose, and               *)
(* NoUseAfterFree nothing of the locks: neither is inductive without Inv.  *)
(***************************************************************************)
EXTENDS BstConc, TLAPS

-----------------------------------------------------------------------------
(* The inductive invariant. *)

\* Every pointer of the tree is to allocated memory, and to memory of its own.
Tree ==
    /\ Root \in cells
    /\ \A c \in cells : t[c] # NULL => t[c] \in nodes
    /\ \A n \in nodes : Children(n) \subseteq cells \ {Root} /\ node[n].left # node[n].right
    /\ \A c, d \in cells : t[c] = t[d] /\ t[c] # NULL => c = d
    /\ \A m, n \in nodes : m # n => Children(m) \cap Children(n) = {}

\* Where a thread is, by its program counter.
Place(th) ==
    /\ Busy(th) => call[th] \in Calls /\ tgt[th] \in cells
    /\ pc[th] = "enter" => tgt[th] = Root
    /\ pc[th] \in {"idle", "enter", "at", "unlock"} => nxt[th] = NULL
    /\ pc[th] \in {"couple", "letgo"} => t[tgt[th]] # NULL /\ nxt[th] \in Children(t[tgt[th]])
    /\ pc[th] \in {"right", "turn", "left"} =>
          t[tgt[th]] # NULL /\ nxt[th] = node[t[tgt[th]]].right
    /\ pc[th] = "sink" =>
          /\ t[tgt[th]] # NULL /\ nxt[th] = node[t[tgt[th]]].left
          /\ t[nxt[th]] # NULL
    /\ pc[th] = "turn" => t[nxt[th]] # NULL
    /\ pc[th] = "left" => t[nxt[th]] = NULL
    /\ pc[th] \in {"letgo", "turn", "sink", "left"} => nxt[th] # tgt[th]

\* Once main has joined, nobody is in a call or will make another.
Retired(th) == pc[th] = "idle" /\ todo[th] = 0 /\ nxt[th] = NULL

Inv ==
    /\ TypeOK
    /\ LocksMatchSteps
    /\ ~joined => Tree /\ \A th \in Threads : Place(th)
    /\ joined => \A th \in Threads : Retired(th)

-----------------------------------------------------------------------------
(* What Inv says of a thread in a call. *)

\* A thread past its first acquire holds the lock of the cell it works on.
LEMMA OwnsTarget ==
    ASSUME Inv, ~joined, NEW th \in Threads, pc[th] \notin {"idle", "enter"}
    PROVE  tgt[th] \in cells /\ tgt[th] \in Cells /\ lock[tgt[th]] = th
<1>1. tgt[th] \in cells /\ tgt[th] \in Cells
  BY DEF Inv, TypeOK, Place, Busy
<1>2. tgt[th] \in Held(th)
  BY DEF Held, Inv, TypeOK
<1> QED
  BY <1>1, <1>2 DEF Inv, LocksMatchSteps

\* The cell it is about to lock is a child of that cell's node, or of itself in a
\* pushdown, and is allocated.
LEMMA NextIsAllocated ==
    ASSUME Inv, ~joined, NEW th \in Threads, nxt[th] # NULL
    PROVE  /\ nxt[th] \in cells /\ nxt[th] \in Cells
           /\ t[tgt[th]] \in nodes /\ nxt[th] \in Children(t[tgt[th]])
           /\ pc[th] \in {"couple", "letgo", "right", "turn", "sink", "left"}
<1>1. pc[th] \in {"couple", "letgo", "right", "turn", "sink", "left"}
  BY DEF Inv, TypeOK, Place
<1>2. tgt[th] \in cells /\ t[tgt[th]] # NULL /\ nxt[th] \in Children(t[tgt[th]])
  BY <1>1, OwnsTarget DEF Inv, Place, Children
<1> QED
  BY <1>1, <1>2 DEF Inv, Tree, TypeOK

\* A thread that has locked both cells holds both locks.
LEMMA OwnsNext ==
    ASSUME Inv, ~joined, NEW th \in Threads, pc[th] \in {"letgo", "turn", "sink", "left"}
    PROVE  nxt[th] # NULL /\ nxt[th] \in Cells /\ lock[nxt[th]] = th
<1>1. tgt[th] \in cells /\ t[tgt[th]] # NULL /\ nxt[th] \in Children(t[tgt[th]])
  BY OwnsTarget DEF Inv, Place, Children
<1>2. nxt[th] \in Cells
  BY <1>1 DEF Inv, Tree, TypeOK
<1>3. nxt[th] \in Held(th)
  BY DEF Held
<1> QED
  BY <1>2, <1>3, BstAssumption DEF Inv, LocksMatchSteps

\* A thread stays where it is if a step leaves alone what it has locked.
LEMMA Bystander ==
    ASSUME Inv, ~joined, NEW u \in Threads,
           pc'[u] = pc[u], call'[u] = call[u], tgt'[u] = tgt[u], nxt'[u] = nxt[u],
           Busy(u) => tgt[u] \in cells',
           pc[u] \notin {"idle", "enter"} =>
              /\ t'[tgt[u]] = t[tgt[u]]
              /\ t[tgt[u]] # NULL => /\ node'[t[tgt[u]]].left = node[t[tgt[u]]].left
                                     /\ node'[t[tgt[u]]].right = node[t[tgt[u]]].right,
           pc[u] \in {"turn", "sink", "left"} => t'[nxt[u]] = t[nxt[u]]
    PROVE  Place(u)'
<1>1. Place(u)
  BY DEF Inv
<1> QED
  BY <1>1 DEF Place, Busy, Children

LEMMA InitInv == Init => Inv
<1> SUFFICES ASSUME Init PROVE Inv
  OBVIOUS
<1>1. TypeOK
  <2>1. todo \in [Threads -> 0 .. MaxOps]
    BY BstAssumption DEF Init
  <2>2. cells \in SUBSET Cells /\ nodes \in SUBSET Nodes
    BY BstAssumption DEF Init
  <2> QED
    BY <2>1, <2>2 DEF Init, TypeOK
<1>2. LocksMatchSteps
  BY BstAssumption DEF Init, LocksMatchSteps, Held
<1>3. Tree
  BY BstAssumption DEF Init, Tree, Children
<1>4. \A th \in Threads : Place(th)
  BY BstAssumption DEF Init, Place, Busy
<1> QED
  BY <1>1, <1>2, <1>3, <1>4 DEF Inv, Init

LEMMA InvSafe == Inv => NoUseAfterFree
<1> SUFFICES ASSUME Inv, NEW th \in Threads
             PROVE  /\ Busy(th) => tgt[th] \in cells
                    /\ nxt[th] # NULL => nxt[th] \in cells
                    /\ Busy(th) /\ pc[th] # "enter" /\ t[tgt[th]] # NULL => t[tgt[th]] \in nodes
  BY DEF NoUseAfterFree
<1>1. CASE joined
  BY <1>1 DEF Inv, Retired, Busy
<1>2. CASE ~joined
  BY <1>2, NextIsAllocated DEF Inv, Place, Tree
<1> QED
  BY <1>1, <1>2

-----------------------------------------------------------------------------
(* What the steps have in common. *)

\* A step of th leaves the other threads where they are.
OthersStay(th) ==
    \A u \in Threads \ {th} :
        pc'[u] = pc[u] /\ call'[u] = call[u] /\ tgt'[u] = tgt[u] /\ nxt'[u] = nxt[u]

\* A thread that can take a step has not been joined.
LEMMA StillRunning ==
    ASSUME Inv, NEW th \in Threads, pc[th] # "idle" \/ todo[th] > 0
    PROVE  ~joined
  BY DEF Inv, Retired

\* Locks match the steps again if th gives and takes only locks of its own.
LEMMA OwnLocksOnly ==
    ASSUME Inv, NEW th \in Threads, OthersStay(th),
           \A c \in Cells : lock'[c] = lock[c] \/ {lock[c], lock'[c]} \subseteq {th, NULL},
           \A c \in Cells : lock'[c] = th <=> c \in Held(th)'
    PROVE  LocksMatchSteps'
<1> SUFFICES ASSUME NEW c \in Cells, NEW u \in Threads \ {th}
             PROVE  lock'[c] = u <=> c \in Held(u)'
  BY DEF LocksMatchSteps
<1>1. Held(u)' = Held(u)
  BY DEF Held, OthersStay
<1>2. lock'[c] = u <=> lock[c] = u
  BY BstAssumption
<1> QED
  BY <1>1, <1>2 DEF Inv, LocksMatchSteps

\* A step that writes no memory has only its own thread to account for.
LEMMA QuietStep ==
    ASSUME Inv, ~joined, NEW th \in Threads, UNCHANGED <<memory, joined>>, OthersStay(th),
           TypeOK', LocksMatchSteps', Place(th)'
    PROVE  Inv'
<1>1. Tree'
  BY DEF Inv, Tree, Children, memory
<1>2. ASSUME NEW u \in Threads \ {th} PROVE Place(u)'
  BY Bystander DEF OthersStay, memory, Inv, Place
<1> QED
  BY <1>1, <1>2 DEF Inv

-----------------------------------------------------------------------------
(* The steps that write no memory, one lemma each. *)

LEMMA InvokeInv == ASSUME Inv, NEW th \in Threads, Invoke(th) PROVE Inv'
<1>1. ~joined
  BY StillRunning DEF Invoke
<1>2. TypeOK'
  <2>1. todo' \in [Threads -> 0 .. MaxOps]
    <3>1. todo[th] - 1 \in 0 .. MaxOps
      BY BstAssumption DEF Inv, TypeOK, Invoke
    <3> QED
      BY <3>1 DEF Inv, TypeOK, Invoke
  <2> QED
    BY <2>1, BstAssumption DEF Inv, TypeOK, Invoke, Goto, memory, main
<1>3. OthersStay(th)
  BY DEF Invoke, Goto, OthersStay, Inv, TypeOK
<1>4. LocksMatchSteps'
  <2>1. Held(th) = {} /\ Held(th)' = {}
    BY DEF Held, Invoke, Goto, Inv, TypeOK
  <2> QED
    BY <1>3, <2>1, OwnLocksOnly DEF Inv, LocksMatchSteps, Invoke
<1>5. Place(th)'
  <2>1. call'[th] \in Calls
    BY DEF Invoke, Inv, TypeOK
  <2> QED
    BY <1>1, <2>1 DEF Invoke, Goto, Inv, TypeOK, Place, Busy, Tree, memory
<1> QED
  BY <1>1, <1>2, <1>3, <1>4, <1>5, QuietStep DEF Invoke, memory, main

LEMMA EnterInv == ASSUME Inv, NEW th \in Threads, Enter(th) PROVE Inv'
<1>1. ~joined
  BY StillRunning DEF Enter
<1>2. TypeOK'
  BY DEF Inv, TypeOK, Enter, Acquire, Goto, memory, main
<1>3. OthersStay(th)
  BY DEF Enter, Goto, OthersStay, Inv, TypeOK
<1>4. LocksMatchSteps'
  <2>1. Held(th) = {} /\ Held(th)' = {tgt[th]}
    BY DEF Held, Enter, Goto, Inv, TypeOK
  <2> QED
    BY <1>3, <2>1, OwnLocksOnly, BstAssumption
    DEF Inv, TypeOK, LocksMatchSteps, Enter, Acquire
<1>5. Place(th)'
  BY <1>1 DEF Enter, Goto, Inv, TypeOK, Place, Busy, memory
<1> QED
  BY <1>1, <1>2, <1>3, <1>4, <1>5, QuietStep DEF Enter, memory, main

LEMMA DescendInv == ASSUME Inv, NEW th \in Threads, Descend(th) PROVE Inv'
<1>1. ~joined
  BY StillRunning DEF Descend
<1>2. tgt[th] \in cells /\ t[tgt[th]] \in nodes
  BY <1>1, OwnsTarget DEF Inv, Tree, Descend
<1>3. nxt'[th] \in Children(t[tgt[th]]) /\ nxt'[th] \in Cells
  BY <1>1, <1>2 DEF Descend, Towards, Children, Inv, TypeOK, Tree
<1>4. TypeOK'
  BY <1>3 DEF Inv, TypeOK, Descend, Goto, memory, main
<1>5. OthersStay(th)
  BY DEF Descend, Goto, OthersStay, Inv, TypeOK
<1>6. LocksMatchSteps'
  <2>1. Held(th) = {tgt[th]} /\ Held(th)' = {tgt[th]}
    BY DEF Held, Descend, Goto, Inv, TypeOK
  <2> QED
    BY <1>5, <2>1, OwnLocksOnly DEF Inv, LocksMatchSteps, Descend
<1>7. Place(th)'
  BY <1>1, <1>2, <1>3 DEF Descend, Goto, Inv, TypeOK, Place, Busy, Children, memory
<1> QED
  BY <1>1, <1>4, <1>5, <1>6, <1>7, QuietStep DEF Descend, memory, main

LEMMA CoupleInv == ASSUME Inv, NEW th \in Threads, Couple(th) PROVE Inv'
<1>1. ~joined
  BY StillRunning DEF Couple
<1>2. lock[tgt[th]] = th /\ tgt[th] \in Cells
  BY <1>1, OwnsTarget DEF Couple
<1>3. nxt[th] \in Cells /\ nxt[th] # tgt[th]
  BY <1>1, <1>2, BstAssumption, NextIsAllocated
  DEF Couple, Acquire, Inv, Place, Children, TypeOK, Tree, Busy
<1>4. TypeOK'
  BY DEF Inv, TypeOK, Couple, Acquire, Goto, memory, main
<1>5. OthersStay(th)
  BY DEF Couple, Goto, OthersStay, Inv, TypeOK
<1>6. LocksMatchSteps'
  <2>1. Held(th) = {tgt[th]} /\ Held(th)' = {tgt[th], nxt[th]}
    BY DEF Held, Couple, Goto, Inv, TypeOK
  <2> QED
    BY <1>2, <1>3, <1>5, <2>1, OwnLocksOnly, BstAssumption
    DEF Inv, TypeOK, LocksMatchSteps, Couple, Acquire
<1>7. Place(th)'
  BY <1>1, <1>3 DEF Couple, Goto, Inv, TypeOK, Place, Busy, Children, memory
<1> QED
  BY <1>1, <1>4, <1>5, <1>6, <1>7, QuietStep DEF Couple, memory, main

LEMMA LetGoInv == ASSUME Inv, NEW th \in Threads, LetGo(th) PROVE Inv'
<1>1. ~joined
  BY StillRunning DEF LetGo
<1>2. lock[tgt[th]] = th /\ tgt[th] \in Cells
  BY <1>1, OwnsTarget DEF LetGo
<1>3. nxt[th] # NULL /\ nxt[th] \in Cells /\ lock[nxt[th]] = th
  BY <1>1, OwnsNext DEF LetGo
<1>4. nxt[th] \in cells /\ nxt[th] # tgt[th]
  BY <1>1, <1>3, NextIsAllocated DEF LetGo, Inv, Place
<1>5. TypeOK'
  BY DEF Inv, TypeOK, LetGo, Release, Goto, memory, main
<1>6. OthersStay(th)
  BY DEF LetGo, Goto, OthersStay, Inv, TypeOK
<1>7. LocksMatchSteps'
  <2>1. Held(th) = {tgt[th], nxt[th]} /\ Held(th)' = {nxt[th]}
    BY DEF Held, LetGo, Goto, Inv, TypeOK
  <2> QED
    BY <1>2, <1>3, <1>4, <1>6, <2>1, OwnLocksOnly, BstAssumption
    DEF Inv, TypeOK, LocksMatchSteps, LetGo, Release
<1>8. Place(th)'
  BY <1>1, <1>4 DEF LetGo, Goto, Inv, TypeOK, Place, Busy, memory
<1> QED
  BY <1>1, <1>5, <1>6, <1>7, <1>8, QuietStep DEF LetGo, memory, main

LEMMA UnlockInv == ASSUME Inv, NEW th \in Threads, Unlock(th) PROVE Inv'
<1>1. ~joined
  BY StillRunning DEF Unlock
<1>2. lock[tgt[th]] = th /\ tgt[th] \in Cells
  BY <1>1, OwnsTarget DEF Unlock
<1>3. TypeOK'
  BY DEF Inv, TypeOK, Unlock, Release, Goto, memory, main
<1>4. OthersStay(th)
  BY DEF Unlock, Goto, OthersStay, Inv, TypeOK
<1>5. LocksMatchSteps'
  <2>1. Held(th) = {tgt[th]} /\ Held(th)' = {}
    BY DEF Held, Unlock, Goto, Inv, TypeOK
  <2> QED
    BY <1>2, <1>4, <2>1, OwnLocksOnly, BstAssumption
    DEF Inv, TypeOK, LocksMatchSteps, Unlock, Release
<1>6. Place(th)'
  BY <1>1 DEF Unlock, Goto, Inv, TypeOK, Place, Busy
<1> QED
  BY <1>1, <1>3, <1>4, <1>5, <1>6, QuietStep DEF Unlock, memory, main

LEMMA FoundInv == ASSUME Inv, NEW th \in Threads, Found(th) PROVE Inv'
<1>1. ~joined
  BY StillRunning DEF Found, At
<1>2. t[tgt[th]] \in nodes
  BY <1>1, OwnsTarget DEF Inv, Tree, Found, At, Here
<1>3. TypeOK'
  BY <1>2 DEF Inv, TypeOK, NodeRecords, Found, Goto, memory, main
<1>4. OthersStay(th)
  BY DEF Found, Goto, OthersStay, Inv, TypeOK
<1>5. LocksMatchSteps'
  <2>1. Held(th) = {tgt[th]} /\ Held(th)' = {tgt[th]}
    BY DEF Held, Found, At, Goto, Inv, TypeOK
  <2> QED
    BY <1>4, <2>1, OwnLocksOnly DEF Inv, LocksMatchSteps, Found
<1>6. Place(th)'
  BY <1>1 DEF Found, At, Goto, Inv, TypeOK, Place, Busy, memory
<1> QED
  BY <1>1, <1>3, <1>4, <1>5, <1>6, QuietStep DEF Found, memory, main

LEMMA AbsentInv == ASSUME Inv, NEW th \in Threads, Absent(th) PROVE Inv'
<1>1. ~joined
  BY StillRunning DEF Absent
<1>2. TypeOK'
  BY DEF Inv, TypeOK, Absent, Goto, memory, main
<1>3. OthersStay(th)
  BY DEF Absent, Goto, OthersStay, Inv, TypeOK
<1>4. LocksMatchSteps'
  <2>1. Held(th) = {tgt[th]} /\ Held(th)' = {tgt[th]}
    BY DEF Held, Absent, Goto, Inv, TypeOK
  <2> QED
    BY <1>3, <2>1, OwnLocksOnly DEF Inv, LocksMatchSteps, Absent
<1>5. Place(th)'
  BY <1>1 DEF Absent, Goto, Inv, TypeOK, Place, Busy, memory
<1> QED
  BY <1>1, <1>2, <1>3, <1>4, <1>5, QuietStep DEF Absent, memory, main

LEMMA StartPushdownInv == ASSUME Inv, NEW th \in Threads, StartPushdown(th) PROVE Inv'
<1>1. ~joined
  BY StillRunning DEF StartPushdown, At
<1>2. t[tgt[th]] # NULL /\ t[tgt[th]] \in nodes
  BY <1>1, OwnsTarget DEF Inv, Tree, StartPushdown, At, Here
<1>3. TypeOK'
  BY <1>2 DEF Inv, TypeOK, NodeRecords, StartPushdown, Goto, memory, main
<1>4. OthersStay(th)
  BY DEF StartPushdown, Goto, OthersStay, Inv, TypeOK
<1>5. LocksMatchSteps'
  <2>1. Held(th) = {tgt[th]} /\ Held(th)' = {tgt[th]}
    BY DEF Held, StartPushdown, At, Goto, Inv, TypeOK
  <2> QED
    BY <1>4, <2>1, OwnLocksOnly DEF Inv, LocksMatchSteps, StartPushdown
<1>6. Place(th)'
  BY <1>1, <1>2 DEF StartPushdown, At, Goto, Inv, TypeOK, Place, Busy, memory
<1> QED
  BY <1>1, <1>3, <1>4, <1>5, <1>6, QuietStep DEF StartPushdown, memory, main

LEMMA LockRightInv == ASSUME Inv, NEW th \in Threads, LockRight(th) PROVE Inv'
<1>1. ~joined
  BY StillRunning DEF LockRight
<1>2. tgt[th] \in cells /\ lock[tgt[th]] = th /\ tgt[th] \in Cells
  BY <1>1, OwnsTarget DEF LockRight
<1>3. nxt[th] \in Cells /\ nxt[th] # tgt[th]
  <2>1. t[tgt[th]] \in nodes /\ nxt[th] \in Children(t[tgt[th]])
    BY <1>1, <1>2 DEF LockRight, Inv, Place, Tree, Children
  <2> QED
    BY <1>1, <1>2, <2>1, BstAssumption DEF LockRight, Acquire, Inv, Tree, TypeOK
<1>4. TypeOK'
  BY DEF Inv, TypeOK, LockRight, Acquire, Goto, memory, main
<1>5. OthersStay(th)
  BY DEF LockRight, Goto, OthersStay, Inv, TypeOK
<1>6. LocksMatchSteps'
  <2>1. Held(th) = {tgt[th]} /\ Held(th)' = {tgt[th], nxt[th]}
    BY DEF Held, LockRight, Goto, Inv, TypeOK
  <2> QED
    BY <1>2, <1>3, <1>5, <2>1, OwnLocksOnly, BstAssumption
    DEF Inv, TypeOK, LocksMatchSteps, LockRight, Acquire
<1>7. Place(th)'
  BY <1>1, <1>3 DEF LockRight, Goto, Inv, TypeOK, Place, Busy, memory
<1> QED
  BY <1>1, <1>4, <1>5, <1>6, <1>7, QuietStep DEF LockRight, memory, main

LEMMA SinkInv == ASSUME Inv, NEW th \in Threads, Sink(th) PROVE Inv'
<1>1. ~joined
  BY StillRunning DEF Sink
<1>2. lock[tgt[th]] = th /\ tgt[th] \in Cells
  BY <1>1, OwnsTarget DEF Sink
<1>3. nxt[th] # NULL /\ nxt[th] \in Cells /\ lock[nxt[th]] = th
  BY <1>1, OwnsNext DEF Sink
<1>4. nxt[th] \in cells /\ nxt[th] # tgt[th] /\ nxt[th] = node[t[tgt[th]]].left
  BY <1>1, <1>3, NextIsAllocated DEF Sink, Inv, Place
<1>5. t[nxt[th]] # NULL /\ t[nxt[th]] \in nodes
  BY <1>1, <1>4 DEF Sink, Inv, Place, Tree
<1>6. TypeOK'
  <2>1. tgt'[th] = nxt[th] /\ nxt'[th] \in Cells
    BY <1>4, <1>5 DEF Sink, Inv, TypeOK, NodeRecords
  <2> QED
    BY <1>3, <2>1 DEF Inv, TypeOK, Sink, Release, Goto, memory, main
<1>7. OthersStay(th)
  BY DEF Sink, Goto, OthersStay, Inv, TypeOK
<1>8. LocksMatchSteps'
  <2>1. Held(th) = {tgt[th], nxt[th]} /\ Held(th)' = {nxt[th]}
    BY <1>4 DEF Held, Sink, Goto, Inv, TypeOK
  <2> QED
    BY <1>2, <1>3, <1>4, <1>7, <2>1, OwnLocksOnly, BstAssumption
    DEF Inv, TypeOK, LocksMatchSteps, Sink, Release
<1>9. Place(th)'
  BY <1>1, <1>4, <1>5 DEF Sink, Goto, Inv, TypeOK, Place, Busy, memory
<1> QED
  BY <1>1, <1>6, <1>7, <1>8, <1>9, QuietStep DEF Sink, memory, main

-----------------------------------------------------------------------------
(* The steps that write memory. *)

\* Two threads past their first acquire work on different cells and nodes.
LEMMA Apart ==
    ASSUME Inv, ~joined, NEW th \in Threads, NEW u \in Threads \ {th},
           pc[th] \notin {"idle", "enter"}, pc[u] \notin {"idle", "enter"}
    PROVE  /\ tgt[u] # tgt[th]
           /\ t[tgt[u]] # NULL => t[tgt[u]] # t[tgt[th]]
           /\ pc[th] \in {"letgo", "turn", "sink", "left"} =>
                 tgt[u] # nxt[th] /\ (t[tgt[u]] # NULL => t[tgt[u]] # t[nxt[th]])
           /\ pc[u] \in {"letgo", "turn", "sink", "left"} => nxt[u] # tgt[th]
           /\ pc[u] \in {"letgo", "turn", "sink", "left"}
                 /\ pc[th] \in {"letgo", "turn", "sink", "left"} => nxt[u] # nxt[th]
<1>1. tgt[th] \in cells /\ lock[tgt[th]] = th /\ tgt[u] \in cells /\ lock[tgt[u]] = u
  BY OwnsTarget
<1>2. pc[th] \in {"letgo", "turn", "sink", "left"} => nxt[th] \in cells /\ lock[nxt[th]] = th
  BY OwnsNext, NextIsAllocated
<1>3. pc[u] \in {"letgo", "turn", "sink", "left"} => nxt[u] \in cells /\ lock[nxt[u]] = u
  BY OwnsNext, NextIsAllocated
<1>4. \A c, d \in cells : t[c] = t[d] /\ t[c] # NULL => c = d
  BY DEF Inv, Tree
<1> QED
  BY <1>1, <1>2, <1>3, <1>4

\* Nobody holds or is about to take the lock of a cell that is not allocated.
LEMMA FreeCellUnlocked ==
    ASSUME Inv, ~joined, NEW c \in Cells, c \notin cells
    PROVE  lock[c] = NULL
<1> SUFFICES ASSUME NEW u \in Threads, lock[c] = u PROVE FALSE
  BY DEF Inv, TypeOK
<1>1. c \in Held(u)
  BY DEF Inv, LocksMatchSteps
<1>2. CASE pc[u] \in {"idle", "enter", "at", "couple", "right", "unlock"}
  BY <1>1, <1>2, OwnsTarget DEF Held
<1>3. CASE pc[u] \in {"letgo", "turn", "sink", "left"}
  BY <1>1, <1>3, OwnsTarget, OwnsNext, NextIsAllocated DEF Held
<1> QED
  BY <1>2, <1>3 DEF Inv, TypeOK

LEMMA OverwriteInv == ASSUME Inv, NEW th \in Threads, Overwrite(th) PROVE Inv'
<1>1. ~joined
  BY StillRunning DEF Overwrite, At
<1>2. t[tgt[th]] \in nodes
  BY <1>1, OwnsTarget DEF Inv, Tree, Overwrite, At, Here
<1>3. call[th].value \in Values
  BY <1>1 DEF Overwrite, At, Inv, Place, Busy, Calls
<1>4. /\ node' \in [Nodes -> NodeRecords \cup {NULL}]
      /\ \A n \in nodes : node'[n] \in NodeRecords
      /\ \A n \in nodes : node'[n].left = node[n].left /\ node'[n].right = node[n].right
  BY <1>2, <1>3 DEF Inv, TypeOK, NodeRecords, Overwrite
<1>5. TypeOK'
  BY <1>4 DEF Inv, TypeOK, Overwrite, Goto, main
<1>6. OthersStay(th)
  BY DEF Overwrite, Goto, OthersStay, Inv, TypeOK
<1>7. LocksMatchSteps'
  <2>1. Held(th) = {tgt[th]} /\ Held(th)' = {tgt[th]}
    BY DEF Held, Overwrite, At, Goto, Inv, TypeOK
  <2> QED
    BY <1>6, <2>1, OwnLocksOnly DEF Inv, LocksMatchSteps, Overwrite
<1>8. Tree'
  BY <1>1, <1>4 DEF Inv, Tree, Children, Overwrite
<1>9. Place(th)'
  BY <1>1 DEF Overwrite, At, Goto, Inv, TypeOK, Place, Busy
<1>10. ASSUME NEW u \in Threads \ {th} PROVE Place(u)'
  <2>1. pc[u] \notin {"idle", "enter"} /\ t[tgt[u]] # NULL => t[tgt[u]] \in nodes
    BY <1>1, OwnsTarget DEF Inv, Tree
  <2> QED
    BY <1>1, <1>4, <1>6, <2>1, Bystander DEF OthersStay, Overwrite, Inv, Place
<1> QED
  BY <1>1, <1>5, <1>7, <1>8, <1>9, <1>10 DEF Inv, Overwrite, main

\* malloc picks addresses that are free.
LEMMA AddNodeEffect ==
    ASSUME NEW th \in Threads, AddNode(th)
    PROVE  \E p1 \in Cells \ cells, p2 \in Cells \ cells, n \in Nodes \ nodes :
          /\ p1 # p2
          /\ cells' = cells \cup {p1, p2}
          /\ nodes' = nodes \cup {n}
          /\ t' = [t EXCEPT ![p1] = NULL, ![p2] = NULL, ![tgt[th]] = n]
          /\ node' = [node EXCEPT ![n] = [key |-> call[th].key, value |-> call[th].value,
                                          left |-> p1, right |-> p2]]
          /\ lock' = [lock EXCEPT ![p1] = NULL, ![p2] = NULL]
<1>1. \A S \in SUBSET Cells : Candidates(S) \subseteq S
  BY BstAssumption
<1>2. \A S \in SUBSET Nodes : Candidates(S) \subseteq S
  BY BstAssumption
<1>3. Cells \ cells \in SUBSET Cells /\ Nodes \ nodes \in SUBSET Nodes
         /\ \A c : Cells \ (cells \cup {c}) \in SUBSET Cells
  OBVIOUS
<1>4. Candidates(Cells \ cells) \subseteq Cells \ cells
  BY <1>1, <1>3
<1>5. Candidates(Nodes \ nodes) \subseteq Nodes \ nodes
  BY <1>2, <1>3
<1>6. ASSUME NEW c
      PROVE  Candidates(Cells \ (cells \cup {c})) \subseteq Cells \ (cells \cup {c})
  BY <1>1, <1>3
<1> QED
  BY <1>4, <1>5, <1>6 DEF AddNode

LEMMA AddNodeInv == ASSUME Inv, NEW th \in Threads, AddNode(th) PROVE Inv'
<1>1. ~joined
  BY StillRunning DEF AddNode, At
<1>2. tgt[th] \in cells /\ tgt[th] \in Cells /\ t[tgt[th]] = NULL
  BY <1>1, OwnsTarget DEF AddNode, At, Empty
<1>3. PICK p1 \in Cells \ cells, p2 \in Cells \ cells, n \in Nodes \ nodes :
          /\ p1 # p2
          /\ cells' = cells \cup {p1, p2}
          /\ nodes' = nodes \cup {n}
          /\ t' = [t EXCEPT ![p1] = NULL, ![p2] = NULL, ![tgt[th]] = n]
          /\ node' = [node EXCEPT ![n] = [key |-> call[th].key, value |-> call[th].value,
                                          left |-> p1, right |-> p2]]
          /\ lock' = [lock EXCEPT ![p1] = NULL, ![p2] = NULL]
  BY AddNodeEffect
<1>4. call[th].key \in Keys /\ call[th].value \in Values
  BY <1>1 DEF AddNode, At, Inv, Place, Busy, Calls
<1>5. lock' = lock
  BY <1>1, <1>3, FreeCellUnlocked DEF Inv, TypeOK
<1>6. /\ node'[n] = [key |-> call[th].key, value |-> call[th].value, left |-> p1, right |-> p2]
      /\ \A m \in nodes : node'[m] = node[m]
  BY <1>3 DEF Inv, TypeOK
<1>7. t'[p1] = NULL /\ t'[p2] = NULL /\ t'[tgt[th]] = n
         /\ \A c \in cells \ {tgt[th]} : t'[c] = t[c]
  BY <1>2, <1>3 DEF Inv, TypeOK
<1>8. TypeOK'
  <2>1. node' \in [Nodes -> NodeRecords \cup {NULL}] /\ \A m \in nodes' : node'[m] \in NodeRecords
    BY <1>3, <1>4 DEF Inv, TypeOK, NodeRecords
  <2>2. t' \in [Cells -> Nodes \cup {NULL}]
    BY <1>3 DEF Inv, TypeOK
  <2> QED
    BY <1>3, <1>5, <2>1, <2>2 DEF Inv, TypeOK, AddNode, Goto, main
<1>9. OthersStay(th)
  BY DEF AddNode, Goto, OthersStay, Inv, TypeOK
<1>10. LocksMatchSteps'
  <2>1. Held(th) = {tgt[th]} /\ Held(th)' = {tgt[th]}
    BY DEF Held, AddNode, At, Goto, Inv, TypeOK
  <2> QED
    BY <1>5, <1>9, <2>1, OwnLocksOnly DEF Inv, LocksMatchSteps
<1>11. Tree'
  <2>1. Root \in cells' /\ \A c \in cells' : t'[c] # NULL => t'[c] \in nodes'
    <3>1. Root \in cells /\ \A c \in cells : t[c] # NULL => t[c] \in nodes
      BY <1>1 DEF Inv, Tree
    <3>2. ASSUME NEW c \in cells', t'[c] # NULL PROVE t'[c] \in nodes'
      <4>1. c \in cells
        BY <1>3, <1>7, <3>2
      <4>2. nodes' = nodes \cup {n}
        BY <1>3
      <4>3. CASE c = tgt[th]
        BY <1>7, <4>2, <4>3
      <4>4. CASE c # tgt[th]
        BY <1>7, <3>1, <3>2, <4>1, <4>2, <4>4
      <4> QED
        BY <4>3, <4>4
    <3> QED
      BY <1>3, <3>1, <3>2
  <2>2. \A m \in nodes' : Children(m)' \subseteq cells' \ {Root} /\ node'[m].left # node'[m].right
    BY <1>1, <1>3, <1>6 DEF Inv, Tree, Children
  <2>3. ASSUME NEW c \in cells', NEW d \in cells', t'[c] = t'[d], t'[c] # NULL PROVE c = d
    <3>1. c \in cells /\ d \in cells
      BY <1>3, <1>7, <2>3
    <3>2. \A e \in cells \ {tgt[th]} : t'[e] # n
      BY <1>1, <1>7, BstAssumption DEF Inv, Tree
    <3> QED
      BY <1>1, <1>7, <2>3, <3>1, <3>2 DEF Inv, Tree
  <2>4. \A m, o \in nodes' : m # o => Children(m)' \cap Children(o)' = {}
    BY <1>1, <1>3, <1>6 DEF Inv, Tree, Children
  <2> QED
    BY <2>1, <2>2, <2>3, <2>4 DEF Tree
<1>12. Place(th)'
  BY <1>1, <1>3 DEF AddNode, At, Goto, Inv, TypeOK, Place, Busy
<1>13. pc[th] = "at"
  BY DEF AddNode, At
<1>14. ASSUME NEW u \in Threads \ {th} PROVE Place(u)'
  <2>1. Busy(u) => tgt[u] \in cells'
    BY <1>1, <1>3 DEF Inv, Place
  <2>2. pc[u] \notin {"idle", "enter"} =>
           t'[tgt[u]] = t[tgt[u]] /\ (t[tgt[u]] # NULL => node'[t[tgt[u]]] = node[t[tgt[u]]])
    <3> SUFFICES ASSUME pc[u] \notin {"idle", "enter"}
                 PROVE  t'[tgt[u]] = t[tgt[u]]
                        /\ (t[tgt[u]] # NULL => node'[t[tgt[u]]] = node[t[tgt[u]]])
      OBVIOUS
    <3>1. tgt[u] # tgt[th] /\ tgt[u] \in cells
      BY <1>1, <1>13, Apart, OwnsTarget
    <3>2. t[tgt[u]] # NULL => t[tgt[u]] \in nodes
      BY <1>1, <3>1 DEF Inv, Tree
    <3> QED
      BY <1>6, <1>7, <3>1, <3>2
  <2>3. pc[u] \in {"turn", "sink", "left"} => t'[nxt[u]] = t[nxt[u]]
    <3> SUFFICES ASSUME pc[u] \in {"turn", "sink", "left"} PROVE t'[nxt[u]] = t[nxt[u]]
      OBVIOUS
    <3>1. nxt[u] # NULL
      BY <1>1, OwnsNext
    <3>2. nxt[u] \in cells
      BY <1>1, <3>1, NextIsAllocated
    <3>3. nxt[u] # tgt[th]
      BY <1>1, <1>13, Apart
    <3> QED
      BY <1>7, <3>2, <3>3
  <2> QED
    BY <1>1, <1>9, <2>1, <2>2, <2>3, Bystander DEF OthersStay
<1> QED
  BY <1>1, <1>8, <1>10, <1>11, <1>12, <1>14 DEF Inv, AddNode, main

LEMMA TurnLeftInv == ASSUME Inv, NEW th \in Threads, TurnLeft(th) PROVE Inv'
<1> PICK p, q : p = t[tgt[th]] /\ q = t[nxt[th]]
  OBVIOUS
<1>1. ~joined
  BY StillRunning DEF TurnLeft
<1>2. /\ tgt[th] \in cells /\ tgt[th] \in Cells /\ nxt[th] \in cells /\ nxt[th] \in Cells
      /\ nxt[th] # NULL /\ nxt[th] # tgt[th] /\ nxt[th] = node[p].right
      /\ p # NULL /\ q # NULL
  BY <1>1, OwnsTarget, OwnsNext, NextIsAllocated DEF TurnLeft, Inv, Place
<1>3. p \in nodes /\ q \in nodes /\ p # q /\ p \in Nodes /\ q \in Nodes
  BY <1>1, <1>2 DEF Inv, Tree, TypeOK
<1>4. /\ node[p] \in NodeRecords /\ node[q] \in NodeRecords
      /\ node'[p] = [node[p] EXCEPT !.right = node[q].left]
      /\ node'[q] = [node[q] EXCEPT !.left = nxt[th]]
      /\ \A m \in nodes \ {p, q} : node'[m] = node[m]
      /\ nodes' = nodes /\ cells' = cells
  BY <1>3 DEF Inv, TypeOK, TurnLeft
<1>5. /\ t'[tgt[th]] = q /\ t'[nxt[th]] = p
      /\ \A c \in cells \ {tgt[th], nxt[th]} : t'[c] = t[c]
  BY <1>2 DEF Inv, TypeOK, TurnLeft
<1>6. /\ node'[p].left = node[p].left /\ node'[p].right = node[q].left
      /\ node'[q].left = nxt[th] /\ node'[q].right = node[q].right
  BY <1>4 DEF NodeRecords
<1>7. TypeOK'
  <2>1. node' \in [Nodes -> NodeRecords \cup {NULL}] /\ \A m \in nodes : node'[m] \in NodeRecords
    <3>1. node'[p] \in NodeRecords /\ node'[q] \in NodeRecords
      BY <1>2, <1>4 DEF NodeRecords
    <3>2. \A m \in Nodes \ {p, q} : node'[m] = node[m]
      BY <1>3 DEF Inv, TypeOK, TurnLeft
    <3>3. node' = [m \in Nodes |-> node'[m]]
      BY <1>3 DEF Inv, TypeOK, TurnLeft
    <3> QED
      BY <3>1, <3>2, <3>3 DEF Inv, TypeOK
  <2>2. t' \in [Cells -> Nodes \cup {NULL}]
    BY <1>2, <1>3 DEF Inv, TypeOK, TurnLeft
  <2> QED
    BY <2>1, <2>2 DEF Inv, TypeOK, TurnLeft, Goto, main
<1>8. OthersStay(th)
  BY DEF TurnLeft, Goto, OthersStay, Inv, TypeOK
<1>9. LocksMatchSteps'
  <2>1. Held(th) = {tgt[th], nxt[th]} /\ Held(th)' = {tgt[th], nxt[th]}
    BY DEF Held, TurnLeft, Goto, Inv, TypeOK
  <2> QED
    BY <1>8, <2>1, OwnLocksOnly DEF Inv, LocksMatchSteps, TurnLeft
<1>10. Tree'
  <2> USE DEF Children
  <2>1. Tree
    BY <1>1 DEF Inv
  <2>2. Root \in cells' /\ \A c \in cells' : t'[c] # NULL => t'[c] \in nodes'
    BY <1>2, <1>3, <1>4, <1>5, <2>1 DEF Tree
  <2>3. \A m \in nodes' : Children(m)' \subseteq cells' \ {Root} /\ node'[m].left # node'[m].right
    <3>1. node[q].left # nxt[th] /\ node[q].right # nxt[th] /\ node[p].left # node[q].left
      BY <1>2, <1>3, <2>1 DEF Tree
    <3>2. {node[p].left, node[q].left, node[q].right, nxt[th]} \subseteq cells \ {Root}
      BY <1>2, <1>3, <2>1 DEF Tree
    <3>3. \A m \in nodes \ {p, q} : Children(m)' = Children(m) /\ node'[m].left # node'[m].right
      BY <1>4, <2>1 DEF Tree
    <3>4. \A m \in nodes : Children(m) \subseteq cells \ {Root}
      BY <2>1 DEF Tree
    <3>5. Children(p)' \subseteq cells \ {Root} /\ Children(q)' \subseteq cells \ {Root}
      BY <1>6, <3>2
    <3>6. node'[p].left # node'[p].right /\ node'[q].left # node'[q].right
      BY <1>6, <3>1
    <3> HIDE DEF Children
    <3> QED
      <4>1. nodes' = nodes /\ cells' = cells
        BY <1>4
      <4>2. ASSUME NEW m \in nodes
            PROVE  Children(m)' \subseteq cells \ {Root} /\ node'[m].left # node'[m].right
        BY <3>3, <3>4, <3>5, <3>6
      <4> QED
        BY <4>1, <4>2
  <2>4. ASSUME NEW c \in cells', NEW d \in cells', t'[c] = t'[d], t'[c] # NULL PROVE c = d
    <3>1. \A e \in cells \ {tgt[th], nxt[th]} : t'[e] # p /\ t'[e] # q
      BY <1>2, <1>5, <2>1 DEF Tree
    <3>2. \A e, f \in cells : t[e] = t[f] /\ t[e] # NULL => e = f
      BY <2>1 DEF Tree
    <3>3. c \in cells /\ d \in cells
      BY <1>4
    <3>4. CASE c = tgt[th]
      BY <1>3, <1>5, <2>4, <3>1, <3>3, <3>4
    <3>5. CASE c = nxt[th]
      BY <1>3, <1>5, <2>4, <3>1, <3>3, <3>5
    <3>6. CASE c \in cells \ {tgt[th], nxt[th]}
      <4>1. d \in cells \ {tgt[th], nxt[th]}
        BY <1>5, <2>4, <3>1, <3>3, <3>6
      <4> QED
        BY <1>5, <2>4, <3>2, <3>6, <4>1
    <3> QED
      BY <3>3, <3>4, <3>5, <3>6
  <2>5. \A m, o \in nodes' : m # o => Children(m)' \cap Children(o)' = {}
    <3>1. /\ Children(p)' = {node[p].left, node[q].left}
          /\ Children(q)' = {node[p].right, node[q].right}
          /\ \A m \in nodes \ {p, q} : Children(m)' = Children(m)
      BY <1>2, <1>4, <1>6
    <3>2. Children(p)' \cap Children(q)' = {}
      BY <1>3, <2>1, <3>1 DEF Tree
    <3>3. \A m \in nodes \ {p, q} : Children(m)' \cap Children(p)' = {} /\ Children(m)' \cap Children(q)' = {}
      BY <1>3, <2>1, <3>1 DEF Tree
    <3> HIDE DEF Children
    <3>4. \A m, o \in nodes \ {p, q} : m # o => Children(m)' \cap Children(o)' = {}
      BY <2>1, <3>1 DEF Tree
    <3> QED
      BY <1>4, <3>2, <3>3, <3>4
  <2> QED
    BY <2>2, <2>3, <2>4, <2>5 DEF Tree
<1>11. Place(th)'
  <2>1. /\ pc'[th] = "sink" /\ tgt'[th] = tgt[th] /\ nxt'[th] = nxt[th] /\ call'[th] = call[th]
        /\ call[th] \in Calls
    BY <1>1 DEF TurnLeft, Goto, Inv, TypeOK, Place, Busy
  <2> QED
    BY <1>2, <1>4, <1>5, <1>6, <2>1, BstAssumption DEF Place, Busy, Inv, TypeOK
<1>12. ASSUME NEW u \in Threads \ {th} PROVE Place(u)'
  <2>1. Busy(u) => tgt[u] \in cells'
    BY <1>1, <1>4 DEF Inv, Place
  <2>2. pc[u] \notin {"idle", "enter"} =>
           t'[tgt[u]] = t[tgt[u]] /\ (t[tgt[u]] # NULL => node'[t[tgt[u]]] = node[t[tgt[u]]])
    <3> SUFFICES ASSUME pc[u] \notin {"idle", "enter"}
                 PROVE  /\ t'[tgt[u]] = t[tgt[u]]
                        /\ t[tgt[u]] # NULL => node'[t[tgt[u]]] = node[t[tgt[u]]]
      OBVIOUS
    <3>1. /\ tgt[u] \in cells \ {tgt[th], nxt[th]}
          /\ t[tgt[u]] # NULL => t[tgt[u]] \notin {p, q}
      BY <1>1, Apart, OwnsTarget DEF TurnLeft
    <3>2. t[tgt[u]] # NULL => t[tgt[u]] \in nodes
      BY <1>1, <3>1 DEF Inv, Tree
    <3> QED
      BY <1>4, <1>5, <3>1, <3>2
  <2>3. pc[u] \in {"turn", "sink", "left"} => t'[nxt[u]] = t[nxt[u]]
    BY <1>1, <1>5, Apart, OwnsNext, NextIsAllocated DEF TurnLeft
  <2> QED
    BY <1>1, <1>8, <2>1, <2>2, <2>3, Bystander DEF OthersStay
<1> QED
  BY <1>1, <1>7, <1>9, <1>10, <1>11, <1>12 DEF Inv, TurnLeft, main

LEMMA DropInv == ASSUME Inv, NEW th \in Threads, Drop(th) PROVE Inv'
<1> PICK p, l, r : p = t[tgt[th]] /\ l = node[p].left /\ r = nxt[th]
  OBVIOUS
<1>1. ~joined
  BY StillRunning DEF Drop
<1>2. /\ tgt[th] \in cells /\ tgt[th] \in Cells /\ lock[tgt[th]] = th
      /\ r \in cells /\ r \in Cells /\ r # NULL /\ lock[r] = th
      /\ p # NULL /\ p \in nodes /\ r = node[p].right
  BY <1>1, OwnsTarget, OwnsNext, NextIsAllocated DEF Drop, Inv, Place
<1>3. l \in cells /\ lock[l] = NULL /\ l \in Children(p) /\ r \in Children(p) /\ Children(p) = {l, r}
  BY <1>1, <1>2 DEF Drop, Inv, Tree, Children
<1>4. l # tgt[th] /\ l # r /\ r # tgt[th]
  BY <1>1, <1>2, <1>3, BstAssumption DEF Drop, Inv, Place
<1>5. p \in Nodes /\ l \in Cells /\ l # Root /\ r # Root
  BY <1>1, <1>2, <1>3 DEF Inv, Tree, TypeOK
<1>6. cells' = cells \ {l, r} /\ nodes' = nodes \ {p}
  BY DEF Drop
<1>7. /\ t'[tgt[th]] = t[l]
      /\ \A c \in cells \ {tgt[th], l, r} : t'[c] = t[c]
  BY <1>2, <1>3, <1>4, <1>5 DEF Inv, TypeOK, Drop
<1>8. \A m \in nodes \ {p} : node'[m] = node[m]
  BY <1>5 DEF Inv, TypeOK, Drop
<1>9. TypeOK'
  <2>1. /\ node' \in [Nodes -> NodeRecords \cup {NULL}]
        /\ \A m \in nodes' : node'[m] \in NodeRecords
    BY <1>5, <1>6, <1>8 DEF Inv, TypeOK, Drop
  <2>2. t' \in [Cells -> Nodes \cup {NULL}]
    BY <1>2, <1>5 DEF Inv, TypeOK, Drop
  <2>3. cells' \in SUBSET Cells /\ nodes' \in SUBSET Nodes
    BY <1>6 DEF Inv, TypeOK
  <2> QED
    BY <2>1, <2>2, <2>3 DEF Inv, TypeOK, Drop, Goto, main
<1>10. OthersStay(th)
  BY DEF Drop, Goto, OthersStay, Inv, TypeOK
<1>11. LocksMatchSteps'
  <2>1. Held(th) = {tgt[th], r} /\ Held(th)' = {tgt[th]}
    BY DEF Held, Drop, Goto, Inv, TypeOK
  <2> QED
    BY <1>2, <1>4, <1>10, <2>1, OwnLocksOnly, BstAssumption
    DEF Inv, TypeOK, LocksMatchSteps, Drop
<1>12. Tree'
  <2>1. Tree
    BY <1>1 DEF Inv
  <2>2. Root \in cells'
    BY <1>5, <1>6, <2>1 DEF Tree
  <2>3. ASSUME NEW c \in cells', t'[c] # NULL PROVE t'[c] \in nodes'
    <3>1. CASE c = tgt[th]
      BY <1>2, <1>3, <1>4, <1>6, <1>7, <2>1, <2>3, <3>1 DEF Tree
    <3>2. CASE c # tgt[th]
      BY <1>2, <1>6, <1>7, <2>1, <2>3, <3>2 DEF Tree
    <3> QED
      BY <3>1, <3>2
  <2>4. ASSUME NEW m \in nodes'
        PROVE  Children(m)' \subseteq cells' \ {Root} /\ node'[m].left # node'[m].right
    <3>1. m \in nodes /\ m # p /\ Children(m)' = Children(m) /\ node'[m] = node[m]
      BY <1>6, <1>8 DEF Children
    <3>2. Children(m) \subseteq cells \ {Root} /\ Children(m) \cap Children(p) = {}
      BY <1>2, <2>1, <3>1 DEF Tree
    <3>3. node[m].left # node[m].right
      BY <2>1, <3>1 DEF Tree
    <3> QED
      BY <1>3, <1>6, <3>1, <3>2, <3>3
  <2>5. ASSUME NEW c \in cells', NEW d \in cells', t'[c] = t'[d], t'[c] # NULL PROVE c = d
    <3>1. \A e, f \in cells : t[e] = t[f] /\ t[e] # NULL => e = f
      BY <2>1 DEF Tree
    <3>2. c \in cells \ {l, r} /\ d \in cells \ {l, r}
      BY <1>6
    <3>3. CASE c = tgt[th]
      BY <1>3, <1>4, <1>7, <2>5, <3>1, <3>2, <3>3
    <3>4. CASE d = tgt[th]
      BY <1>3, <1>4, <1>7, <2>5, <3>1, <3>2, <3>4
    <3>5. CASE c # tgt[th] /\ d # tgt[th]
      BY <1>7, <2>5, <3>1, <3>2, <3>5
    <3> QED
      BY <3>3, <3>4, <3>5
  <2>6. \A m, o \in nodes' : m # o => Children(m)' \cap Children(o)' = {}
    BY <1>6, <1>8, <2>1 DEF Tree, Children
  <2> QED
    BY <2>2, <2>3, <2>4, <2>5, <2>6 DEF Tree
<1>13. Place(th)'
  <2>1. /\ pc'[th] = "unlock" /\ tgt'[th] = tgt[th] /\ nxt'[th] = NULL /\ call'[th] = call[th]
        /\ call[th] \in Calls
    BY <1>1 DEF Drop, Goto, Inv, TypeOK, Place, Busy
  <2> QED
    BY <1>2, <1>4, <1>6, <2>1 DEF Place, Busy
<1>14. ASSUME NEW u \in Threads \ {th} PROVE Place(u)'
  <2>1. Busy(u) => tgt[u] \in cells'
    <3>1. CASE pc[u] = "enter"
      BY <1>1, <1>5, <1>6, <3>1 DEF Inv, Place, Tree
    <3>2. CASE pc[u] \notin {"idle", "enter"}
      BY <1>1, <1>2, <1>3, <1>6, <3>2, OwnsTarget, BstAssumption
    <3> QED
      BY <3>1, <3>2 DEF Busy
  <2>2. pc[u] \notin {"idle", "enter"} =>
           t'[tgt[u]] = t[tgt[u]] /\ (t[tgt[u]] # NULL => node'[t[tgt[u]]] = node[t[tgt[u]]])
    <3> SUFFICES ASSUME pc[u] \notin {"idle", "enter"}
                 PROVE  /\ t'[tgt[u]] = t[tgt[u]]
                        /\ t[tgt[u]] # NULL => node'[t[tgt[u]]] = node[t[tgt[u]]]
      OBVIOUS
    <3>1. tgt[u] \in cells \ {tgt[th], l, r} /\ (t[tgt[u]] # NULL => t[tgt[u]] # p)
      BY <1>1, <1>3, Apart, OwnsTarget, BstAssumption DEF Drop
    <3>2. t[tgt[u]] # NULL => t[tgt[u]] \in nodes
      BY <1>1, <3>1 DEF Inv, Tree
    <3> QED
      BY <1>7, <1>8, <3>1, <3>2
  <2>3. pc[u] \in {"turn", "sink", "left"} => t'[nxt[u]] = t[nxt[u]]
    <3> SUFFICES ASSUME pc[u] \in {"turn", "sink", "left"} PROVE t'[nxt[u]] = t[nxt[u]]
      OBVIOUS
    <3>1. nxt[u] \in cells /\ lock[nxt[u]] = u
      BY <1>1, OwnsNext, NextIsAllocated
    <3>2. nxt[u] \notin {tgt[th], l, r}
      BY <1>1, <1>2, <1>3, <3>1, BstAssumption
    <3> QED
      BY <1>7, <3>1, <3>2
  <2> QED
    BY <1>1, <1>10, <2>1, <2>2, <2>3, Bystander DEF OthersStay
<1> QED
  BY <1>1, <1>9, <1>11, <1>12, <1>13, <1>14 DEF Inv, Drop, main

-----------------------------------------------------------------------------
(* The steps of main, and the theorems. *)

LEMMA JoinInv == ASSUME Inv, Join PROVE Inv'
<1>1. TypeOK' /\ LocksMatchSteps'
  BY DEF Inv, TypeOK, LocksMatchSteps, Held, Join, memory, threads
<1>2. \A th \in Threads : Retired(th)'
  BY DEF Inv, Place, Join, Retired, threads
<1> QED
  BY <1>1, <1>2 DEF Inv, Join

LEMMA VisitInv == ASSUME Inv, Visit PROVE Inv'
<1> PICK p : p = t[Head(work).cell]
  OBVIOUS
<1>1. /\ nodes' \subseteq nodes /\ node' \in [Nodes -> NodeRecords \cup {NULL}]
      /\ \A n \in nodes' : node'[n] = node[n]
  <2>1. CASE p = NULL
    BY <2>1 DEF Inv, TypeOK, Visit
  <2>2. CASE p # NULL
    BY <2>2 DEF Inv, TypeOK, Visit
  <2> QED
    BY <2>1, <2>2
<1>2. TypeOK'
  <2>1. \A n \in nodes' : node'[n] \in NodeRecords
    BY <1>1 DEF Inv, TypeOK
  <2>2. nodes' \in SUBSET Nodes
    BY <1>1 DEF Inv, TypeOK
  <2> QED
    BY <1>1, <2>1, <2>2 DEF Inv, TypeOK, Visit, threads
<1>3. LocksMatchSteps' /\ \A th \in Threads : Retired(th)'
  BY DEF Inv, LocksMatchSteps, Held, Retired, Visit, threads
<1> QED
  BY <1>2, <1>3 DEF Inv, Visit

LEMMA FreeCellInv == ASSUME Inv, FreeCell PROVE Inv'
<1>1. TypeOK'
  BY DEF Inv, TypeOK, FreeCell, threads
<1>2. LocksMatchSteps' /\ \A th \in Threads : Retired(th)'
  BY DEF Inv, LocksMatchSteps, Held, Retired, FreeCell, threads
<1> QED
  BY <1>1, <1>2 DEF Inv, FreeCell

LEMMA StutterInv == ASSUME Inv, UNCHANGED vars PROVE Inv'
<1>1. TypeOK' /\ LocksMatchSteps'
  BY DEF Inv, TypeOK, LocksMatchSteps, Held, vars, memory, threads, main
<1>2. Tree => Tree'
  BY DEF Tree, Children, vars, memory
<1>3. \A th \in Threads : (Place(th) => Place(th)') /\ (Retired(th) => Retired(th)')
  BY DEF Place, Retired, Busy, Children, vars, memory, threads
<1> QED
  BY <1>1, <1>2, <1>3 DEF Inv, vars, main

\* The invariant of bst_conc.c:61-251, for any number of threads.
THEOREM Invariance == Spec => []Inv
<1>1. Inv /\ [Next]_vars => Inv'
  <2> SUFFICES ASSUME Inv, [Next]_vars PROVE Inv'
    OBVIOUS
  <2>1. ASSUME NEW th \in Threads, Invoke(th) PROVE Inv'
    BY <2>1, InvokeInv
  <2>2. ASSUME NEW th \in Threads, Step(th) PROVE Inv'
    BY <2>2, EnterInv, DescendInv, CoupleInv, LetGoInv, AddNodeInv, OverwriteInv, FoundInv,
       AbsentInv, UnlockInv, StartPushdownInv, LockRightInv, TurnLeftInv, SinkInv, DropInv
    DEF Step
  <2>3. CASE Main
    BY <2>3, JoinInv, VisitInv, FreeCellInv DEF Main
  <2>4. CASE Finished \/ UNCHANGED vars
    BY <2>4, StutterInv DEF Finished
  <2> QED
    BY <2>1, <2>2, <2>3, <2>4 DEF Next
<1> QED
  BY <1>1, InitInv, PTL DEF Spec

\* bst_conc.c:10-11, :61-217.  Type correctness, nodes with all their fields set included.
THEOREM TypeCorrect == Spec => []TypeOK
<1>1. Inv => TypeOK
  BY DEF Inv
<1> QED
  BY <1>1, Invariance, PTL

\* bst_conc.c:155-184.  No thread touches a cell or a node that delete, or main at the
\* end, has freed: not even the child whose lock it is waiting for.
THEOREM MemorySafety == Spec => []NoUseAfterFree
  BY InvSafe, Invariance, PTL

\* bst_conc.c:61-217.  Each thread holds the locks its step calls for and no others.
THEOREM LockDiscipline == Spec => []LocksMatchSteps
<1>1. Inv => LocksMatchSteps
  BY DEF Inv
<1> QED
  BY <1>1, Invariance, PTL

-----------------------------------------------------------------------------
(* One tree.  Tree says that nothing has two parents; here is that nothing *)
(* has none, and that no nodes hang from one another.  Only an insert, a   *)
(* rotation and a Drop change what hangs from what.                        *)

\* Node n is a child of node m.
HangsFrom(n, m) == \E c \in Children(m) : t[c] = n

Rooted ==
    \A S \in SUBSET nodes : S # {} => \E n \in S : \A m \in S : ~HangsFrom(n, m)

ShapeInv ==
    ~joined =>
        /\ \A n \in nodes : \E c \in cells : t[c] = n
        /\ \A c \in cells \ {Root} : \E n \in nodes : c \in Children(n)
        /\ Rooted

LEMMA InitShape == Init => ShapeInv
  BY DEF Init, ShapeInv, Rooted

\* The values of nodes are no part of the shape.
LEMMA SameShape ==
    ASSUME ShapeInv, UNCHANGED <<cells, nodes, t, joined>>,
           \A n \in nodes : node'[n].left = node[n].left /\ node'[n].right = node[n].right
    PROVE  ShapeInv'
<1>1. \A n \in nodes : Children(n)' = Children(n)
  BY DEF Children
<1> QED
  BY <1>1 DEF ShapeInv, Rooted, HangsFrom

LEMMA OverwriteShape ==
    ASSUME Inv, ShapeInv, NEW th \in Threads, Overwrite(th)
    PROVE  ShapeInv'
<1>1. \A n \in nodes : node'[n].left = node[n].left /\ node'[n].right = node[n].right
  BY DEF Inv, TypeOK, NodeRecords, Overwrite
<1> QED
  BY <1>1, SameShape DEF Overwrite, main

LEMMA AddNodeShape ==
    ASSUME Inv, ShapeInv, NEW th \in Threads, AddNode(th)
    PROVE  ShapeInv'
<1> PICK c : c = tgt[th]
  OBVIOUS
<1>1. ~joined /\ pc[th] = "at"
  BY StillRunning DEF AddNode, At
<1>2. c \in cells /\ c \in Cells /\ t[c] = NULL
  BY <1>1, OwnsTarget DEF AddNode, Empty
<1>3. PICK p1 \in Cells \ cells, p2 \in Cells \ cells, n \in Nodes \ nodes :
          /\ p1 # p2
          /\ cells' = cells \cup {p1, p2}
          /\ nodes' = nodes \cup {n}
          /\ t' = [t EXCEPT ![p1] = NULL, ![p2] = NULL, ![c] = n]
          /\ node' = [node EXCEPT ![n] = [key |-> call[th].key, value |-> call[th].value,
                                          left |-> p1, right |-> p2]]
  BY AddNodeEffect
<1>4. Children(n)' = {p1, p2} /\ \A m \in nodes : Children(m)' = Children(m)
  BY <1>3 DEF Inv, TypeOK, Children
<1>5. /\ t'[p1] = NULL /\ t'[p2] = NULL /\ t'[c] = n /\ n # NULL
      /\ \A d \in cells \ {c} : t'[d] = t[d]
  BY <1>2, <1>3, BstAssumption DEF Inv, TypeOK
<1>6. /\ \A e \in cells : t[e] # NULL => t[e] \in nodes
      /\ \A m \in nodes : Children(m) \subseteq cells /\ m # NULL
  BY <1>1, BstAssumption DEF Inv, Tree, TypeOK
<1>7. \A m \in nodes' : \E d \in cells' : t'[d] = m
  <2> SUFFICES ASSUME NEW m \in nodes' PROVE \E d \in cells' : t'[d] = m
    OBVIOUS
  <2>1. nodes' = nodes \cup {n} /\ cells' = cells \cup {p1, p2}
    BY <1>3
  <2>2. CASE m = n
    BY <1>2, <1>5, <2>1, <2>2
  <2>3. CASE m \in nodes
    <3>1. PICK d \in cells : t[d] = m
      BY <1>1, <2>3 DEF ShapeInv
    <3> QED
      BY <1>2, <1>5, <1>6, <2>1, <2>3, <3>1
  <2> QED
    BY <2>1, <2>2, <2>3
<1>8. \A d \in cells' \ {Root} : \E m \in nodes' : d \in Children(m)'
  <2> SUFFICES ASSUME NEW d \in cells' \ {Root} PROVE \E m \in nodes' : d \in Children(m)'
    OBVIOUS
  <2>1. nodes' = nodes \cup {n} /\ cells' = cells \cup {p1, p2}
    BY <1>3
  <2>2. CASE d \in {p1, p2}
    BY <1>4, <2>1, <2>2
  <2>3. CASE d \in cells
    <3>1. PICK m \in nodes : d \in Children(m)
      BY <1>1, <2>3 DEF ShapeInv
    <3> QED
      BY <1>4, <2>1, <3>1
  <2> QED
    BY <2>1, <2>2, <2>3
<1>9. Rooted'
  <2> SUFFICES ASSUME NEW S \in SUBSET nodes', S # {}
               PROVE  \E m \in S : \A o \in S : ~HangsFrom(m, o)'
    BY DEF Rooted
  <2>1. \A m \in nodes' : ~HangsFrom(m, n)'
    BY <1>3, <1>4, <1>5, <1>6, BstAssumption DEF HangsFrom
  <2>2. CASE S \ {n} = {}
    BY <2>1, <2>2
  <2>3. CASE S \ {n} # {}
    <3>1. S \ {n} \in SUBSET nodes
      BY <1>3
    <3>2. PICK m \in S \ {n} : \A o \in S \ {n} : ~HangsFrom(m, o)
      BY <1>1, <2>3, <3>1 DEF ShapeInv, Rooted
    <3>3. ASSUME NEW o \in S \ {n} PROVE ~HangsFrom(m, o)'
      <4>1. o \in nodes /\ m \in nodes /\ Children(o)' = Children(o)
        BY <1>4, <3>1
      <4>2. \A d \in Children(o) : t'[d] = t[d] \/ t'[d] = n
        BY <1>5, <1>6, <4>1
      <4> QED
        BY <1>3, <3>2, <4>1, <4>2 DEF HangsFrom
    <3> QED
      BY <2>1, <3>2, <3>3
  <2> QED
    BY <2>2, <2>3
<1> QED
  BY <1>7, <1>8, <1>9 DEF ShapeInv

LEMMA TurnLeftShape ==
    ASSUME Inv, ShapeInv, NEW th \in Threads, TurnLeft(th)
    PROVE  ShapeInv'
<1> PICK c, r, p, q : c = tgt[th] /\ r = nxt[th] /\ p = t[c] /\ q = t[r]
  OBVIOUS
<1>1. ~joined /\ pc[th] = "turn"
  BY StillRunning DEF TurnLeft
<1>2. /\ c \in cells /\ c \in Cells /\ r \in cells /\ r \in Cells /\ r # c
      /\ p # NULL /\ q # NULL /\ r = node[p].right
  BY <1>1, OwnsTarget, OwnsNext, NextIsAllocated DEF Inv, Place
<1>3. Tree /\ p \in nodes /\ q \in nodes /\ p # q
  BY <1>1, <1>2 DEF Inv, Tree
<1>4. /\ \A e \in cells \ {c, r} : t'[e] = t[e]
      /\ t'[c] = q /\ t'[r] = p /\ cells' = cells /\ nodes' = nodes /\ joined' = joined
  BY <1>2 DEF Inv, TypeOK, TurnLeft, main
<1>5. /\ Children(p) = {node[p].left, r} /\ Children(q) = {node[q].left, node[q].right}
      /\ Children(p)' = {node[p].left, node[q].left} /\ Children(q)' = {r, node[q].right}
      /\ \A m \in nodes \ {p, q} : Children(m)' = Children(m)
  <2>1. node[p] \in NodeRecords /\ node[q] \in NodeRecords /\ p \in Nodes /\ q \in Nodes
    BY <1>3 DEF Inv, TypeOK
  <2>2. node' = [node EXCEPT ![p].right = node[q].left, ![q].left = r]
    BY DEF TurnLeft
  <2> QED
    BY <1>2, <1>3, <2>1, <2>2 DEF Inv, TypeOK, NodeRecords, Children
<1>6. \A m \in nodes' : \E e \in cells' : t'[e] = m
  BY <1>1, <1>2, <1>4 DEF ShapeInv
<1>7. \A e \in cells' \ {Root} : \E m \in nodes' : e \in Children(m)'
  <2> SUFFICES ASSUME NEW e \in cells \ {Root} PROVE \E m \in nodes : e \in Children(m)'
    BY <1>4
  <2>1. PICK m \in nodes : e \in Children(m)
    BY <1>1 DEF ShapeInv
  <2> QED
    BY <1>3, <1>5, <2>1
\* What hung from p or q hangs from one of them still, and p and q have changed places.
<1>8. ASSUME NEW m \in nodes \ {p, q}, NEW o \in nodes, HangsFrom(m, o)'
      PROVE  HangsFrom(m, o) \/ (o \in {p, q} /\ (HangsFrom(m, p) \/ HangsFrom(m, q)))
  <2>1. PICK e \in Children(o)' : t'[e] = m
    BY <1>8 DEF HangsFrom
  <2>2. e # r /\ e # c
    BY <1>4, <2>1
  <2>3. e \in Children(o) \/ (o \in {p, q} /\ (e \in Children(p) \/ e \in Children(q)))
    <3>1. ASSUME o \notin {p, q} PROVE e \in Children(o)
      <4>1. Children(o)' = Children(o)
        BY <1>5, <3>1
      <4> QED
        BY <2>1, <4>1
    <3>2. CASE o \in {p, q}
      <4>1. e \in {node[p].left, node[q].left, node[q].right}
        BY <1>5, <2>1, <2>2, <3>2
      <4> QED
        BY <1>5, <3>2, <4>1
    <3> QED
      BY <3>1, <3>2
  <2>4. e \in cells
    BY <1>3, <2>3 DEF Tree
  <2> QED
    BY <1>4, <2>1, <2>2, <2>3, <2>4 DEF HangsFrom
<1>9. ASSUME NEW o \in nodes, HangsFrom(p, o)' PROVE o = q
  <2>1. PICK e \in Children(o)' : t'[e] = p
    BY <1>9 DEF HangsFrom
  <2>2. e \in cells
    <3>1. node[p].left \in cells /\ Children(q) \subseteq cells /\ Children(o) \subseteq cells
      BY <1>3, <1>5 DEF Tree
    <3> QED
      BY <1>2, <1>5, <2>1, <3>1
  <2>3. e = r
    BY <1>2, <1>3, <1>4, <2>1, <2>2 DEF Tree
  <2>4. r \notin Children(p)'
    <3>1. node[p].left # r /\ Children(p) \cap Children(q) = {}
      BY <1>2, <1>3 DEF Tree
    <3> QED
      BY <1>5, <3>1
  <2>5. ASSUME NEW m \in nodes \ {p, q} PROVE r \notin Children(m)'
    <3>1. Children(p) \cap Children(m) = {}
      BY <1>3 DEF Tree
    <3> QED
      BY <1>5, <3>1
  <2> QED
    BY <2>1, <2>3, <2>4, <2>5
<1>10. ASSUME NEW o \in nodes, HangsFrom(q, o)' PROVE o \notin {p, q} /\ HangsFrom(p, o)
  <2>1. PICK e \in Children(o)' : t'[e] = q
    BY <1>10 DEF HangsFrom
  <2>2. e \in cells
    <3>1. node[p].left \in cells /\ Children(q) \subseteq cells /\ Children(o) \subseteq cells
      BY <1>3, <1>5 DEF Tree
    <3> QED
      BY <1>2, <1>5, <2>1, <3>1
  <2>3. e = c
    BY <1>2, <1>3, <1>4, <2>1, <2>2 DEF Tree
  <2>4. c \notin Children(p)' /\ c \notin Children(q)'
    <3>1. HangsFrom(q, p)
      BY <1>2, <1>5 DEF HangsFrom
    <3>2. ~HangsFrom(p, p)
      <4>1. {p} \in SUBSET nodes /\ {p} # {}
        BY <1>3
      <4> QED
        BY <1>1, <4>1 DEF ShapeInv, Rooted
    <3>3. ~HangsFrom(p, q)
      <4>1. {p, q} \in SUBSET nodes /\ {p, q} # {}
        BY <1>3
      <4>2. PICK m \in {p, q} : \A x \in {p, q} : ~HangsFrom(m, x)
        BY <1>1, <4>1 DEF ShapeInv, Rooted
      <4> QED
        BY <3>1, <4>2
    <3>4. c \notin Children(p) /\ c \notin Children(q)
      BY <3>2, <3>3 DEF HangsFrom
    <3> QED
      BY <1>2, <1>5, <3>4
  <2> QED
    BY <1>5, <2>1, <2>3, <2>4 DEF HangsFrom
<1>11. Rooted'
  <2> SUFFICES ASSUME NEW S \in SUBSET nodes, S # {}
               PROVE  \E m \in S : \A o \in S : ~HangsFrom(m, o)'
    BY <1>4 DEF Rooted
  <2> DEFINE T == S \cup {p, q}
  <2>1. PICK m \in T : \A o \in T : ~HangsFrom(m, o)
    <3>1. T \in SUBSET nodes /\ T # {}
      BY <1>3
    <3> HIDE DEF T
    <3> QED
      BY <1>1, <3>1 DEF ShapeInv, Rooted
  <2>2. HangsFrom(q, p)
    BY <1>2, <1>5 DEF HangsFrom
  <2>3. CASE S \cap {p, q} = {}
    <3>1. PICK m2 \in S : \A o \in S : ~HangsFrom(m2, o)
      BY <1>1 DEF ShapeInv, Rooted
    <3> QED
      BY <1>8, <2>3, <3>1
  <2>4. CASE m \notin {p, q}
    BY <1>8, <2>1, <2>4
  <2>5. CASE m = p /\ q \in S
    BY <1>10, <2>1, <2>5
  <2>6. CASE m = p /\ p \in S /\ q \notin S
    BY <1>9, <2>6
  <2> QED
    BY <2>1, <2>2, <2>3, <2>4, <2>5, <2>6
<1> QED
  BY <1>4, <1>6, <1>7, <1>11 DEF ShapeInv

LEMMA DropShape ==
    ASSUME Inv, ShapeInv, NEW th \in Threads, Drop(th)
    PROVE  ShapeInv'
<1> PICK c, r, p, l, x :
        c = tgt[th] /\ r = nxt[th] /\ p = t[c] /\ l = node[p].left /\ x = t[l]
  OBVIOUS
<1>1. ~joined /\ pc[th] = "left"
  BY StillRunning DEF Drop
<1>2. /\ c \in cells /\ c \in Cells /\ r \in cells /\ r \in Cells
      /\ p # NULL /\ p \in nodes /\ r = node[p].right /\ t[r] = NULL
  BY <1>1, OwnsTarget, OwnsNext, NextIsAllocated DEF Inv, Place
<1>3. /\ l \in cells /\ l \in Cells /\ lock[l] = NULL /\ lock[c] = th
      /\ l # r /\ l # c /\ r # c /\ l # Root /\ r # Root /\ cells \subseteq Cells
  BY <1>1, <1>2, OwnsTarget, BstAssumption DEF Drop, Inv, Tree, TypeOK, Children, Place
<1>4. Tree /\ Children(p) = {l, r}
  BY <1>1, <1>2 DEF Inv, Children
<1>5. /\ cells' = cells \ {l, r} /\ nodes' = nodes \ {p} /\ joined' = joined
      /\ t'[c] = t[l] /\ \A e \in cells' \ {c} : t'[e] = t[e]
      /\ \A m \in nodes' : Children(m)' = Children(m)
  BY <1>2, <1>3 DEF Inv, TypeOK, Drop, Children, main
<1>6. \A m \in nodes : m # NULL
  BY BstAssumption DEF Inv, TypeOK
<1>7. ASSUME NEW m \in nodes' PROVE \E e \in cells' : t'[e] = m
  <2>1. PICK e \in cells : t[e] = m
    BY <1>1, <1>5 DEF ShapeInv
  <2>2. e # c /\ e # r
    BY <1>2, <1>5, <1>6, <2>1
  <2>3. CASE e = l
    BY <1>2, <1>3, <1>5, <2>1, <2>3
  <2>4. CASE e # l
    BY <1>5, <2>1, <2>2, <2>4
  <2> QED
    BY <2>3, <2>4
<1>8. ASSUME NEW e \in cells' \ {Root} PROVE \E m \in nodes' : e \in Children(m)'
  <2>1. PICK m \in nodes : e \in Children(m)
    BY <1>1, <1>5 DEF ShapeInv
  <2>2. m # p
    BY <1>4, <1>5, <2>1
  <2> QED
    BY <1>5, <2>1, <2>2
\* What hung from p hangs from the node that p hung from; all else stays.
<1>9. ASSUME NEW m \in nodes', NEW o \in nodes', HangsFrom(m, o)'
      PROVE  HangsFrom(m, o) \/ (m = x /\ HangsFrom(p, o))
  <2>1. PICK e \in Children(o) : t'[e] = m
    BY <1>5, <1>9 DEF HangsFrom
  <2>2. e \in cells'
    <3>1. e \in cells /\ Children(o) \cap Children(p) = {}
      BY <1>2, <1>4, <1>5, <2>1 DEF Tree
    <3> QED
      BY <1>4, <1>5, <2>1, <3>1
  <2>3. CASE e = c
    BY <1>5, <2>1, <2>3 DEF HangsFrom
  <2>4. CASE e # c
    <3>1. t[e] = m
      BY <1>5, <2>1, <2>2, <2>4
    <3> QED
      BY <2>1, <3>1 DEF HangsFrom
  <2> QED
    BY <2>3, <2>4
<1>10. Rooted'
  <2> SUFFICES ASSUME NEW S \in SUBSET nodes', S # {}
               PROVE  \E m \in S : \A o \in S : ~HangsFrom(m, o)'
    BY DEF Rooted
  <2>1. S \subseteq nodes /\ p \notin S
    BY <1>5
  <2>2. CASE x \notin S
    <3>1. PICK m \in S : \A o \in S : ~HangsFrom(m, o)
      BY <1>1, <2>1 DEF ShapeInv, Rooted
    <3> QED
      BY <1>9, <2>2, <3>1
  <2>3. CASE x \in S
    <3>1. S \cup {p} \in SUBSET nodes /\ S \cup {p} # {}
      BY <1>2, <2>1
    <3>2. PICK m \in S \cup {p} : \A o \in S \cup {p} : ~HangsFrom(m, o)
      BY <1>1, <3>1 DEF ShapeInv, Rooted
    <3>3. HangsFrom(x, p)
      BY <1>4 DEF HangsFrom
    <3>4. ASSUME m = p, NEW o \in S PROVE ~HangsFrom(x, o)'
      <4>1. ~HangsFrom(x, o)
        <5>1. \A e \in Children(o) : e # l
          BY <1>2, <1>4, <2>1 DEF Tree
        <5>2. \A e \in Children(o) : e \in cells
          BY <1>4, <2>1 DEF Tree
        <5> QED
          BY <1>3, <1>4, <1>6, <2>1, <2>3, <5>1, <5>2 DEF Tree, HangsFrom
      <4>2. ~HangsFrom(p, o)
        BY <3>2, <3>4
      <4>3. x \in nodes' /\ o \in nodes'
        BY <2>3
      <4> QED
        BY <1>9, <4>1, <4>2, <4>3
    <3>5. CASE m # p
      <4>1. m \in S /\ m \in nodes' /\ m # x
        BY <3>2, <3>3, <3>5
      <4>2. ASSUME NEW o \in S PROVE ~HangsFrom(m, o)'
        <5>1. o \in nodes' /\ ~HangsFrom(m, o)
          BY <3>2
        <5> QED
          BY <1>9, <4>1, <5>1
      <4> QED
        BY <4>1, <4>2
    <3> QED
      BY <2>3, <3>2, <3>4, <3>5
  <2> QED
    BY <2>2, <2>3
<1> QED
  BY <1>5, <1>7, <1>8, <1>10 DEF ShapeInv

LEMMA ShapeIsOneTree == Inv /\ ShapeInv => OneTree
<1> SUFFICES ASSUME Inv, ShapeInv, ~joined PROVE OneTree
  BY DEF OneTree
<1>1. Tree
  BY DEF Inv
<1>2. ASSUME NEW n \in nodes PROVE \E c \in cells : {d \in cells : t[d] = n} = {c}
  <2>1. n # NULL
    BY BstAssumption DEF Inv, TypeOK
  <2>2. PICK c \in cells : t[c] = n
    BY DEF ShapeInv
  <2>3. {d \in cells : t[d] = n} = {c}
    BY <1>1, <2>1, <2>2 DEF Tree
  <2> QED
    BY <2>3
<1>3. ASSUME NEW c \in cells \ {Root}
      PROVE  \E n \in nodes : {m \in nodes : c \in Children(m)} = {n}
  <2>1. PICK n \in nodes : c \in Children(n)
    BY DEF ShapeInv
  <2>2. {m \in nodes : c \in Children(m)} = {n}
    BY <1>1, <2>1 DEF Tree
  <2> QED
    BY <2>2
<1>4. \A S \in SUBSET nodes : S # {} => \E n \in S : \A m \in S : \A c \in Children(m) : t[c] # n
  BY DEF ShapeInv, Rooted, HangsFrom
<1> QED
  BY <1>1, <1>2, <1>3, <1>4 DEF OneTree, Tree

\* bst_conc.c:61-80, :153-184.  The tree stays one tree: nothing is left hanging by an
\* insert, a rotation or the freeing of a node, in whatever order threads do these.
THEOREM WholeTree == Spec => []OneTree
<1>1. Inv /\ ShapeInv /\ [Next]_vars => ShapeInv'
  <2> SUFFICES ASSUME Inv, ShapeInv, [Next]_vars PROVE ShapeInv'
    OBVIOUS
  <2>1. CASE UNCHANGED <<memory, joined>>
    BY <2>1, SameShape DEF memory
  <2>2. ASSUME NEW th \in Threads, Invoke(th) PROVE ShapeInv'
    BY <2>1, <2>2 DEF Invoke, main
  <2>3. ASSUME NEW th \in Threads, Step(th) PROVE ShapeInv'
    <3>1. CASE AddNode(th) \/ Overwrite(th) \/ TurnLeft(th) \/ Drop(th)
      BY <3>1, AddNodeShape, OverwriteShape, TurnLeftShape, DropShape
    <3>2. CASE Enter(th) \/ Descend(th) \/ Couple(th) \/ LetGo(th) \/ Found(th) \/ Absent(th)
      BY <2>1, <3>2 DEF Enter, Descend, Couple, LetGo, Found, Absent, main
    <3>3. CASE Unlock(th) \/ StartPushdown(th) \/ LockRight(th) \/ Sink(th)
      BY <2>1, <3>3 DEF Unlock, StartPushdown, LockRight, Sink, main
    <3> QED
      BY <2>3, <3>1, <3>2, <3>3 DEF Step
  <2>4. CASE Main
    BY <2>4 DEF Main, Join, Visit, FreeCell, ShapeInv
  <2>5. CASE Finished \/ UNCHANGED vars
    BY <2>1, <2>5 DEF Finished, vars, main
  <2> QED
    BY <2>2, <2>3, <2>4, <2>5 DEF Next
<1> QED
  BY <1>1, InitShape, ShapeIsOneTree, Invariance, PTL DEF Spec

=============================================================================
