----------------------------- MODULE MCBstConc ------------------------------
(***************************************************************************)
(* What is checked of BstConc: threads stay on allocated memory and on one *)
(* tree, nothing leaks, calls are atomic, and every call ends.  BstCoarse  *)
(* runs beside it: the tree under one lock gets each call when the call    *)
(* takes effect.                                                           *)
(***************************************************************************)
EXTENDS BstConc

VARIABLES tree, live

OneLock == INSTANCE BstCoarse

Ends(th) == Stage[th] = "called" /\ Stage'[th] = "done"

SameCall ==
    \/ joined' /\ ~joined /\ OneLock!treebox_free
    \/ \E th \in Threads :
          /\ Ends(th)
          /\ \/ call[th].op = "insert" /\ OneLock!insert(call[th].key, call[th].value)
             \/ call[th].op = "delete" /\ OneLock!delete(call[th].key)
             \/ call[th].op = "lookup" /\ UNCHANGED <<tree, live>>
    \/ (joined' = joined /\ \A th \in Threads : ~Ends(th)) /\ UNCHANGED <<tree, live>>

bothVars == <<vars, tree, live>>

BothInit == Init /\ OneLock!treebox_new

\* The fairness of FairSpec, of steps that the tree under one lock goes along with.
BothSpec ==
    /\ BothInit /\ [][Next /\ SameCall]_bothVars
    /\ WF_bothVars(Main /\ SameCall)
    /\ \A th \in Threads : WF_bothVars((Step(th) \/ Invoke(th)) /\ SameCall)

\* malloc reuses the lowest address that is free: addresses are only compared
\* for equality, and reusing them at once is what confuses a stale pointer most.
Lowest(S) == {a \in S : \A b \in S : a <= b}

-----------------------------------------------------------------------------
\* The tree that hangs from a cell.
RECURSIVE Below(_)
Below(c) ==
    IF t[c] = NULL
    THEN NULL
    ELSE LET n == node[t[c]]
         IN  [key |-> n.key, value |-> n.value, left |-> Below(n.left), right |-> Below(n.right)]

\* bst_conc.c:61-217, bst_conc_cglock.c:64-171.  Hand over hand or under one lock, it is the
\* same tree: a lookup would find the same value at any moment, and whenever no delete is
\* under way the two have one shape, though rotations and inserts of several threads have
\* gone on at once.  The tree under one lock is freed to the last node.
SameTree ==
    /\ ~joined =>
          /\ \A k \in Keys : OneLock!lookup(k) = IF k \in DOMAIN Map THEN Map[k] ELSE NULL
          /\ (\A th \in Threads : pc[th] \notin {"right", "turn", "sink", "left"})
                => Below(Root) = tree
    /\ joined => live = 0

\* bst_conc.c:219-251.  Every call returns, main joins the threads and
\* treebox_free gives everything back.
EverythingFreed == <>(joined /\ work = <<>> /\ cells = {} /\ nodes = {})

=============================================================================
