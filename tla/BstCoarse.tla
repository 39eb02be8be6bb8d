------------------------------ MODULE BstCoarse ------------------------------
(***************************************************************************)
(* bst_conc_cglock.c and bst_conc_cglock3.c: a binary search tree under    *)
(* one lock.  insert, lookup and delete acquire it before they look at the *)
(* tree and release it when they are done, so that a call is one step here.*)
(*                                                                         *)
(* A tree is NULL or a node with its two subtrees: with one pointer to     *)
(* each node, the addresses do not matter.  The bodies are those of        *)
(* cglock3, which keeps them apart from the locking; cglock has the same   *)
(* ones in line.                                                           *)
(***************************************************************************)
EXTENDS Integers

CONSTANT NULL

VARIABLES tree,   \* the tree_t record's t
          live    \* the struct trees that are allocated

Leaf(x, v) == [key |-> x, value |-> v, left |-> NULL, right |-> NULL]

RECURSIVE Inserted(_, _, _)
Inserted(p, x, v) ==
    CASE p = NULL  -> Leaf(x, v)
      [] p # NULL /\ x < p.key -> [p EXCEPT !.left = Inserted(@, x, v)]
      [] p # NULL /\ p.key < x -> [p EXCEPT !.right = Inserted(@, x, v)]
      [] OTHER -> [p EXCEPT !.value = v]

RECURSIVE Find(_, _)
Find(p, x) ==
    CASE p = NULL -> NULL
      [] p # NULL /\ x < p.key -> Find(p.left, x)
      [] p # NULL /\ p.key < x -> Find(p.right, x)
      [] OTHER -> p

Value(p) == IF p = NULL THEN NULL ELSE p.value

\* The node on top after turn_left is r, with l on its left.
turn_left(l, r) == [r EXCEPT !.left = [l EXCEPT !.right = r.left]]

pushdown_left_TakesRight(p) == IF p.right = NULL THEN p.left ELSE p.right
RECURSIVE pushdown_left(_)
pushdown_left(p) ==
    IF p.right = NULL
    THEN p.left
    ELSE LET top == turn_left(p, p.right)
         IN  [top EXCEPT !.left = pushdown_left(@)]

RECURSIVE Deleted(_, _)
Deleted(p, x) ==
    CASE p = NULL -> NULL
      [] p # NULL /\ x < p.key -> [p EXCEPT !.left = Deleted(@, x)]
      [] p # NULL /\ p.key < x -> [p EXCEPT !.right = Deleted(@, x)]
      [] OTHER -> pushdown_left(p)

RECURSIVE Size(_)
Size(p) == IF p = NULL THEN 0 ELSE 1 + Size(p.left) + Size(p.right)

-----------------------------------------------------------------------------
(* The calls, each from acquire to release. *)

treebox_new == tree = NULL /\ live = 0

insert(x, v) ==
    /\ tree' = Inserted(tree, x, v)
    /\ live' = IF Find(tree, x) = NULL THEN live + 1 ELSE live

lookup(x) == Value(Find(tree, x))

delete(x) ==
    /\ tree' = Deleted(tree, x)
    /\ live' = IF Find(tree, x) = NULL THEN live ELSE live - 1

\* tree_free frees what it reaches.
treebox_free ==
    /\ tree' = NULL
    /\ live' = live - Size(tree)

==============================================================================
