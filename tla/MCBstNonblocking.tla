-------------------------- MODULE MCBstNonblocking --------------------------
(***************************************************************************)
(* What is checked of BstNonblocking: see the end of that module for the   *)
(* properties that are also proved.                                        *)
(***************************************************************************)
EXTENDS BstNonblocking

\* malloc reuses the lowest address that is free, so that a node freed after a
\* failed attempt comes back at once as another one.
Lowest(S) == {a \in S : \A b \in S : a <= b}

-----------------------------------------------------------------------------
\* bst_conc_nblocking.c:57-80, :186.  Although a failed attempt can make the next one fail
\* too, every call ends; then main frees every node.
EverythingFreed == <>(joined /\ work = <<>> /\ nodes = {})

=============================================================================
