----------------------------- MODULE MCBstHelping ----------------------------
(***************************************************************************)
(* What is checked of BstHelping.                                          *)
(***************************************************************************)
EXTENDS BstHelping, Functions

CONSTANTS t1, t2,       \* two of the Threads
          Few,          \* three of the Keys
          Calls,        \* calls of each thread, beside the other one
          DeleteCalls   \* calls of t1, alone

Workload(first, ops, keys, calls) ==
    [first |-> first, ops |-> ops, keys |-> keys, calls |-> calls]
Each(v, w) == [t \in Threads |-> IF t = t1 THEN v ELSE w]

AddAndFind == Workload(<<>>, Each({"add", "find"}, {"add", "find"}), Each(Few, Few),
                       Each(Calls, Calls))
Alone == Workload(<<>>, Each({"add", "find", "delete"}, {}), Each(Few, {}),
                  Each(DeleteCalls, 0))

\* One thread deletes j, once, while the other one does something else.
Beside(first, j, ops, keys, calls) ==
    Workload(first, Each({"delete"}, ops), Each({j}, keys), Each(1, calls))

Orders == {s \in [1 .. 3 -> Few] : IsInjective(s)}

\* Of three nodes only the one of 2 may have two children, when it was added first.
TwoChildren(s, j) == j = 2 /\ s[1] = 2

\* A delete that relocates nothing, beside searches.
DeleteAndFind == {Beside(p[1], p[2], {"find"}, Few, Calls) :
                     p \in {q \in Orders \X Few : ~TwoChildren(q[1], q[2])}}

\* A delete beside an add, where the delete empties no link on the way of the add.
DeleteAndAdd == {Beside(s, j, {"add", "find"}, {4}, 1) : s \in {<<3, 1, 2>>, <<3, 2, 1>>}, j \in Few}
                \cup {Beside(<<2, 1, 3>>, 1, {"add", "find"}, {4}, 1)}
                \cup {Beside(<<1, 3, 2>>, j, {"add", "find"}, {4}, 1) : j \in {2, 3}}

\* Two deletes, where neither node hangs from what the other one's unlinking empties.
TwoDeletes == {Beside(w[1], w[2], {"delete"}, {w[3]}, 1) : w \in {
    <<<<2, 1, 3>>, 2, 1>>, <<<<2, 1, 3>>, 1, 3>>, <<<<1, 2, 3>>, 1, 3>>, <<<<1, 3, 2>>, 1, 2>>,
    <<<<1, 3, 2>>, 2, 3>>, <<<<3, 1, 2>>, 1, 3>>, <<<<3, 1, 2>>, 2, 3>>, <<<<3, 2, 1>>, 1, 2>>,
    <<<<3, 2, 1>>, 1, 3>>, <<<<3, 2, 1>>, 2, 3>>, <<<<2, 1, 4, 3>>, 2, 1>>,
    <<<<2, 1, 4, 3>>, 2, 4>>, <<<<2, 1, 4, 3>>, 3, 4>>}}

SafeWorkloads == {AddAndFind, Alone} \cup DeleteAndFind \cup DeleteAndAdd \cup TwoDeletes

\* main's remove threads, which all delete the same keys (line 616).
RemoveThreads == {Beside(<<1>>, 1, {"delete"}, {1}, 1)}

\* One remove thread and one lookup thread.
RemoveAndLookup(first, keys) ==
    {Workload(first, Each({"delete"}, {"find"}), Each(keys, keys), Each(2, 2))}
DeleteTwice == RemoveAndLookup(<<1, 2>>, {1, 2})
RelocateAndDelete == RemoveAndLookup(<<2, 1, 3>>, {2, 3})

-----------------------------------------------------------------------------

\* bst_conc_nblocking4.c:329, :403, :484.  No thread is caught for ever in the
\* retries of find, add and delete, whoever is to clear the flag it has met.
EveryCallEnds == <>[](\A t \in Threads : loc[t].pc = "idle" /\ work.calls[t] = 0)

==============================================================================
