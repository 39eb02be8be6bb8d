# DeepSpecDB in TLA+

Specifications of the C code of this repository: what its data structures do,
step by step, what they promise, and why the first implies the second. Paths
are relative to the repository; `relation_mem.c` without a path is
`src/btrees_and_tries/relation_mem.c`, `bst_conc.c` is `concurrency/bst_conc.c`, and so for its neighbours.
(`PROJECT.json` writes the same files with the checkout's `src/` in front.)

## 1. The system

DeepSpecDB is a set of C libraries, most of them sequential, written to be
verified. What follows lists the parts, the state each keeps, and what makes it
correct.

| Part | State | Operations | Hard behaviour | Correct when |
|---|---|---|---|---|
| Relation (`relation_mem.c`) | B+ tree of nodes of FANOUT entries; record count; depth. A cursor: a path of nodes and indices | new, delete, put; cursor new, free, move to key, first, next, previous; read key and record | nested splits; a cursor climbs only as far as it must; two representations of one position; cursors overtaken by another's put | an ordered map; a cursor is a position in it |
| Relation, verified copy (`verif/btrees/relation_mem.c`) | the same | the same | the Coq proofs are about this copy, the programs link the other | as above; and the two copies agree |
| Hand-over-hand tree (`bst_conc.c`) | cells with a lock each, nodes; what each thread holds | insert, lookup, delete by rotation, destroy | every interleaving of lock operations; freeing what another thread waits for | each call atomic; no access to freed memory; no deadlock; no leak |
| Threads (`concurrency/threads.c`) | mutexes | make, acquire, release, free; spawn | blocking | as POSIX says |
| Coarse-lock trees (`bst_conc_cglock.c`, `bst_conc_cglock3.c`) | one lock, nodes | insert, lookup, delete, destroy | little: one critical section | the same tree as that of `bst_conc.c` |
| Lock-free tree (`bst_conc_nblocking.c`) | atomic pointers, nodes | insert, lookup, destroy | compare-and-swap retries, stale expected values | as the hand-over-hand tree, without locks |
| Lock-free tree with helping (`bst_conc_nblocking4.c`) | nodes with an operation word; child-CAS and relocation records | find, add, delete, the helpers | several threads finish one operation; marks; links read again | one search tree; no add lost; every call ends |
| Memory manager (`memmgr/malloc.c`) | free lists by size class | malloc, free, pre-fill | size classes at their boundaries; sums that wrap; running out while pre-filling | blocks handed out are disjoint and large enough |
| Key-value store (`kvstore.c`, `bordernode.c`) | a trie: each level a relation over 8-byte slices, whose records are border nodes with values, suffixes and links to the next level | put, get | two long keys that share slices | a map from strings to values |
| String and integer index (`index_string.c`, `index_int.c`) | the same trie with a stack of cursors; the integer one wraps a relation | put, (cursor moves) | two keys that share slices | a map from strings |
| Query operators and indices (`src/db_ops/db_operations_light.c`, `tuplekey/`) | iterators with environments; hash tables and lists as indices; queues of tuples | load, index, sequential scan, index scan, index join | iterators that share a queue; indices of indices | the rows of the relational expression |
| Linked list, string bag, permuter | - | - | - | not used by a program that runs |
| Coq (`verif/`, `model/`), papers | - | - | - | not code that runs |

Interaction: the key-value store, the indices and the query operators call the
relation library through `relation.h` and keep its cursors; each program links
one of the allocators; the trees under `concurrency/` are separate programs that
share `threads.c` and `SC_atomics.c`. Nothing is persisted and nothing is sent
over a network, so there are no crashes to recover from and no messages to lose.
The hard parts are long sequences of calls (relation, trie, memory manager),
iterators that share state (query plans) and interleavings (the concurrent
trees). `PROJECT.json` lists them line by line under "hazards".

## 2. Modules

| Module | What it is |
|---|---|
| `BtNode` | a B+ tree node and the functions of `relation_mem.c` that touch one node: the two searches, the shift for an insertion, `splitnode`. No recursion. |
| `RelationMem` | the relation and its cursors: one action for each call of `relation.h` that changes state |
| `OrderedRelation` | the contract of `relation.h`: a map, cursors as positions, "lost" cursors |
| `MCRelation` | what is checked of `RelationMem`, and the refinement to `OrderedRelation` |
| `RelationProofs` | the inductive invariant of `RelationMem` and the theorems; the lemmas about nodes, splits, ways down and paths that they rest on |
| `RelationContractProofs` | that `RelationMem` implements `OrderedRelation`; what the calls answer; what deletion frees |
| `RelationVerified` | the verified copy of the library |
| `MCRelationVerified` | the two copies side by side, and the copy's refinement to `OrderedRelation` |
| `BstConc` | `bst_conc.c`: one action for each stretch between two lock operations; the refinement mapping to `AtomicMap` |
| `AtomicMap` | what a concurrent map promises: a call takes effect in one step |
| `BstCoarse` | the trees under one lock: a call is one step |
| `MCBstConc` | what is checked of `BstConc`, with `BstCoarse` beside it |
| `BstConcProofs`, `BstConcLinearProofs` | the inductive invariants of `BstConc` and the theorems: memory safety; linearizability |
| `BstNonblocking` | `bst_conc_nblocking.c`: one action for each atomic access |
| `MCBstNonblocking` | what is checked of `BstNonblocking` |
| `BstNonblockingProofs` | the inductive invariants of `BstNonblocking` and the theorems: linearizability; memory safety |
| `BstHelping` | `bst_conc_nblocking4.c`: one action for each atomic access; and the properties that are proved |
| `MCBstHelping` | the workloads, and liveness |
| `BstHelpingProofs` | the inductive invariant of `BstHelping` for threads that add and look up, and the theorems |
| `KVStore` | the key-value store: one action for each case of the loops of `KV_Put` and `KV_Get`; and the properties that are proved |
| `KVStoreProofs` | the inductive invariants of `KVStore` and of the trie beside it, and the theorems |
| `IndexString` | the trie of `index_string.c`: a put is one step |
| `MCKVStore` | the rest of what is checked of `KVStore`, with `IndexString` beside it |
| `QueryPlans` | `db_operations_light.c` and the indices under it: one action for each call a client makes |
| `MCQueryPlans` | the plans, and what is checked of `QueryPlans` |
| `MemMgr` | `malloc.c`: one action for each call, and for each turn of `try_pre_fill`; and what is checked of it |
| `MemMgrProofs` | the inductive invariant of `MemMgr` and the theorems |

A definition with a suffix, such as `splitLeft_KeepsLastLeaf` next to
`splitLeft`, is a plausible mistake in that function. It is used by no
specification: it is put in the place of the right one to see that the
property meant to catch it does ("mutants" in `PROJECT.json`).

### RelationMem

`rel` is `struct Relation` with the nodes allocated, numbered in order of
allocation; nothing but `RL_DeleteRelation` frees one. A node's `entries` is the
whole C array: slots past `numKeys` keep what was there before, because a cursor
that is behind may read them. `cursor[c]` is `struct Cursor`. The code is
sequential, so one call is one action. `RL_GetRecord` and `RL_GetKey` are one
action, for they do the same to the cursor.

The recursions of the code follow one path, down or up, so they are functions of
the level here, which is what makes them fit for proofs: `descend` is the way down
from a node with the index that `moveToKey` or `moveToFirst` takes in each;
`AscendToParent` and the loops of `moveToNext` and `moveToPrev` end at the lowest level
where their condition holds. `putEntry` calls itself for the level above after
each `splitnode`: `splits` is the relation after each of these calls, and
`levelWithRoom` where the last of them is, which inserts, or grows a root at -1. Both
results of `RL_PutRecord`, the tree and the cursor, come out of `putEntry`, which
repairs the cursor from that level down.

`util.h:30` says that the "Program will crash if client tries to increase the Btree
past MAX_TREE_DEPTH levels": a cursor's arrays end there. The model's client does not
(the guard of `RL_PutRecord`); the keys of the runs do not take a tree that far.

`entries[-1].ptr`, which `moveToPrev` reads when an index falls to -1, is
`ptr0`: in `struct BtNode` that field is the word before the array's first
pointer minus one entry. The model takes this layout as given; it is what the
compilers the repository names produce.

`synced` is not in the program. It names the cursors that no other cursor's put
has overtaken: `RL_PutRecord` repairs its own cursor and no other. The client of
the model sends a cursor that is behind to the first record (the one call that
starts from the root) before it uses it again. That is how the code can be used
safely; the header does not say so (section 5).

About 600 lines of the file, `deleteKeyRecord`, `handleDeleteOfEntry` and
`redistributeOrMerge`, are commented out, and `RL_DeleteRecord` returns False.

### RelationVerified

`verif/btrees/relation_mem.c` is a rewrite of the same library: one `isNodeParent`
for leaves and intern nodes, a `moveToLast` that goes to the last leaf, a
`putEntry` that climbs by lowering the cursor's own level. The module is written
from that file alone and keeps less than `RelationMem` does: the sequence of a
node's first `numKeys` entries, and a cursor's levels up to its own. That is
enough because of `synced`, as above.

`MCRelationVerified` gives both copies the same calls and compares them. The
README of the repository says that the folders in `/verif` "usually contain a copy
of the C code at stake", so what is proved in Coq matters to the programs as far as
the copies agree: they build the same nodes in the same order, and leave a cursor
at the same node and index after every call but `RL_MoveToPrevious`. A state's
cursors may stand apart after that one; the comparison is made from the places
they share.
`client` says whether one cursor is used with all the keys or both with a few of them.

### BstConc

A cell (`struct tree_t`) has an address that never changes while it is
allocated, a lock and a pointer `t` to a node (`struct tree`) or NULL. The lock
is allocated apart in C, but lives and dies with its cell. Each thread has the
program counter of its call: `enter` before the first acquire; `at` with the
lock of `tgt`; `couple` about to take the lock of the child `nxt`; `letgo` with
both; `right`, `turn`, `sink`, `left` in `pushdown_left`; `unlock` before the
last release. Everything between two lock operations is one action. That is
sound because all of it touches only cells whose locks the thread holds, which
`BstConcProofs` proves (`Apart`, `OwnsTarget`, `OwnsNext`).

malloc picks any free addresses allowed by the constant `Candidates`; the proofs
hold for every choice. The runs take the lowest free one, which reuses an
address at once and so makes a stale pointer as harmful as it can be. `main` is
modelled with as many threads and calls as the constants say: `thread_func`
and `main` both insert in the program, and the fixed list of calls is replaced
by any. `Join` stands for acquiring `thread_lock`, `Visit` and `FreeCell` for
`tree_free`, whose recursion is the list `work`.

`exit(1)` when malloc fails is not modelled: it ends the program.

`Stage` and `Map` map the state to `AtomicMap`; they are in this module because
the runs and the proofs both use them.

### BstCoarse

`bst_conc_cglock.c` and `bst_conc_cglock3.c` hold one lock from the first access
to the last, so that a call is one step and the tree is a nested record: with
one pointer to each node, addresses do not matter. In `MCBstConc` it runs beside
`BstConc` and gets each call in the step in which the call takes effect there.
The two files differ in where the locking is written (cglock3 has it in
`insert_conc` and the like, around sequential calls), and cglock3's
`treebox_free` (47-57) leaves the `tree_t` record allocated, which the module
does not count.

### BstNonblocking

The children of a node and its value are pointers allocated apart
(`atom_ptr`); they live and die with their node, so a node is modelled with
them. `Cells` are the pointers to children, with `Root` for `tb`; `ptr` is what
they hold; `node` is the key and the value. `SC_atomics.c` uses the C11
operations with their default order, sequential consistency, so that an
interleaving of atomic accesses is all that can happen: each action is one
access and what the thread does with its own variables and its own new node up
to the next. At `load` the thread is about to load the pointer `temp` (in
`lookup`: the child it has chosen), at `cas` to compare-and-swap it, at `store`
and `read` to access the value of `tp`.

`ref` is what `*ref` holds. A failed compare-and-swap stores the node it found
there, and `insert` goes on with it; the next compare-and-swap, at a pointer
below that node, then expects a node where there is none. It fails as well and
sets `*ref` to what it did find, so that at most one attempt is wasted. That it
never succeeds is `StaysLinked`.

`range` is not in the program: it gives each pointer the keys that a search can
bring to it. It is written by `Link` only and guards nothing. The proofs use it.

### BstHelping

An action is one atomic access of `bst_conc_nblocking4.c` and what follows it up
to the next. A thread's `loc` has its program counter and the local variables
that are still to be read; `hop`, `hnode`, `hpred`, `hpredOp` are the arguments of
the helper it is in and `back` is where that helper returns to. `find` is shared
by all calls, so `then` says what comes after it; it reads a node's operation in
`FindOp` and its key, which a relocation may have changed by then, in `FindKey`.
Links are pairs of a node and a side, and a link is read again where the code does
so (`add` and `delete` read `*curr` after `find` has).

What the code does and the published algorithm it follows does not is in the
model, for the model is written from the code: `find` leaves its loop after it
has helped (line 364) and the caller goes on with what was found so far;
`helpMarked` tests the address of a link rather than what it holds, so that a
node with only a right child is replaced by nothing; a failing compare-and-swap
in `helpRelocate` writes into the shared record. Reading through NULL or through
`SET_NULL(NULL)` is the state `crash`, and stops the model.

The client runs a workload: keys that are added first, one after the other, and then
what each thread may call, with which keys and how often. `SafeWorkloads` has those in
which the code is right: two threads that add and look up (`AddAndFind`); one thread
alone that does everything (`Alone`); finds beside the delete of any node of any tree
of three keys, but for one with two children (`DeleteAndFind`); an add or a find beside a
delete that empties no link on the add's way (`DeleteAndAdd`); two deletes of
different keys, neither of whose nodes hangs from a link that the other empties, with
relocations among them (`TwoDeletes`). Outside them it is not: a delete beside an add
below the same node, two deletes of the same key or of two keys below each other, and a
lookup or a delete that helps (section 5). That is why `FoundIsTrue` is
about positive answers only and `AddsKept` about the tree.

`held` and `late` are not in the program. `held` are the keys whose last finished add
or delete was an add, and `late` marks a search during which a delete of its key has
ended: it may have met the key before.

Left out: values; `free(reloc_op)` while the record is still published, for the
model never reuses a record, so that what a freed one may hold is not explored;
the hazard-pointer code, which is commented out; the gate main holds its threads
at. `bst_conc_nblocking2.c` does not compile.

### KVStore

`layers` is the trie: for each `KVNode` its relation, as a function from slices
to border nodes. The relation library is taken by its contract; each layer has
a single cursor, so that no cursor is ever behind. A border node is as in
`bordernode.c`: `suffixLink` holds a value when there is a suffix, and else a link
or nothing.

`KV_Put` is a loop that goes down one layer in each turn, and
`getValueOfPartialKey` calls itself last; the actions are the turns, by the
cases that the comments of `KV_Put` number. `key` is what is left of the key,
`snd` the key and value that `KV_Put` carries along once it has taken a suffix
out of a border node. Case 1.0 does not set `putCompleted`: the next turn finds
the key and puts the value again, and the model does so too.

`map` and `mixed` are not in the program. `map` is what the client has put;
`mixed` are the keys that case 0.0.0 has had its hands on (section 5), until
they are put again. `verifiable.c` is the same text in one file.

### IndexString

`index_string.c` is "adapted from original [kvstore.c]": `put` is recursive and two keys
that share a slice go down together in `create_pair`. The indices are a sequence, the
root first, and a link is a place in it, for `put` changes an index that others have a link
to. A put is one step: `lastCall` is where its calls of itself end, `depth` how many calls
`create_pair` makes of itself, and the state after it is given by these two. The trie runs
beside `KVStore` and gets a put when `KV_Put` has completed it. The file has no
lookup that works, so `IndexHoldsLastPuts` reads what a put of the same string would
write over. The root is an index that the client has made with `Iempty` of `index_int.c`:
`Sempty` allocates room for a pointer and sets no root. Its cursor functions are unfinished and not modelled: `push_cursor` never sets a
capacity, `Smake_cursor` throws its cursor away, `BN_CompareSuffix` and most of
the `S` functions have no body, and `Imake_cursor` of `index_int.c` gives NULL for
an absent key, so that the two files do not work together.

### QueryPlans

A plan names its relations with their rows, the indices to build, and the
iterators, a tree of scans and joins; `db_testing.c` has such plans in C. The
relation library is taken by its contract, through `OrderedRelation`, which the
relation's runs show it implements. An index is a place in `mem.heap`, a queue a
place in `mem.fifo`: both are shared by whoever holds the pointer, and that is what
can go wrong. `env` is an iterator's environment, the position of a scan or the
queue and the outer tuple of a join.

The actions are the calls of a client: `index_data` and `index_scan` once for each
relation and index, then `init_iterator`, `get_next` and `close_iterator` on any
root in any order, or `materialize`, which opens, drains and closes it. `get_next` of a join calls its outer
iterator's, and so on down, in one step, for the program is sequential.

### MemMgr

`mem` is the memory the operating system may give out, by words; `mapped` the
pages the process has; `bin` the free lists; `live` the client's blocks with the
size it asked for. `write` is the client writing all it may into a block, which
is how a block that is too short would show. A call is one step but for
`try_pre_fill`, which maps a big block in each turn and may be stopped by mmap
at any. `LargeLength` wraps around as a `size_t` does.

`MemMgrAssumption` takes `ALIGN` to be 2, as `malloc.h` has it: `size2bin` rounds by
`WORD * (ALIGN - 1) - 1` and is right for no other. It takes the heap to be
smaller than the values of a `size_t`, as it is for every process.

## 3. What is checked

| Run | Bounds | Shows |
|---|---|---|
| `relation_deep` | FANOUT 2, keys 1..7, one record, one cursor; 23 434 states | every sequence of calls: the tree is an ordered tree of equal depth with the flags and the count right (`SearchTree`), at least half full (`NodeOccupancy`, the function `ASSERT_NODE_INVARIANT` that the source defines and never calls), the cursor is a path (`CursorPath`), answers and moves are as documented, deletion frees each thing once, and all of it implements `OrderedRelation` |
| `relation_copies` | FANOUT 2, one record; one cursor and keys 1..7, or two cursors and keys 1..5; 66 086 states | the verified copy and the linked one agree (`CopiesAgree`), also with a tree that splits under the other cursor; the verified one implements `OrderedRelation`, and walks backwards rightly (`PreviousIsAdjacent`), where the linked one does not |
| `relation_previous` | FANOUT 2, keys 1..6 | finding: section 5 |
| `bst_conc` | 2 threads, 3 calls each, 3 keys, 2 values, 7 cells; 1 446 547 states | memory safety, one tree (`OneTree`), lock discipline, no deadlock, linearizability (`AtomicMap` is implemented), every call ends and all memory is given back (`EverythingFreed`), and the tree is the one that the coarse-lock programs build (`SameTree`) |
| `bst_nonblocking` | 2 threads, 2 calls each, 3 keys, 2 values, 4 nodes; 357 477 states | memory safety, nothing leaked by a retry (`NoLeak`), no node lost (`StaysLinked`), every call atomic and ending, all memory given back |
| `helping` | 2 threads; 3 keys, and a fourth that is added or in the tree of four: two calls each, or six of one thread, or one delete beside two finds, an add or find, or another delete; 40 workloads; 626 378 states | whoever finishes an operation, one search tree (`SearchTree`); no add lost (`AddsKept`); no false "found" (`FoundIsTrue`); no crash; every call ends |
| `helping_remove` | two threads that delete one key | finding: section 5 |
| `kvstore` | slices of two bytes out of two, 5 keys of up to three slices, 2 values; 186 697 states | `KV_Get` returns what was last put, but for the keys that case 0.0.0 has mixed up; `numKeys` counts; the layers form a trie without empty layers; every call ends; the trie of `index_string.c` has the last value of every key, and nothing for another string of up to five bytes (`IndexHoldsLastPuts`) |
| `kvstore_mixed` | the same | finding: section 5 |
| `queries` | 2 buckets; plans with one join, two joins, two plans on one index, an index on two integers; all relations of two to three rows over two values; each plan run up to twice; 41 896 states | an index holds the queue of each key's tuples (`IndexMapsProjections`); a join makes up nothing and, with the index to itself, misses nothing (`JoinAnswers`) |
| `query_joins` | one join, once | finding: section 5 |
| `memmgr` | words of 2 bytes, two bins, big blocks of two pages, five pages to give out, at most three blocks at once; 295 342 states | blocks do not overlap and are large enough (`BlocksApart`), the free lists hold every free block once (`FreeListsHold`), `try_pre_fill` says what it did and its sum never wraps (`PreFillCounts`) |

Why the bounds are enough. With FANOUT 2 a leaf splits on its third key and an
intern node on its third separator, so that seven keys reach depth two and
splits that climb two levels. All functions of a node compare keys only. In the
run of the copies five keys reach depth two as well, with a second cursor that is
overtaken and sent back. For the walk backwards five are too few: the only tree of
depth two has leaves of 1, 1, 1 and 2 records, where a descent by first pointers
still ends at the right key. With six a leaf before the last subtree may have two
records, and the mistake of finding 1 put into the copy (`moveToLast_ToFirst`) is
seen; with one cursor the run has seven. In the tree of cells three keys are enough for a node with two non-empty subtrees
and for a rotation that is followed by another, and seven cells are what three
keys take, so that malloc does not fail. Three calls a thread allow two inserts
that build a tree and a delete against anything the other thread does. In the
lock-free tree two threads with two inserts each meet at an empty pointer with a
tree above it, fail, and fail again for the stale `*ref`; three calls each (4.6
million states) showed nothing more, and four nodes are two linked and two about
to be. More threads add nothing to what a pair can do to each other through one
lock; the theorems hold for any number all the same. In the tree with helping, two
calls each let a helper hold a record while its owner has finished and begun
again; six calls of one thread build a node with two children, delete it by
relocation and go on in what is left. Three keys added in any order make every tree
of three nodes; the fourth is for a replacement that is not the right child itself,
or a key to be added. Every action is taken in one of the workloads. What two
threads do together is less than that: finds are beside every delete that relocates
nothing, but beside no relocation, which goes wrong with them; a relocation is
helped by another delete, in the trees of 2, 1, 3 and of 2, 1, 4, 3; three threads
never meet once one of them deletes.

The keys of the store are chosen so that every case of `KV_Put` and
`KV_Get` happens, in the first layer and below: keys that are prefixes of one
another, that part in the second or the third slice, and that differ in padding
only. Three slices take the loop through each transition between its cases; with
seven keys the same properties hold (3 139 425 states).

The source has 10 buckets in a hash table; with two, keys of the plans
share a bucket. Three inner rows over two values make queues of none, one, two and
three tuples. The requests to malloc are of either bin, one just above the
largest bin, and one whose length wraps around; neither bin's pieces fill a big
block exactly, and the heap is used up.
`INT_MAX` is 4 so that the check against it is met.

The runs of the sequential programs and of `helping` do not check for deadlock:
when the cursors are freed and the relation is deleted, when every plan has run,
when the workload is done, the client is done. The other concurrent ones do; for
`helping`, `EveryCallEnds` says more.

Linearization points: insert takes effect when it links the new node or
overwrites the value, lookup when it reads a value or an empty cell, delete when
it unlinks the node or finds an empty cell; in the refinement these are the
steps to `unlock`. In the lock-free tree insert takes effect in its successful
compare-and-swap or its store, lookup in its last load.

Fairness: weak for each thread's next step, invocations included, and for
`main` (in `bst_conc` of the steps in which the coarse tree goes along, which all
of them can). A thread that is running is scheduled again, and a mutex that
stays free is given to one that waits. Weak fairness is enough here because
calls are bounded by `MaxOps`: nobody can take a lock ever again and starve a
waiter. For unbounded calls the code gives no such guarantee, and none is
stated. In the lock-free trees only the scheduling of each thread is assumed.
The store's fairness is that a call that has begun goes on; nobody has to call.

## 4. What is proved

`BstConcProofs`, for any sets of threads, keys, values and addresses, any number
of calls, and any choice by malloc, from `BstAssumption` only (keys are
integers, Root is a cell, NULL is none of the others, malloc picks from what is
free):

- `TypeCorrect`: `Spec => []TypeOK`.
- `MemorySafety`: `Spec => []NoUseAfterFree`. No thread touches a freed cell or
  node, nor waits for the lock of one.
- `LockDiscipline`: `Spec => []LocksMatchSteps`. A thread holds exactly the
  locks its step calls for.
- `WholeTree`: `Spec => []OneTree`. While the threads run, every cell and every
  node that is allocated is in the one tree, and in one place of it.

None of these is inductive. The invariant `Inv` adds the local shape of the tree
(`Tree`: every pointer leads to allocated memory, no cell has two parents, no
two cells share a node) and where each thread is (`Place`: the child a thread
waits for is a child of the node in the cell it holds). The key step is `Drop`,
which frees the emptied right cell and the left one: a thread waiting for either
would hold the lock of the same parent cell that the deleting thread holds, and
a thread inside would hold the freed cell's own lock. `Bystander` and `Apart`
state this once for all actions: a step of one thread leaves alone all that the
others' places depend on. Each action then has a lemma that it preserves `Inv`,
with one step for each of the invariant's parts. `InitInv`, `InvSafe` and
`Invariance` put it together.

`OneTree` counts nothing: every node hangs from a cell, every cell but Root is a
child of a node, and in every nonempty set of nodes there is one that hangs from
no other of the set (`Rooted`). So there are no cycles, and what is allocated can
be reached. Only an insert, a rotation and `Drop` change what hangs from what; for
each of them the node of a given set that hangs from no other is found from the
one that the set, with one node exchanged, had before.

`BstConcLinearProofs`, over that invariant and from the same assumption:

- `SearchInvariance`: `Spec => [](Inv /\ SearchInv)`.
- `Linearizability`: `Spec => Linearizable`, that is, `BstConc` implements
  `AtomicMap`, deletes and their rotations included.

What has to be known is that a thread that finds an empty cell has looked in the
only place where its key could be. `SearchInv` says so without recursion. Each
cell has bounds `lo` and `hi`, the keys of its nearest ancestors on either side,
which halve at each node (`Bounded`). No key of the tree lies within the bounds
of an empty cell and no two empty cells admit the same key (`Gaps`). The key of
a call lies within the bounds of the cell its thread is at or waits for
(`OnTheWay`). The bounds are a recursive function of the tree, so the invariant
only says that there are some, and each lemma gives the new ones: `AddNode`
gives two to the cells below the new node; `TurnLeft` changes those of one cell,
whose lock the deleting thread holds, so that no search is in it (`Apart`); `Drop`
takes a node out and lets the bounds below give way to the `hi` of the empty
right cell. That last step is why `Gaps` has a clause on the upper bounds of
empty cells. `Purpose` says that the node `pushdown_left` is about to take out
still has the key of the call. For the refinement, `DistinctKeys` makes the nodes
a function, and each action has a lemma that names the step of `AtomicMap` it is.

`BstNonblockingProofs`, in the same generality, from `NonblockingAssumption`:

- `TypeCorrect`, `NothingLeaks`: `Spec => []TypeOK`, `Spec => []NoLeak`.
- `LinksStay`: `Spec => StaysLinked`.
- `Linearizability`: `Spec => Linearizable`, that is, `BstNonblocking`
  implements `AtomicMap`.

The argument rests on `range`. A node that is linked halves the range of its
pointer (`Shape`). The ranges of empty pointers are disjoint and hold no key of
the tree (`Ranges`). The key of a call is in the range of the pointer its thread
looks at (`Place`), and stays there because the range of a pointer never changes
once it has one. So a lookup that finds an empty pointer knows that its key is
absent from the whole tree, and an insert that links there makes no key occur
twice. The node in `*ref` lies above the pointer of the next attempt, or is what
that pointer holds; its key is therefore not in the pointer's range, while the
key of a node that is linked there would be: the two differ, and a
compare-and-swap succeeds on an empty pointer only (`ExpectsNull`). For the
refinement, `TreeIsMap` turns the set of nodes into a function, and each step has
a lemma that names the step of `AtomicMap` it is, or that it is none.

The same module, over that invariant:

- `FreeInvariance` and `MemorySafety`: `Spec => []NoUseAfterFree`. While the
  threads run nobody holds a node that is not linked, and `treebox_free` touches
  no node that it has freed and frees none twice.

While threads run, what they hold is linked (`Held`), and no node hangs from two
pointers (`OneParent`). For `treebox_free` the list `work` is what is left of its
recursion. A node is `Unvisited` if it is allocated and no pending "free" names
it. A pointer that is to be visited is so once, before the node it is in is freed,
and leads to an unvisited node (`Visits`); below an unvisited node there are only
unvisited ones (`Below`); a node to be freed is there and is named once (`Frees`).
A visit turns one unvisited node into a pending "free" with its two pointers
before it, and by `OneParent` no other entry can lead to that node again.

`BstHelpingProofs`, for any number of threads that add and look up any keys
(`NoDeletes`: with deletes they do not hold, section 5), from
`HelpingAssumption`:

- `Invariance`, `StaysSearchTree`, `AddsStay`, `FoundStaysTrue`, `NeverCrashes`:
  `[]AddsKept`, and `[](NoDeletes => P)` for `SearchTree`, `FoundIsTrue` and `NoCrash`.

There is a place in the tree, a range of keys, for each node (`reg`), of which the
invariant says only that it exists, and `On(n, k)` says that every walk to `k` goes
through `n`. Without deletes operations and links only grow: a link that holds a
node keeps it, and an operation that is at a node has its link swung already or
the link is still what the operation expects (`Published`). A helper that comes
late therefore finds the link swung and changes nothing. A compare-and-swap that
puts an operation where `find` saw none finds that the links are those `find`
read (`Free`), for nothing has been published at the node since: what it adds
hangs where `find` ended, and where all walks to its key end. Once threads
delete, `NoCrash` and `FoundIsTrue` are false (section 5), and the argument has no
counterpart. `FoundStaysTrue` needs no `late`: nothing is deleted that could excuse a
search.

`KVStoreProofs`, for any keys, values, bytes and slice length, from `KVAssumption`:

- `TrieInvariance`, `TypesStay`, `LayersStayTrie`, `KeysAreCounted`:
  `[]TypeOK`, `[]LayersFormTrie`, `[]CountsKeys`.
- `GetIsRight`: `[]GetReturnsLastPut`, that is, `KV_Get` returns what was put last,
  for every key that case 0.0.0 has not mixed up (finding 2).

Each layer has a level and a region, the slices that lead to it, both existentially
quantified. The regions of one level are disjoint, and a key in the regions of two
levels is led on by a link in the upper one; so a key has a value in one layer
at most, and a put that writes it there makes the `KV_Get`s of all other keys
return what they did. While `KV_Put` carries a second key, that key's value is the
one it carries. The counter is early by one after case 1.0, until the next turn
puts the value again (`Early`).

- `IndexIsTheMap`: `BothSpec => []IndexHoldsLastPuts`, for strings of any length, as `Longest`
  is any constant.

The indices of `index_string.c` have levels and regions of the same kind. `Stores` says that the
values they have for the keys of their regions are the client's map, none missing
(`Complete`) and none besides (`Sound`), and that every suffix is what is left of some key
(`Owned`), which is what `put` takes for the second key. The calls of `put` are the links
followed from the root (`LastCallIs`), one level each, and a key is shorter than as many
slices as it has bytes, so they end. The keys of a pair differ in what is left of them, hence part
at some slice (`DepthIs`), and what `create_pair` makes hangs layer by layer from the
suffix's border node (`GrownFirst`, `GrownNext`, `GrownLast`), where both keys come to the last
layer and are told apart in it (`BothIn`). `KV_Put`'s own mistake (finding 2) plays no
part in this: the second value goes to the second key.

`MemMgrProofs`, for any word, bins, pages, big blocks and heap, any requests
and any choice by mmap, from `MemMgrAssumption`:

- `HeapInvariance`, `BlocksNeverOverlap`, `FreeListsStay`, `PreFillIsRight`:
  `[]BlocksApart`, `[]FreeListsHold`, `[]PreFillCounts`; the last with the guard
  against a sum beyond INT_MAX.

The invariant says that there is a set of blocks, each with bytes of its own
that its size word is among, and that every block of the client's and of the lists
is in it. New pages add blocks to it and munmap takes one away; malloc and free
of a small block leave it as it is. So what the client writes, and what free
writes into the link of a block, reaches no size word and no other link. A list is
numbered (`at`, `len`, again existentially quantified), so that taking its first
block or putting one in front shifts the numbers. `BinSizes` and
`BinOfRequest` are the arithmetic: `size2bin` and `bin2size` fit together for every
`WORD`. The walks that `FreeListsHold` speaks of are recursive functions, and a list
has no more blocks than fit into the heap.

`RelationProofs`, for any FANOUT of two or more, any keys, records, cursors and depth,
from `FanoutAssumption` and `RelationAssumption` (keys are natural numbers, and
NULL is no cursor), as long as the client keeps to MAX_TREE_DEPTH levels:

- `RelationInvariance`, `RelationTypes`, `StaysOrdered`, `StaysHalfFull`, `PathsStay`:
  `[]Inv`, `[]TypeOK`, `[]SearchTree`, `[]NodeOccupancy`, `[]CursorPath`.
- `SplitDivides`: what `splitnode` makes of a full node.

`SearchTree` and `CursorPath` need each other: a put goes where the cursor's path
leads, and a path means something in a tree that is whole. The invariant
(`RelInv`, and `IsPath` for each cursor that is not behind) says that there are a
level and a region of keys for each node, existentially quantified, such that the
root has all keys, a child's region is the piece of its parent's between the
separators beside it, and the regions of one level are disjoint (`Whole`). From
that a climb of the cursor that stops at the first level sure to hold the key is
right (`GoToKey`), and so are the moves to the next and the previous leaf.

Between the splits of one put no tree is whole: a node has been split and its new
half hangs nowhere. `Pending` describes that state, with the region of the two halves
joined, and `Climbing` is kept from one split to the next (`FirstSplit`, `NextSplit`,
`Climbed`). It ends when the half is inserted in a parent that has room
(`PutIntern`) or under a new root (`PutRoot`). `SplitIs` and the lemmas on `splitnode`
say that the two halves have the entries of the full node and the new one between
them, in order, with the separator in the parent, for every FANOUT. The number of
records is the size of the set of the leaves' keys, to which a put adds one key
whether it splits or not (`AfterPut`, `Counted`).

`RelationContractProofs`, over that invariant and from `PositionAssumption` as well (the
three places that are no key, and what was never stored, are told from keys and entries):

- `ImplementsContract`: `Spec => Implements`, that is, `RelationMem` implements
  `OrderedRelation`, for any number of cursors and any sequence of calls.
- `AnswersStay`, `PreviousStaysNear`: `[]AnswersAsDocumented`, `[]PreviousIsAdjacentNearby`.

What a cursor stands for is the set of the keys ahead of it (`AheadOf`): those of its own
leaf from its index on, and all keys of the tree above that leaf's region. Its position in
the contract is the least of them (`PositionIs`), so that the two representations of one
position, past the last entry of a leaf and before the first of the next, have the same
keys ahead. A step inside a leaf takes one key from the set (`NextInside`). A step from a
leaf to the next takes none, which needs that the two leaves' regions meet with no key
between them (`Beside`): the climb stops at a pointer with a right neighbour, the old leaf
is reached from the one by last pointers and the new leaf from the other by first ones, so
the region of the one ends where the other's begins (`UpAlong`, `DownAlong`,
`PiecesMeet`). Backwards the second half of that is missing, for `moveToLast` goes down by
first pointers after one step (finding 1): `PrevAcross` has the weaker fact that the new
leaf lies below, and the stronger one where there is no level to go wrong on. A put adds its
own key to the keys of the leaves and no other, whatever it splits (`AfterPut`), and sends
its cursor to what is ahead of that key (`AfterPutIs`). Each call has a lemma that names
the step of `OrderedRelation` it is, or that it is none.

- `DeletedOnce`: `[]DeleteFreesOnce`, every record once in key order and every node but the
  root once.

The recursion of `handleDeleteBtree` is a function of the level (`below`), whose value at
each level exists because it is built from the one beneath (`NodesToExist`,
`RecordsToExist`). By induction on the level, the nodes listed for n are those deeper than n
with a key of theirs in n's region (`Under`, `NodesListed`), and the records are those of the
leaf keys in n's region, rising (`RecordsOrdered`). The children's regions lie in order and
share out their parent's (`KidsAre`), so the lists of two children have nothing in common and
one child's keys are all below the next one's. A rising list of keys is the only one there is
(`OrderRanks`), which gives the order that the property states by counting. That the client
calls nothing that changes a deleted relation is `FreedAsItStands`.

Only model-checked: the verified copy of the relation library; `SameTree` and
the properties of the query plans, whose operators are recursive; the tree with helping
once threads delete; liveness, which is out of the prover's reach.

## 5. Where the code and its documentation part

1. `RL_MoveToPrevious` skips records. `moveToLast` (`relation_mem.c:1165`) goes
   down to the last child once, and from there with `moveToFirst`. From the
   first record of a subtree the move ends before the first leaf of the
   neighbour's last subtree. It shows in trees of depth two or more, where the
   header says "Go to the previous record of cursor's relation"
   (`relation.h:86`). Run `relation_previous`. What does hold is
   `PreviousIsAdjacentNearby`, and that the move always goes to an earlier key
   or stays (`OrderedRelation`). The verified copy does not have this mistake.
2. `KV_Put` loses a key. When the suffix of the key that is there and the rest of
   the new key have the same next slice, and one of them ends in it, the loop
   calls `BN_SetValue(borderNode, key, sndValue)` (`kvstore.c:210`) where the
   second key, `sndKey`, is meant. The older key is gone and the new one has its
   value. With the real slice length: put a key of 16 bytes and then one of 17
   that begins with it. `kvstore.h:71` says "Puts a copy of the key and its value
   into the relation.", and `kvstore.h:78` that `KV_Get` "Returns the value of the
   key, if the key is in the kvStore". Run `kvstore_mixed`.
3. Two threads that delete the same key of the tree with helping crash. `delete`
   reads the link of the node it has found again (`bst_conc_nblocking4.c:491`) and
   goes on through what it holds, which may be `SET_NULL(NULL)` by then. The remove
   threads of `main` all delete the keys 10 to 1, and say "Deletion of Key {%d}
   successfully done" (`bst_conc_nblocking4.c:619`). Run `helping_remove`. Two deletes
   of different keys crash in the same way where one node hangs from the other's link (2
   and 3 of the chain 1, 2, 3, say), and so does a delete beside an add below the
   deleted node.
4. A join misses pairs. Its `get_next` takes the inner tuples out of the queue in
   the index itself (`db_operations_light.c:241`), so that a second outer row
   with the same value finds none, and neither does a second run, nor another plan on the
   same index. The comment at line 201 speaks of lists "whose collection is the
   set of tuples in the inner relation whose projection on" the join attributes
   gives the key. Run `query_joins`; what holds is `JoinAnswers`.

All four were reproduced with the compiled programs, the first at FANOUT 15.

Seen while modelling, with no run of their own; the first three were reproduced too, the
two of the tree by holding a thread at the lines named:

- A delete in the tree with helping may leave its key there. `find` leaves its loop
  after it has helped (`bst_conc_nblocking4.c:364`), with the result of the comparison
  before, and the caller takes that for the answer. `add` notices, for its
  compare-and-swap fails; `delete` returns as if the key were absent, and the remove
  threads print line 619. TLC shows it with `BstHelpingRemove.cfg` given
  `Workloads <- DeleteTwice` and `INVARIANT FoundIsTrue`.
- A relocated key may stay in two places. A helper whose compare-and-swap at the
  destination fails reads the record's state and then tries to make it FAILED
  (`bst_conc_nblocking4.c:253-254`). If the relocation becomes SUCCESSFUL between the
  two, the helper still goes by ONGOING, and sets the node free that should be marked:
  its key is now above it as well. A delete of that key finds it again in its second
  search, which is given `v` and not `&v`, and crashes. One lookup beside one delete
  of a node with two children is enough for the two places. TLC shows the crash with
  `BstHelpingRemove.cfg` given `Workloads <- RelocateAndDelete`.
- `KV_Put` cuts the client's own key short: it advances `key->str` and `key->len` as
  it goes down (`kvstore.c:228`, `:315`, `:325`), although `kvstore.h:37` calls a key
  immutable ("Create an immutable KVKey") and `kvstoretests.c` uses keys again after
  they have been put. A `KV_Get` with the key of the put before may return NULL, and
  `KV_FreeKey` frees an address inside the string. In the model the client makes a new
  key for each call.
- A cursor does not survive a put through another cursor ("TODO notify cursors on
  update", `relation_mem.c:1214`): after a split of the root, `RL_MoveToKey` on it
  misses keys that are there. The model's client goes to the first record first.
- `RL_MoveToPreviousNotFirst` returns False also when it has just moved from the
  second record to the first (`verif/btrees/relation_mem.c:449`, against its
  `relation.h:97`). `relation.h` calls a new cursor invalid, but `RL_NewCursor`
  puts it at the first record. `RL_DeleteRelation` leaves the root and the
  `Relation` allocated; in the verified copy it frees no node.
- The empty key, which `KV_NewKey` provides for, stops `KV_Put` at an assertion in
  `bordernode.c:83`, and is no key of the model.
- `Sempty` (`index_string.c:341-344`) allocates the size of a pointer for an index and sets no
  root, so that a put into it reads what was never written.
- Two deletes of one key with two children can leave a tree that is no search tree;
  a lookup that has helped may answer "not found" for a key that is there; `helpMarked`
  puts nothing in the place of a node that has a right child only: section 2, BstHelping.
- `malloc_large` adds the header to the size without a look at wrap-around; the
  block it then returns is too short. `BlocksApart` is about the other requests.
  `memmgr/test.c:96-99` frees a block twice, which makes the free list a loop;
  the model's client does not.
- `get_pair` of an iterator that is past its end returns a pair it has not set;
  `get_offset` exits when one name has two domains, which `SameDomain` excludes.

## 6. Not modelled

- Of the relation library: `RL_DeleteRecord` and the 600 lines of deletion and
  merging beneath it, which are commented out in both copies; printing.
- `bst_conc_nblocking2.c`, `permuter.c`, `db_index_join.c` and `db_seq_scan.c` do
  not compile. `fo_index.c` is `tuple_schema.c` again with stubs in it; the cursor
  operations of string lists and hash tables are called by no plan; the cursors of
  the string index are unfinished.
- `linked_list.c` and `stringbag.c` are sequential and used by no program but a
  test client; the condition variables, atomic integers and exchange by none.
- Copies of modelled code (`verif/indices/client/relation_mem.c`, the same bytes as
  the verified copy; `verifiable.c`; the tuple-key directories), the wrapper
  `verif/indices/client/db_client.c`, the tests and benchmarks, the Coq files and
  the papers. With the commented-out code these are most of the lines that no
  definition stands for.

## 7. Plan

Done: every component that runs and keeps state, as above. What would come next:

1. `RelationVerified` without recursive operators, and `CopiesAgree` as a theorem: the
   copy then implements `OrderedRelation` because `RelationMem` does.
2. `BstHelping`: the reuse of freed operation records, and a statement of which
   deletes may run together; then `AddsKept` as a theorem with deletes.
