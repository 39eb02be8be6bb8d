------------------------------- MODULE MemMgr -------------------------------
(***************************************************************************)
(* The memory manager of memmgr/malloc.c: small blocks come from free      *)
(* lists, one for each bin of sizes, which are cut from big blocks of the  *)
(* operating system; large ones are mapped and unmapped one by one.        *)
(*                                                                         *)
(* Addresses and sizes are in bytes; a block is a word with its size and   *)
(* the data at p, whose first word links the free ones.  The manager is    *)
(* not meant for threads: a call is one action, but for try_pre_fill,      *)
(* which maps one big block after the other.  A call that returns NULL     *)
(* because mmap0 failed changes nothing.  The client frees what it has got *)
(* from malloc, once, and writes into it as much as it asked for.          *)
(***************************************************************************)
EXTENDS Integers, FiniteSets

CONSTANTS WORD,      \* bytes in a size_t
          ALIGN,     \* words to which the data is aligned
          BINS,      \* bins of small sizes (malloc.h: 50)
          BIGBLOCK,  \* bytes mapped at a time for small blocks
          SIZES,     \* values of a size_t: 2 ^ (8 * WORD)
          INT_MAX,
          PAGE,      \* bytes in a page, the unit of mmap
          HEAP,      \* bytes that mmap has to give out
          Requests,  \* what the client asks malloc for
          MaxLive,   \* blocks the client holds at once
          MaxReq     \* blocks it asks try_pre_fill for

NULL == 0
Junk == -1
Idle == [b |-> 0, req |-> 0, ful |-> 0, old |-> NULL]
WASTE == WORD * ALIGN - WORD

ASSUME MemMgrAssumption ==
    /\ ALIGN = 2                        \* malloc.h:15; size2bin is right for no other
    /\ {WORD, BINS, PAGE, MaxLive, INT_MAX} \subseteq Nat \ {0}
    /\ {BIGBLOCK, SIZES, HEAP, MaxReq} \subseteq Nat
    /\ PAGE % (WORD * ALIGN) = 0 /\ BIGBLOCK % PAGE = 0 /\ HEAP % PAGE = 0
    /\ WASTE + BINS * ALIGN * WORD <= BIGBLOCK
    /\ HEAP + WORD * ALIGN <= SIZES     \* no process has all the addresses of a size_t
    /\ Requests \subseteq 0 .. SIZES - 1

VARIABLES mem,     \* what each word holds
          bin,     \* the first free block of each bin
          mapped,  \* the pages the process has
          live,    \* the client's blocks: [p, n] with the size it asked for
          call     \* a try_pre_fill under way: its bin b, req, ful, and the list bin[b] had before

vars == <<mem, bin, mapped, live, call>>

\* The largest data in a block of bin b, and the bin for data of size s.
bin2size(b) == ((b + 1) * ALIGN - 1) * WORD
size2bin(s) == (s + (WORD * (ALIGN - 1) - 1)) \div (WORD * ALIGN)
MaxSmall    == bin2size(BINS - 1)

\* The blocks of data size s in a big block, and where they start.
Nblocks_NoWaste(s) == BIGBLOCK \div (s + WORD)
Nblocks(s) == (BIGBLOCK - WASTE) \div (s + WORD)
BlockAt(p, s, j) == p + WASTE + WORD + j * (s + WORD)

\* Cut the big block at p into blocks of size s, linked to the list tl.
list_from_block(m, s, p, tl) ==
    LET last   == Nblocks(s) - 1
        blocks == {BlockAt(p, s, j) : j \in 0 .. last}
    IN  [a \in DOMAIN m |->
            CASE a + WORD \in blocks -> s
              [] a \in blocks -> IF a = BlockAt(p, s, last) THEN tl ELSE a + s + WORD
              [] OTHER -> m[a]]

-----------------------------------------------------------------------------
(* mmap0 and munmap. *)

Pages == {a \in 0 .. HEAP - 1 : a % PAGE = 0}
Over(p, len) == {a \in Pages : p < a + PAGE /\ a < p + len}

\* Where mmap0 may put len bytes.  It fails if there is no such place, or if len is 0.
mmap0(len) == {p \in Pages \ {NULL} : len > 0 /\ p + len <= HEAP /\ Over(p, len) \cap mapped = {}}

\* The length mapped for a large block wraps around like any size_t.
LargeLength(n) == (n + WASTE + WORD) % SIZES

-----------------------------------------------------------------------------

Init ==
    /\ mem = [a \in {w \in 0 .. HEAP - 1 : w % WORD = 0} |-> 0]
    /\ bin = [b \in 0 .. BINS - 1 |-> NULL]
    /\ mapped = {} /\ live = {} /\ call = Idle

Calling == call = Idle /\ Cardinality(live) < MaxLive

\* malloc_small with a block in the bin.
malloc_small_KeepsBlock(n) ==
    LET b == size2bin(n)
    IN  /\ Calling /\ n <= MaxSmall /\ bin[b] # NULL
        /\ live' = live \cup {[p |-> bin[b], n |-> n]}
        /\ UNCHANGED <<mem, bin, mapped, call>>
malloc_small(n) ==
    LET b == size2bin(n)
    IN  /\ Calling /\ n <= MaxSmall /\ bin[b] # NULL
        /\ live' = live \cup {[p |-> bin[b], n |-> n]}
        /\ bin' = [bin EXCEPT ![b] = mem[@]]
        /\ UNCHANGED <<mem, mapped, call>>

\* malloc_small, fill_bin: with none.
fill_bin(n) ==
    LET b == size2bin(n)
        s == bin2size(b)
    IN  /\ Calling /\ n <= MaxSmall /\ bin[b] = NULL
        /\ \E p \in mmap0(BIGBLOCK) :
              /\ mem' = list_from_block(mem, s, p, NULL)
              /\ mapped' = mapped \cup Over(p, BIGBLOCK)
              /\ live' = live \cup {[p |-> BlockAt(p, s, 0), n |-> n]}
              /\ bin' = [bin EXCEPT ![b] = mem'[BlockAt(p, s, 0)]]
        /\ UNCHANGED call

malloc_large(n) ==
    /\ Calling /\ n > MaxSmall
    /\ \E p \in mmap0(LargeLength(n)) :
          /\ mem' = [mem EXCEPT ![p + WASTE] = n]
          /\ mapped' = mapped \cup Over(p, LargeLength(n))
          /\ live' = live \cup {[p |-> p + WASTE + WORD, n |-> n]}
    /\ UNCHANGED <<bin, call>>

\* free tells by the block's own word whether it is small.
free_small(block) ==
    LET s == mem[block.p - WORD]
    IN  /\ call = Idle /\ block \in live /\ s <= MaxSmall
        /\ mem' = [mem EXCEPT ![block.p] = bin[size2bin(s)]]
        /\ bin' = [bin EXCEPT ![size2bin(s)] = block.p]
        /\ live' = live \ {block}
        /\ UNCHANGED <<mapped, call>>

\* munmap: the pages are gone, and come back with zeroes.
free_large(block) ==
    LET s    == mem[block.p - WORD]
        gone == Over(block.p - (WASTE + WORD), LargeLength(s))
    IN  /\ call = Idle /\ block \in live /\ s > MaxSmall
        /\ mapped' = mapped \ gone
        /\ mem' = [a \in DOMAIN mem |-> IF a - (a % PAGE) \in gone THEN 0 ELSE mem[a]]
        /\ live' = live \ {block}
        /\ UNCHANGED <<bin, call>>

\* The client writes into a block.
write(block) ==
    /\ call = Idle /\ block \in live /\ block.n < HEAP
    /\ mem' = [a \in DOMAIN mem |->
                  IF block.p < a + WORD /\ a < block.p + block.n THEN Junk ELSE mem[a]]
    /\ UNCHANGED <<bin, mapped, live, call>>

-----------------------------------------------------------------------------
(* Filling the lists in advance. *)

\* pre_fill with the big block at p.
addBlock_DropsList(b, p) ==
    /\ mem' = list_from_block(mem, bin2size(b), p, NULL)
    /\ bin' = [bin EXCEPT ![b] = BlockAt(p, bin2size(b), 0)]
    /\ mapped' = mapped \cup Over(p, BIGBLOCK)
addBlock(b, p) ==
    /\ mem' = list_from_block(mem, bin2size(b), p, bin[b])
    /\ bin' = [bin EXCEPT ![b] = BlockAt(p, bin2size(b), 0)]
    /\ mapped' = mapped \cup Over(p, BIGBLOCK)

\* The client gives the manager a big block of its own.
pre_fill(n) ==
    /\ call = Idle /\ n <= MaxSmall
    /\ \E p \in mmap0(BIGBLOCK) : addBlock(size2bin(n), p)
    /\ UNCHANGED <<live, call>>

try_pre_fill(n, req) ==
    /\ call = Idle /\ n <= MaxSmall
    /\ call' = [b |-> size2bin(n), req |-> req, ful |-> 0, old |-> bin[size2bin(n)]]
    /\ UNCHANGED <<mem, bin, mapped, live>>

Chunks == Nblocks(bin2size(call.b))

MoreChunks_NoGuard ==
    /\ call # Idle /\ call.ful < call.req
    /\ \E p \in mmap0(BIGBLOCK) : addBlock(call.b, p)
    /\ call' = [call EXCEPT !.ful = @ + Chunks]
    /\ UNCHANGED live
MoreChunks ==
    /\ call # Idle /\ call.ful < call.req /\ INT_MAX - call.ful >= Chunks
    /\ \E p \in mmap0(BIGBLOCK) : addBlock(call.b, p)
    /\ call' = [call EXCEPT !.ful = @ + Chunks]
    /\ UNCHANGED live

\* Enough, or one more would wrap, or mmap0 has failed, as it always may.
EndPreFill ==
    /\ call # Idle
    /\ call' = Idle
    /\ UNCHANGED <<mem, bin, mapped, live>>

Next ==
    \/ \E n \in Requests : malloc_small(n) \/ fill_bin(n) \/ malloc_large(n)
    \/ \E block \in live : free_small(block) \/ free_large(block) \/ write(block)
    \/ \E n \in Requests : pre_fill(n) \/ \E req \in 1 .. MaxReq : try_pre_fill(n, req)
    \/ MoreChunks \/ EndPreFill

Spec == Init /\ [][Next]_vars

-----------------------------------------------------------------------------
(* What MemMgrProofs proves for every heap. *)

\* The block that i links lead to from p, NULL past the end of the list.
Link(a) == IF a \in DOMAIN mem \ {NULL} THEN mem[a] ELSE NULL
Walk(p) == LET at[i \in Nat] == IF i = 0 THEN p ELSE Link(at[i - 1]) IN at

\* As many blocks as there can be in all.
MaxBlocks == HEAP \div (WORD * ALIGN)

FreeBlocks(b) == {Walk(bin[b])[i] : i \in 0 .. MaxBlocks} \ {NULL}

\* A request that malloc_large does not cut short.
Honest(n) == n + WASTE + WORD < SIZES

Blocks ==
    {[p |-> l.p, size |-> mem[l.p - WORD]] : l \in {k \in live : Honest(k.n)}}
    \cup UNION {{[p |-> p, size |-> bin2size(b)] : p \in FreeBlocks(b)} : b \in DOMAIN bin}

\* malloc.h:3-9.  The client's blocks and the free ones do not overlap, whatever is
\* written into the first; each is in memory the process has, from its size word on,
\* and the client's are aligned and at least as large as it asked.
BlocksApart ==
    /\ \A x, y \in Blocks :
          x # y => x.p + x.size <= y.p - WORD \/ y.p + y.size <= x.p - WORD
    /\ \A x \in Blocks : \A a \in (x.p - WORD) .. (x.p + x.size - 1) : a - (a % PAGE) \in mapped
    /\ \A l \in live : l.p % (ALIGN * WORD) = 0 /\ l.n <= mem[l.p - WORD]

\* malloc.c:22-26.  Each bin is "null or points to the first 'link field' of a list of
\* blocks", which ends, all with its size in their first word; and no block is in two
\* lists, or on one while the client has it.
FreeListsHold ==
    /\ \A b \in DOMAIN bin :
          /\ Walk(bin[b])[MaxBlocks] = NULL
          /\ \A p \in FreeBlocks(b) : p \in DOMAIN mem /\ mem[p - WORD] = bin2size(b)
    /\ \A b, c \in DOMAIN bin : b # c => FreeBlocks(b) \cap FreeBlocks(c) = {}
    /\ \A l \in live, b \in DOMAIN bin : l.p \notin FreeBlocks(b)

\* malloc.c:61-64.  The result of try_pre_fill "is how many chunks of size n have been
\* pre-allocated": the list is so many blocks, and then what it was before, wherever
\* the call stops; and it is an int, however much the client asks for.
PreFillCounts ==
    call # Idle =>
        LET at == Walk(bin[call.b])
        IN  /\ at[call.ful] = call.old /\ \A i \in 0 .. call.ful - 1 : at[i] # NULL
            /\ call.ful <= INT_MAX

=============================================================================
