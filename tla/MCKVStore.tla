----------------------------- MODULE MCKVStore -----------------------------
(***************************************************************************)
(* What is checked of KVStore, and of IndexString, whose trie gets every   *)
(* key and value when KV_Put has put them.                                 *)
(***************************************************************************)
EXTENDS KVStore

CONSTANT Longest   \* keys and all strings of up to so many bytes are looked up in the trie

VARIABLE indices

Index == INSTANCE IndexString WITH keyslice_length <- KEY_SLICE_LENGTH

PutInBoth == IF op = "put" /\ op' = "idle" THEN Index!Put(total, value) ELSE UNCHANGED indices

BothInit == Init /\ Index!Init

BothNext == Next /\ PutInBoth

\* The program runs on; nobody has to call.
BothSpec ==
    /\ BothInit /\ [][BothNext]_<<vars, indices>>
    /\ WF_<<vars, indices>>(Turn /\ PutInBoth)

\* With slices of two bytes: keys that end in the first, second and third slice, that
\* are prefixes of one another, that share one slice or two, and that differ in a zero
\* at the end only.
SomeKeys == {<<1, 1>>, <<1, 1, 1>>, <<1, 1, 1, 1>>, <<1, 1, 1, 1, 1>>, <<1, 1, 1, 1, 1, 0>>}

-----------------------------------------------------------------------------

\* kvstore.h:69-78.  The same for all keys.
GetReturnsEveryLastPut == op = "got" => ret = Contents(total)

\* What is held for a string where the last call of put for it would set a value.
Held(c) ==
    LET bn == Index!bnode(c.index, c.key)
    IN  IF Index!EndsHere(c.key) THEN bn.prefixLinks[Len(c.key)]
        ELSE IF bn.keySuffix = Index!Rest(c.key) THEN bn.suffixLink ELSE NULL

LookedUp == Keys \cup UNION {[1 .. n -> Bytes] : n \in 1 .. Longest}
Calls == {<<str, Index!lastCall(str)>> : str \in LookedUp}

\* index_string.c:515-620.  The trie of index_string.c has the last value of every key and
\* none for another string, also where case 0.0.0 of kvstore.c, of which it is an
\* adaption, mixes two keys up.
IndexHoldsLastPuts == \A c \in Calls : Held(c[2]) = Contents(c[1])

\* kvstore.c:190, :268.  KV_Put and KV_Get return, although case 1.0 leaves it to another
\* turn to say that the put is completed.
CallsEnd == (op # "idle") ~> (op = "idle")

=============================================================================
