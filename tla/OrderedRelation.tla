--------------------------- MODULE OrderedRelation ---------------------------
(***************************************************************************)
(* What relation.h promises: a map from keys to records, and cursors that  *)
(* stand at a key of it, or at End, past the biggest one.  A cursor that   *)
(* another cursor's put has overtaken is Lost until RL_MoveToFirst.        *)
(*                                                                         *)
(* MoveToPrevious is stated as weakly as the code needs: some earlier key, *)
(* not the one just before.                                                *)
(***************************************************************************)
EXTENDS Integers

CONSTANTS Keys, Records, Cursors, End, Lost, Closed

VARIABLES map,   \* the records by key
          pos,   \* where each cursor stands
          gone   \* has RL_DeleteRelation been called?

vars == <<map, pos, gone>>

TypeOK ==
    /\ DOMAIN map \subseteq Keys
    /\ \A k \in DOMAIN map : map[k] \in Records
    /\ pos \in [Cursors -> Keys \cup {End, Lost, Closed}]
    /\ gone \in BOOLEAN

Least(S) == IF S = {} THEN End ELSE CHOOSE k \in S : \A j \in S : k <= j

After(m, p)  == Least(IF p = End THEN {} ELSE {k \in DOMAIN m : k > p})
Before(m, p) == {k \in DOMAIN m : p = End \/ k < p}

Placed(c) == ~gone /\ pos[c] \notin {Lost, Closed}

Init == map = <<>> /\ pos = [c \in Cursors |-> Closed] /\ gone = FALSE

Move(c, p) == pos' = [pos EXCEPT ![c] = p] /\ UNCHANGED <<map, gone>>

New(c)           == ~gone /\ pos[c] = Closed /\ Move(c, Least(DOMAIN map))
Free(c)          == pos[c] # Closed /\ Move(c, Closed)
MoveToFirst(c)   == ~gone /\ pos[c] # Closed /\ Move(c, Least(DOMAIN map))
MoveToKey(c, k)  == Placed(c) /\ Move(c, Least({j \in DOMAIN map : j >= k}))
MoveToNext(c)    == Placed(c) /\ Move(c, After(map, pos[c]))

MoveToPrevious(c) ==
    /\ Placed(c)
    /\ \E p \in Before(map, pos[c]) : Move(c, p)

Put(c, k, r) ==
    /\ Placed(c)
    /\ map' = [j \in DOMAIN map \cup {k} |-> IF j = k THEN r ELSE map[j]]
    /\ pos' = [d \in Cursors |-> CASE d = c           -> After(map', k)
                                   [] pos[d] = Closed -> Closed
                                   [] OTHER           -> Lost]
    /\ UNCHANGED gone

Delete == ~gone /\ gone' = TRUE /\ UNCHANGED <<map, pos>>

Next ==
    \/ \E c \in Cursors :
          \/ New(c) \/ Free(c) \/ MoveToFirst(c) \/ MoveToNext(c) \/ MoveToPrevious(c)
          \/ \E k \in Keys : MoveToKey(c, k) \/ \E r \in Records : Put(c, k, r)
    \/ Delete

Spec == Init /\ [][Next]_vars

==============================================================================
