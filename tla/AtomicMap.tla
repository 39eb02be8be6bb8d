------------------------------ MODULE AtomicMap ------------------------------
(***************************************************************************)
(* What the concurrent search trees promise: threads call insert, lookup   *)
(* and delete on one map, each call takes effect in a single step between  *)
(* its invocation and its return, and the map is destroyed at the end.     *)
(***************************************************************************)
CONSTANTS Threads, Keys, Values, NULL

VARIABLES map,    \* the values by key
          call,   \* the call each thread is in, NULL outside one
          ret,    \* what the call will return, NULL for no value
          stage   \* "idle", "called" or "done": has the call taken effect?

vars == <<map, call, ret, stage>>

Calls == [op : {"insert"}, key : Keys, value : Values]
            \cup [op : {"lookup", "delete"}, key : Keys]

NoKeys == [k \in {} |-> NULL]

Init ==
    /\ map = NoKeys
    /\ call = [th \in Threads |-> NULL]
    /\ ret = [th \in Threads |-> NULL]
    /\ stage = [th \in Threads |-> "idle"]

Invoke(th) ==
    /\ stage[th] = "idle"
    /\ \E c \in Calls : call' = [call EXCEPT ![th] = c]
    /\ stage' = [stage EXCEPT ![th] = "called"]
    /\ ret' = [ret EXCEPT ![th] = NULL]
    /\ UNCHANGED map

Effect(th) ==
    /\ stage[th] = "called"
    /\ LET c == call[th]
       IN  /\ map' = CASE c.op = "insert" -> [k \in DOMAIN map \cup {c.key} |->
                                                      IF k = c.key THEN c.value ELSE map[k]]
                       [] c.op = "delete" -> [k \in DOMAIN map \ {c.key} |-> map[k]]
                       [] c.op = "lookup" -> map
           /\ ret' = [ret EXCEPT ![th] =
                         IF c.op = "lookup" /\ c.key \in DOMAIN map THEN map[c.key] ELSE NULL]
    /\ stage' = [stage EXCEPT ![th] = "done"]
    /\ UNCHANGED call

Return(th) ==
    /\ stage[th] = "done"
    /\ stage' = [stage EXCEPT ![th] = "idle"]
    /\ call' = [call EXCEPT ![th] = NULL]
    /\ ret' = [ret EXCEPT ![th] = NULL]
    /\ UNCHANGED map

Destroy ==
    /\ \A th \in Threads : stage[th] = "idle"
    /\ map' = NoKeys
    /\ UNCHANGED <<call, ret, stage>>

Next == (\E th \in Threads : Invoke(th) \/ Effect(th) \/ Return(th)) \/ Destroy

Spec == Init /\ [][Next]_vars

==============================================================================
