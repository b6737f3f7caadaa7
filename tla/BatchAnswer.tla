----------------------------- MODULE BatchAnswer -----------------------------
(* What a caller of ResolveComponents relies on: the elements of a batch are  *)
(* answered once each, in any order, in place; an answer is final, nothing    *)
(* else is touched, and the batch is handed back when, and only when, every   *)
(* element has its answer; after that nobody writes to it.                    *)
VARIABLES batch,    \* the elements
          answered, \* the indices of those that have their answer
          returned  \* the caller has the batch back

Init ==
    /\ answered = {}
    /\ returned = (DOMAIN batch = {})

Answer(k) ==
    /\ ~returned
    /\ k \in DOMAIN batch \ answered
    /\ answered' = answered \union {k}
    /\ DOMAIN batch' = DOMAIN batch
    /\ \A j \in DOMAIN batch \ {k} : batch'[j] = batch[j]
    /\ UNCHANGED returned

Return ==
    /\ ~returned /\ answered = DOMAIN batch
    /\ returned' = TRUE
    /\ UNCHANGED <<batch, answered>>

Next == (\E k \in DOMAIN batch : Answer(k)) \/ Return

Spec == Init /\ [][Next]_<<batch, answered, returned>>
=============================================================================
