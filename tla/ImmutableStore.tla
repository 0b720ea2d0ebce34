--------------------------- MODULE ImmutableStore ---------------------------
(***************************************************************************)
(* What the evidence envelope registry promises its producers: a durable   *)
(* write-once map.  An id is bound at most once and never rebound or       *)
(* removed, and an envelope is acknowledged only while it is the one bound *)
(* to its id.                                                              *)
(***************************************************************************)
CONSTANTS Ids,        \* the keys
          Values,     \* the values, records with an id field
          NoValue     \* marks an unbound id

VARIABLES bound,      \* the durable map
          receipts    \* the values acknowledged to their producers

Init ==
    /\ bound = [id \in Ids |-> NoValue]
    /\ receipts = {}

Bind(v) ==
    /\ bound[v.id] = NoValue
    /\ bound' = [bound EXCEPT ![v.id] = v]
    /\ UNCHANGED receipts

Acknowledge(v) ==
    /\ bound[v.id] = v
    /\ receipts' = receipts \cup {v}
    /\ UNCHANGED bound

Next == \E v \in Values : Bind(v) \/ Acknowledge(v)

Spec == Init /\ [][Next]_<<bound, receipts>>
=============================================================================
