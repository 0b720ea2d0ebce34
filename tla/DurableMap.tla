----------------------------- MODULE DurableMap -----------------------------
(***************************************************************************)
(* What a latest-record registry promises its writers: a durable map in    *)
(* which one write replaces the record of one key in one step, and in      *)
(* which a writer is told of success only after its own write took place.  *)
(* A writer may fail to hear of a write that did take place.               *)
(***************************************************************************)
CONSTANTS Keys, Values, NoValue, KeyOf(_), Writers

VARIABLES bound,    \* the durable map
          due       \* per writer, the record it is to be told of, or NoValue

Init ==
    /\ bound = [k \in Keys |-> NoValue]
    /\ due = [w \in Writers |-> NoValue]

Replace(w, v) ==
    /\ due[w] = NoValue
    /\ bound' = [bound EXCEPT ![KeyOf(v)] = v]
    /\ due' = [due EXCEPT ![w] = v]

Acknowledge(w) ==
    /\ due[w] # NoValue
    /\ due' = [due EXCEPT ![w] = NoValue]
    /\ UNCHANGED bound

\* A crash: no writer hears of what it wrote.
Forget ==
    /\ due' = [w \in Writers |-> NoValue]
    /\ UNCHANGED bound

Next ==
    \/ \E w \in Writers : Acknowledge(w) \/ \E v \in Values : Replace(w, v)
    \/ Forget

Spec == Init /\ [][Next]_<<bound, due>>
=============================================================================
