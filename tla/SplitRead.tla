------------------------------ MODULE SplitRead ------------------------------
(***************************************************************************)
(* What a read task promises Ray about one split: the rows it hands over   *)
(* are a growing part of one result of one transport, and it ends normally *)
(* only when that result is exhausted.  It may change its mind about the   *)
(* transport while it has handed over nothing.  SplitReader implements it. *)
(***************************************************************************)
EXTENDS Naturals

CONSTANT Sources

VARIABLES
    size,       \* size[s]: rows of the split's query over s
    source,     \* the transport in use, "undecided" before
    delivered,  \* rows handed over
    status      \* "reading", "complete", "failed" or "closed" by the consumer

vars == <<size, source, delivered, status>>

Init ==
    /\ size \in [Sources -> Nat]
    /\ source = "undecided"
    /\ delivered = 0
    /\ status = "reading"

Choose(s) ==
    /\ status = "reading" /\ delivered = 0
    /\ source' = s
    /\ UNCHANGED <<size, delivered, status>>

Deliver ==
    /\ status = "reading" /\ source \in Sources
    /\ delivered' \in (delivered + 1)..size[source]
    /\ UNCHANGED <<size, source, status>>

End(s) ==
    /\ status = "reading"
    /\ s = "complete" => source \in Sources /\ delivered = size[source]
    /\ status' = s
    /\ UNCHANGED <<size, source, delivered>>

Next ==
    \/ \E s \in Sources : Choose(s)
    \/ Deliver
    \/ \E s \in {"complete", "failed", "closed"} : End(s)

SafeSpec == Init /\ [][Next]_vars

\* The task ends if its consumer goes on taking blocks or closes it.
Spec == SafeSpec /\ WF_vars(Next)
=============================================================================
