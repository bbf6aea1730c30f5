---------------------------- MODULE LoadContract ----------------------------
(***************************************************************************)
(* What StreamLoadClient.load promises about a set of Stream Load          *)
(* requests.  A load is what happens to one serialized batch: Doris        *)
(* commits it or does not, and the worker that sent it gets one report.    *)
(* The report is allowed to lag, and Doris may commit after a report that  *)
(* admits it does not know; it may not after one that says the load        *)
(* failed.  StreamLoad implements this contract for one load and Datasink  *)
(* builds a distributed write out of many of them.                         *)
(***************************************************************************)
CONSTANT Loads

VARIABLES
    outcome,    \* outcome[l]: what load() returned or raised, "pending" before
    committed   \* committed[l]: Doris has committed the rows of l

vars == <<outcome, committed>>

\* load() returned a DorisLoadResult.
Loaded == {"success", "publish_timeout"}

\* load() raised and the caller cannot tell whether the rows are in Doris:
\* DorisAmbiguousWriteError, DorisLabelExistsError, or an exception that is not a
\* DorisWriteError ("raw").
Unknown == {"ambiguous", "label_exists", "raw"}

\* "failed": plain DorisWriteError, the known failure of _errors.py.
Outcomes == {"pending", "failed"} \cup Loaded \cup Unknown

TypeOK ==
    /\ outcome \in [Loads -> Outcomes]
    /\ committed \in [Loads -> BOOLEAN]

Init ==
    /\ outcome = [l \in Loads |-> "pending"]
    /\ committed = [l \in Loads |-> FALSE]

\* Doris commits, as long as nobody has been told that it will not.
Commit(l) ==
    /\ outcome[l] \in {"pending"} \cup Unknown
    /\ ~committed[l]
    /\ committed' = [committed EXCEPT ![l] = TRUE]
    /\ UNCHANGED outcome

\* The one report of l.  It may claim only what is true of Doris now.
Report(l, o) ==
    /\ outcome[l] = "pending"
    /\ o \in Loaded => committed[l]
    /\ o = "failed" => ~committed[l]
    /\ outcome' = [outcome EXCEPT ![l] = o]
    /\ UNCHANGED committed

ReportAny(l) == \E o \in Outcomes \ {"pending"} : Report(l, o)

Next == \E l \in Loads : Commit(l) \/ ReportAny(l)

SafeSpec == Init /\ [][Next]_vars

\* Every load is reported: the connector waits on a socket with a timeout.
Spec == SafeSpec /\ \A l \in Loads : WF_vars(ReportAny(l))

\* A report that claims something about Doris is right, then and for ever after.
ReportsAreTrue ==
    \A l \in Loads :
        /\ outcome[l] \in Loaded => committed[l]
        /\ outcome[l] = "failed" => ~committed[l]
=============================================================================
