-------------------------- MODULE SourceSelection --------------------------
(***************************************************************************)
(* What read_doris promises about its one choice of a source (the table in *)
(* native-read.md, and the docstring of read_doris): a native read only if *)
(* nothing speaks against it, a read through Doris only for a known        *)
(* limitation, an error whenever something is wrong, and nothing after a   *)
(* native read has begun but its end or its error.  ExternalMetadata and   *)
(* NativeRead implement it.                                                *)
(***************************************************************************)

VARIABLES
    path,   \* "undecided", then "native", "doris" or "error"
    found   \* what came to light so far (history)

vars == <<path, found>>

\* Outside the native profile; metadata that disagrees or makes no sense; access
\* denied; a request that failed or a missing object.
Findings == {"inapplicable", "contradiction", "denied", "failed"}

TypeOK ==
    /\ path \in {"undecided", "native", "doris", "error"}
    /\ found \in SUBSET Findings

Init ==
    /\ path = "undecided"
    /\ found = {}

\* Which findings allow a choice.  A denial or a failure never leads to Doris, even
\* if the table would not fit either.
Justified(choice, findings) ==
    CASE choice = "native" -> findings = {}
      [] choice = "doris"  -> "inapplicable" \in findings /\ findings \cap {"denied", "failed"} = {}
      [] choice = "error"  -> findings \cap {"contradiction", "denied", "failed"} # {}

Decide ==
    /\ path = "undecided"
    /\ path' \in {"native", "doris", "error"}
    /\ found' \in {findings \in SUBSET Findings : found \subseteq findings}
    /\ Justified(path', found')

\* A native read that breaks is an error, never a read through Doris.
Break ==
    /\ path = "native"
    /\ path' = "error"
    /\ found' = found \cup {"failed"}

Next == Decide \/ Break

SafeSpec == Init /\ [][Next]_vars

Spec == SafeSpec /\ WF_vars(Decide)
=============================================================================
