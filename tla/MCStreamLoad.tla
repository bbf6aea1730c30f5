---------------------------- MODULE MCStreamLoad ----------------------------
(* Instances of StreamLoad for TLC: Doris answers with every reply the      *)
(* environment assumption admits.                                           *)
EXTENDS StreamLoad

NotRedirected == {r \in Replies : r.code # "redirect" /\ r.location = "none"}

MCCommittedReplies ==
    {r \in NotRedirected :
        \/ r.code = "ok" /\ r.body \in {"success", "publish_timeout", "malformed", "odd_number"}
        \/ r.code = "other_error" /\ r.body \in {"malformed", "odd_number"}}

MCUncommittedReplies ==
    {r \in NotRedirected : r.code = "ok" => r.body \notin {"success", "publish_timeout"}}

\* Doris, and whatever relays it, never sends an odd count: only a truncated
\* answer is left to go wrong.
MCRegularCommittedReplies == {r \in MCCommittedReplies : r.body # "odd_number"}
MCRegularUncommittedReplies == {r \in MCUncommittedReplies : r.body # "odd_number"}
=============================================================================
