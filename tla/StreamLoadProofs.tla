-------------------------- MODULE StreamLoadProofs --------------------------
(***************************************************************************)
(* Proofs about StreamLoad, for every environment that satisfies the       *)
(* assumption DorisReplies.  One inductive invariant, IInv, carries all of *)
(* them: it ties what load() is about to conclude to what each endpoint    *)
(* has received and may still do.                                          *)
(***************************************************************************)
EXTENDS StreamLoad, TLAPS

\* load() reports exactly when it ends.
ReportedWhenDone == pc = "done" <=> outcome # "pending"

\* What the current endpoint has, and what body_started says of it.
Progress ==
    /\ pc = "open" => arrived[hop] = "none" /\ ~sent[hop].body_started
    /\ pc = "body" => arrived[hop] = "headers" /\ ~sent[hop].body_started
    /\ pc = "await" => arrived[hop] = "whole" /\ sent[hop].body_started

\* The first endpoint gave the load away before the second got anything.
Handover ==
    /\ hop = 1 => arrived[2] = "none"
    /\ hop = 2 => server[1] = "redirected"
    /\ \A h \in Hops : arrived[h] = "none" => server[h] = "idle"

\* An answer on the wire says what its endpoint did.
AnswersMatch ==
    \A h \in Hops :
        /\ server[h] = "idle" => reply[h] = NoReply
        /\ server[h] = "committed" => reply[h] \in CommittedReplies \cup {NoReply}
        /\ server[h] = "rejected" => reply[h] \in UncommittedReplies
        /\ server[h] = "redirected" => reply[h].code = "redirect"

\* No endpoint has committed, or still holds a body it could commit.
NeverLoaded ==
    \A h \in Hops : ~IsCommitted(h) /\ (server[h] = "idle" => arrived[h] # "whole")

IInv ==
    /\ TypeOK
    /\ ReportedWhenDone
    /\ Progress
    /\ Handover
    /\ AnswersMatch
    /\ outcome = "failed" => NeverLoaded
    /\ ResultIsCommitted
    /\ AmbiguousOnlyWhenReached

-----------------------------------------------------------------------------
USE DEF Hops, endpointVars, IsCommitted

LEMMA InitIInv == Init => IInv
  BY DEF Init, IInv, TypeOK, ReportedWhenDone, Progress, Handover, AnswersMatch,
         ResultIsCommitted, AmbiguousOnlyWhenReached, Outcomes, NothingSent, NoReply, Replies,
         Codes, Bodies, Locations

\* The classifications yield outcomes, never "pending".
LEMMA Classified ==
    ASSUME NEW t \in [header_sent : BOOLEAN, body_started : BOOLEAN],
           NEW r \in Replies, NEW read \in Reads(r), NEW code \in Codes
    PROVE  /\ TransportError(t) \in Outcomes \ {"pending"}
           /\ AnswerOutcome(t, read) \in Outcomes \ {"pending"}
           /\ HttpErrorOutcome(t, code, read) \in Outcomes \ {"pending"}
  BY DEF Replies, Reads, Bodies, Outcomes, TransportError, ResponseError, AnswerOutcome,
         HttpErrorOutcome

\* Setting a flag of one _RequestTransmission keeps the type and the other flags.
LEMMA FlagsSet ==
    ASSUME NEW s \in [Hops -> [header_sent : BOOLEAN, body_started : BOOLEAN]], NEW h \in Hops
    PROVE  /\ [s EXCEPT ![h].header_sent = TRUE]
                 \in [Hops -> [header_sent : BOOLEAN, body_started : BOOLEAN]]
           /\ [s EXCEPT ![h].header_sent = TRUE][h].body_started = s[h].body_started
           /\ [s EXCEPT ![h].body_started = TRUE]
                 \in [Hops -> [header_sent : BOOLEAN, body_started : BOOLEAN]]
           /\ [s EXCEPT ![h].body_started = TRUE][h].body_started
  OBVIOUS

LEMMA NextIInv == IInv /\ [Next]_vars => IInv'
<1> SUFFICES ASSUME IInv, [Next]_vars PROVE IInv'
  OBVIOUS
<1> USE DorisReplies DEF IInv
<1> USE DEF TypeOK, ReportedWhenDone, Progress, Handover, AnswersMatch, NeverLoaded,
            ResultIsCommitted, AmbiguousOnlyWhenReached
<1>1. CASE OpenFails
  BY <1>1 DEF OpenFails, Finish, TransportError, Outcomes
<1>2. CASE SendHeaders
  <2>1. /\ sent' \in [Hops -> [header_sent : BOOLEAN, body_started : BOOLEAN]]
        /\ sent'[hop].body_started = sent[hop].body_started
    BY <1>2, FlagsSet DEF SendHeaders
  <2>2. CASE arrived' = [arrived EXCEPT ![hop] = "headers"] /\ pc' = "body" /\ UNCHANGED outcome
    BY <1>2, <2>1, <2>2 DEF SendHeaders
  <2>3. CASE Finish(TransportError(sent'[hop])) /\ UNCHANGED arrived
    <3>1. outcome' = "failed" /\ pc' = "done"
      BY <1>2, <2>1, <2>3 DEF SendHeaders, Finish, TransportError
    <3>2. NeverLoaded
      BY <1>2 DEF SendHeaders, Finish
    <3>3. QED
      BY <1>2, <2>1, <2>3, <3>1, <3>2 DEF SendHeaders, Outcomes
  <2>4. QED
    BY <1>2, <2>2, <2>3 DEF SendHeaders, Finish
<1>3. CASE SendBody
  <2>1. /\ sent' \in [Hops -> [header_sent : BOOLEAN, body_started : BOOLEAN]]
        /\ sent'[hop].body_started
    BY <1>3, FlagsSet DEF SendBody
  <2>2. CASE arrived' = [arrived EXCEPT ![hop] = "whole"] /\ pc' = "await" /\ UNCHANGED outcome
    BY <1>3, <2>1, <2>2 DEF SendBody
  <2>3. ASSUME NEW a \in {"headers", "partial", "whole"},
               arrived' = [arrived EXCEPT ![hop] = a], Finish(TransportError(sent'[hop]))
        PROVE  IInv'
    <3>1. outcome' = "ambiguous" /\ pc' = "done"
      BY <2>1, <2>3 DEF Finish, TransportError
    <3>2. QED
      BY <1>3, <2>1, <2>3, <3>1 DEF SendBody, Outcomes
  <2>4. \/ arrived' = [arrived EXCEPT ![hop] = "whole"] /\ pc' = "await" /\ UNCHANGED outcome
        \/ \E a \in {"headers", "partial", "whole"} :
              arrived' = [arrived EXCEPT ![hop] = a] /\ Finish(TransportError(sent'[hop]))
    BY <1>3 DEF SendBody, Finish
  <2>5. QED
    BY <2>2, <2>3, <2>4
<1>4. CASE AwaitFails
  BY <1>4 DEF AwaitFails, Finish, TransportError, Outcomes
<1>5. CASE ReceiveAnswer
  <2>1. PICK read \in Reads(reply[hop]) : Finish(AnswerOutcome(sent[hop], read))
    BY <1>5 DEF ReceiveAnswer
  <2>2. /\ pc = "await" /\ pc' = "done" /\ reply[hop] \in Replies /\ reply[hop].code = "ok"
        /\ UNCHANGED <<hop, sent, arrived, server, reply>>
    BY <1>5, <2>1 DEF ReceiveAnswer, Finish, NoReply
  <2>3. outcome' \in Outcomes \ {"pending"}
    BY <2>1, <2>2, Classified DEF Finish, Codes
  <2>4. outcome' = "failed" => server[hop] = "rejected" \/ server[hop] = "redirected"
    BY <2>1, <2>2 DEF Finish, Reads, AnswerOutcome, ResponseError, TransportError, NoReply
  <2>5. outcome' \in {"success", "publish_timeout"} => server[hop] = "committed"
    <3>1. outcome' \in {"success", "publish_timeout"} => reply[hop].body = outcome'
      BY <2>1, <2>2 DEF Finish, Reads, AnswerOutcome, ResponseError, TransportError,
             Replies, Bodies
    <3>2. reply[hop].body \in {"success", "publish_timeout"} => server[hop] = "committed"
      BY <2>2 DEF NoReply
    <3>3. QED
      BY <3>1, <3>2
  <2>6. QED
    BY <2>2, <2>3, <2>4, <2>5
<1>6. CASE FollowRedirect
  <2>1. server[1] = "redirected"
    BY <1>6 DEF FollowRedirect, MayFollow, NoReply
  <2>2. QED
    BY <1>6, <2>1 DEF FollowRedirect, MayFollow, NothingSent
<1>7. CASE RefuseRedirect
  <2>1. server[1] = "redirected" /\ hop = 1
    BY <1>7 DEF RefuseRedirect, MayFollow, NoReply
  <2>2. outcome' \in {"raw", "failed"} /\ pc' = "done"
    BY <1>7 DEF RefuseRedirect, RefusedRedirect, Finish
  <2>3. QED
    BY <1>7, <2>1, <2>2 DEF RefuseRedirect, Outcomes
<1>8. CASE ReceiveHttpError
  <2>1. PICK read \in Reads(reply[hop]) :
           Finish(HttpErrorOutcome(sent[hop], reply[hop].code, read))
    BY <1>8 DEF ReceiveHttpError
  <2>2. /\ pc = "await" /\ pc' = "done" /\ reply[hop] \in Replies /\ reply[hop].code # "ok"
        /\ UNCHANGED <<hop, sent, arrived, server, reply>>
    BY <1>8, <2>1 DEF ReceiveHttpError, Finish, NoReply
  <2>3. outcome' \in Outcomes \ {"pending"}
    BY <2>1, <2>2, Classified DEF Finish, Replies
  <2>4. outcome' = "failed" => server[hop] = "rejected" \/ server[hop] = "redirected"
    BY <2>1, <2>2 DEF Finish, Reads, HttpErrorOutcome, ResponseError, NoReply
  <2>5. outcome' \notin {"success", "publish_timeout"}
    BY <2>1, <2>2 DEF Finish, Reads, HttpErrorOutcome, ResponseError, Replies, Bodies
  <2>6. QED
    BY <2>2, <2>3, <2>4, <2>5
<1>9. CASE \E h \in Hops : Redirect(h)
  BY <1>9 DEF Redirect, RedirectReplies, Replies, Codes, Bodies
<1>10. CASE \E h \in Hops : Reject(h)
  BY <1>10 DEF Reject
<1>11. CASE \E h \in Hops : Commit(h)
  BY <1>11 DEF Commit
<1>12. CASE \E h \in Hops : Answer(h)
  BY <1>12 DEF Answer
<1>13. CASE UNCHANGED vars
  BY <1>13 DEF vars
<1>14. CASE BuildRequestFails
  BY <1>14 DEF BuildRequestFails, Finish, Outcomes
<1>15. QED
  BY <1>1, <1>2, <1>3, <1>4, <1>5, <1>6, <1>7, <1>8, <1>9, <1>10, <1>11, <1>12, <1>13, <1>14
     DEF Next, Client, Doris, Returned

\* The invariant holds in every reachable state.
LEMMA SpecIInv == SafeSpec => []IInv
  BY InitIInv, NextIInv, PTL DEF SafeSpec

\* TypeOK: every variable keeps to its values for any set of replies Doris may
\* send.
THEOREM TypeCorrect == SafeSpec => []TypeOK
  BY SpecIInv, PTL DEF IInv

\* KnownFailureIsFinal: a load reported as a known failure is not in Doris and
\* never gets there, whatever Doris and the network do afterwards.
THEOREM KnownFailureSafe == SafeSpec => []KnownFailureIsFinal
<1>1. IInv => KnownFailureIsFinal
  BY DEF IInv, KnownFailureIsFinal, NeverLoaded
<1>2. QED
  BY <1>1, SpecIInv, PTL

\* ResultIsCommitted: a DorisLoadResult comes from the endpoint that committed.
THEOREM ResultSafe == SafeSpec => []ResultIsCommitted
  BY SpecIInv, PTL DEF IInv

\* LoadedAtMostOnce: the two endpoints never both commit the payload.
THEOREM LoadedOnceSafe == SafeSpec => []LoadedAtMostOnce
<1>1. IInv => LoadedAtMostOnce
  BY DEF IInv, TypeOK, Handover, LoadedAtMostOnce
<1>2. QED
  BY <1>1, SpecIInv, PTL

\* AmbiguousOnlyWhenReached: no ambiguity for an endpoint that was not reached.
THEOREM AmbiguousSafe == SafeSpec => []AmbiguousOnlyWhenReached
  BY SpecIInv, PTL DEF IInv

-----------------------------------------------------------------------------
InDoris == \E h \in Hops : IsCommitted(h)

\* What the two kinds of step do to the contract's view of a load.
LEMMA ClientStep ==
    IInv /\ IInv' /\ Client => outcome = "pending" /\ InDoris' = InDoris
<1> SUFFICES ASSUME IInv, IInv', Client PROVE outcome = "pending" /\ InDoris' = InDoris
  OBVIOUS
<1>1. pc # "done"
  BY DEF Client, BuildRequestFails, OpenFails, SendHeaders, SendBody, AwaitFails, ReceiveAnswer,
         FollowRedirect,
         RefuseRedirect, ReceiveHttpError
<1>2. CASE FollowRedirect
  <2>1. server' = server
    BY <1>2 DEF FollowRedirect, MayFollow, IInv, TypeOK, Handover
  <2>2. QED
    BY <1>1, <2>1 DEF InDoris, IInv, ReportedWhenDone
<1>3. CASE ~FollowRedirect
  <2>1. server' = server
    BY <1>3 DEF Client, BuildRequestFails, OpenFails, SendHeaders, SendBody, AwaitFails,
           ReceiveAnswer,
           RefuseRedirect, ReceiveHttpError
  <2>2. QED
    BY <1>1, <2>1 DEF InDoris, IInv, ReportedWhenDone
<1>4. QED
  BY <1>2, <1>3

LEMMA DorisStep ==
    IInv /\ Doris =>
        /\ outcome' = outcome
        /\ InDoris' # InDoris =>
              InDoris' /\ outcome \notin {"failed", "success", "publish_timeout"}
<1> SUFFICES ASSUME IInv, NEW h \in Hops, Redirect(h) \/ Reject(h) \/ Commit(h) \/ Answer(h)
    PROVE  /\ outcome' = outcome
           /\ InDoris' # InDoris =>
                 InDoris' /\ outcome \notin {"failed", "success", "publish_timeout"}
  BY DEF Doris
<1>1. CASE Redirect(h) \/ Reject(h) \/ Answer(h)
  BY <1>1 DEF Redirect, Reject, Answer, InDoris, IInv, TypeOK
<1>2. CASE Commit(h)
  BY <1>2 DEF Commit, InDoris, IInv, TypeOK, NeverLoaded, ResultIsCommitted
<1>3. QED
  BY <1>1, <1>2

\* load() implements LoadContract, fairness aside: what it reports is true of
\* Doris, and Doris commits nothing it reported as a known failure.
THEOREM ImplementsContractSafely == SafeSpec => Contract!SafeSpec
<1>1. Init => Contract!Init
  BY DEF Init, Contract!Init
<1>2. IInv /\ IInv' /\ [Next]_vars => [Contract!Next]_(Contract!vars)
  <2> SUFFICES ASSUME IInv, IInv', [Next]_vars PROVE [Contract!Next]_(Contract!vars)
    OBVIOUS
  <2> USE DEF InDoris
  <2>1. CASE Client
    <3>1. outcome = "pending" /\ InDoris' = InDoris
      BY <2>1, ClientStep
    <3>2. CASE outcome' = "pending"
      BY <3>1, <3>2 DEF Contract!vars
    <3>3. CASE outcome' # "pending"
      <4>1. /\ outcome' \in Contract!Outcomes \ {"pending"}
            /\ outcome' \in Contract!Loaded => InDoris
            /\ outcome' = "failed" => ~InDoris
        BY <3>1, <3>3 DEF IInv, TypeOK, Outcomes, Contract!Outcomes, Contract!Loaded,
               Contract!Unknown, ResultIsCommitted, NeverLoaded
      <4>2. Contract!Report("load", outcome')
        BY <3>1, <4>1 DEF Contract!Report
      <4>3. QED
        BY <4>1, <4>2 DEF Contract!Next, Contract!ReportAny
    <3>4. QED
      BY <3>2, <3>3
  <2>2. CASE Doris
    <3>1. CASE InDoris' = InDoris
      BY <2>2, <3>1, DorisStep DEF Contract!vars
    <3>2. CASE InDoris' # InDoris
      <4>1. Contract!Commit("load")
        BY <2>2, <3>2, DorisStep DEF IInv, TypeOK, Outcomes, Contract!Commit, Contract!Unknown
      <4>2. QED
        BY <4>1 DEF Contract!Next
    <3>3. QED
      BY <3>1, <3>2
  <2>3. CASE UNCHANGED vars
    BY <2>3 DEF vars, Contract!vars
  <2>4. QED
    BY <2>1, <2>2, <2>3 DEF Next, Returned
<1>3. QED
  BY <1>1, <1>2, SpecIInv, PTL DEF SafeSpec, Contract!SafeSpec
=============================================================================
