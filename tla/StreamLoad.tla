----------------------------- MODULE StreamLoad -----------------------------
(***************************************************************************)
(* One call of StreamLoadClient.load (write/stream_load.py): a request to  *)
(* the configured endpoint, at most one validated FE-to-BE redirect with   *)
(* the same payload and label, and the classification of whatever comes    *)
(* back.  The client, the network and up to two Doris endpoints take       *)
(* separate steps, so an endpoint may commit while its answer is on the    *)
(* way, after the client timed out, or after it got an error.              *)
(*                                                                         *)
(* Hop 1 is the configured endpoint, hop 2 the redirect target.  An HTTP   *)
(* answer is abstracted to its class of status code, what its body parses  *)
(* to and where its Location header points.                                *)
(***************************************************************************)
EXTENDS Naturals, FiniteSets

CONSTANTS
    Secure,             \* connection.http_secure
    CommittedReplies,   \* answers Doris may give to a load it committed
    UncommittedReplies  \* answers Doris may give to a load it never commits

Hops == 1..2

\* "odd_number": a count field such as "²", for which str.isdigit() holds and
\* int() raises ValueError.  "malformed": everything _parse_response rejects
\* with _MalformedStreamLoadResponseError, bad row counts included.
Bodies == {"success", "publish_timeout", "fail", "label_exists",
           "malformed", "odd_number"}

\* "redirect": 301, 302, 303, 307, 308.  "other_error": any other 3xx or 5xx.
Codes == {"ok", "redirect", "client_error", "other_error"}

\* "foreign": host, port or scheme not allowlisted; "plain_http": an
\* allowlisted http target; "unsplittable": urlsplit raises ValueError.
Locations == {"none", "allowed", "plain_http", "foreign", "unsplittable"}

Replies == [code : Codes, body : Bodies, location : Locations]

NoReply == [code |-> "none", body |-> "malformed", location |-> "none"]

RedirectReplies ==
    {[code |-> "redirect", body |-> "malformed", location |-> l] : l \in Locations}

\* What reading a body from the socket yields: the body, a prefix that does not
\* parse, an OSError ("reset") or an http.client.HTTPException ("cut", the
\* IncompleteRead of a truncated chunked body).
Reads(r) == {r.body, "malformed", "reset", "cut"}

\* Doris answers a committed load with its result or, when something between
\* cannot relay it, with an answer that is no rejection; it never reports
\* success for a load it does not commit.
ASSUME DorisReplies ==
    /\ Secure \in BOOLEAN
    /\ CommittedReplies \subseteq Replies
    /\ UncommittedReplies \subseteq Replies
    /\ \A r \in CommittedReplies :
        \/ r.code = "ok" /\ r.body \in {"success", "publish_timeout", "malformed", "odd_number"}
        \/ r.code = "other_error" /\ r.body \in {"malformed", "odd_number"}
    /\ \A r \in UncommittedReplies :
        r.code # "redirect" /\ (r.code = "ok" => r.body \notin {"success", "publish_timeout"})

VARIABLES
    pc,       \* where load() is: "open", "body", "await", "done"
    hop,      \* the endpoint it is talking to
    sent,     \* sent[h]: the _RequestTransmission of the request to h
    arrived,  \* arrived[h]: how much of the request reached h
    server,   \* server[h]: what h did with the load
    reply,    \* reply[h]: the answer h put on the wire
    outcome   \* what load() returned or raised

vars == <<pc, hop, sent, arrived, server, reply, outcome>>
endpointVars == <<server, reply>>

Outcomes == {"pending", "success", "publish_timeout", "failed",
             "label_exists", "ambiguous", "raw"}

NothingSent == [header_sent |-> FALSE, body_started |-> FALSE]

TypeOK ==
    /\ pc \in {"open", "body", "await", "done"}
    /\ hop \in Hops
    /\ sent \in [Hops -> [header_sent : BOOLEAN, body_started : BOOLEAN]]
    /\ arrived \in [Hops -> {"none", "headers", "partial", "whole"}]
    /\ server \in [Hops -> {"idle", "committed", "rejected", "redirected"}]
    /\ reply \in [Hops -> Replies \cup {NoReply}]
    /\ outcome \in Outcomes

Init ==
    /\ pc = "open"
    /\ hop = 1
    /\ sent = [h \in Hops |-> NothingSent]
    /\ arrived = [h \in Hops |-> "none"]
    /\ server = [h \in Hops |-> "idle"]
    /\ reply = [h \in Hops |-> NoReply]
    /\ outcome = "pending"

-----------------------------------------------------------------------------
(* Classification: which exception, or result, a situation turns into.     *)

\* _raise_transport_error
TransportError(t) == IF t.body_started THEN "ambiguous" ELSE "failed"

\* Mutant: a malformed answer is always a known failure.
ResponseErrorKnown(t, code) == "failed"

\* _raise_response_error
ResponseError(t, code) ==
    IF t.body_started /\ code # "client_error" THEN "ambiguous" ELSE "failed"

\* Mutant: a Fail status is returned as a result.
AnswerOutcomeReturnsFail(t, read) ==
    CASE read \in {"success", "publish_timeout", "label_exists", "fail"} -> read
      [] read = "malformed" -> ResponseError(t, "ok")
      [] read \in {"reset", "cut"} -> TransportError(t)
      [] read = "odd_number" -> "raw"

\* _parse_response followed by what _open_and_parse, and load() around it, make
\* of the exceptions: an answer of the 2xx class.
AnswerOutcome(t, read) ==
    CASE read \in {"success", "publish_timeout", "label_exists"} -> read
      [] read = "fail" -> "failed"
      [] read = "malformed" -> ResponseError(t, "ok")
      [] read \in {"reset", "cut"} -> TransportError(t)
      [] read = "odd_number" -> "raw"

\* Mutant: an HTTP error whose body parses to a result returns it.
HttpErrorOutcomeTrustsBody(t, code, read) ==
    CASE read \in {"success", "publish_timeout", "label_exists"} -> read
      [] read = "fail" -> "failed"
      [] read \in {"malformed", "reset"} -> ResponseError(t, code)
      [] read \in {"cut", "odd_number"} -> "raw"

\* _raise_http_error: _read_error_body turns an OSError into an empty body and
\* lets an HTTPException through; a body that parses to a result is a failure.
HttpErrorOutcome(t, code, read) ==
    CASE read \in {"success", "publish_timeout", "fail"} -> "failed"
      [] read = "label_exists" -> "label_exists"
      [] read \in {"malformed", "reset"} -> ResponseError(t, code)
      [] read \in {"cut", "odd_number"} -> "raw"

\* _validate_redirect_target
Allowed(location) == location = "allowed" \/ (location = "plain_http" /\ ~Secure)

\* What a redirect that is not followed raises.
RefusedRedirect(location) == IF location = "unsplittable" THEN "raw" ELSE "failed"

\* Mutant: every redirect is followed, as urllib would.
MayFollowAny(h) == TRUE

\* load() follows the redirect of the configured endpoint only.
MayFollow(h) == h = 1

-----------------------------------------------------------------------------
(* The client.                                                             *)

Finish(o) == pc' = "done" /\ outcome' = o

\* The worker has no password in its environment, or a header value cannot be
\* encoded: an exception that is not a DorisWriteError, before any connection.
\* The redirected request carries the same headers and cannot fail this way.
BuildRequestFails ==
    /\ pc = "open"
    /\ hop = 1
    /\ Finish("raw")
    /\ UNCHANGED <<hop, sent, arrived, endpointVars>>

\* _build_opener fails: an unreadable CA file.
OpenFails ==
    /\ pc = "open"
    /\ Finish(TransportError(sent[hop]))
    /\ UNCHANGED <<hop, sent, arrived, endpointVars>>

\* The first send of http.client carries the headers and connects first.
\* header_sent is set before either can fail.
SendHeaders ==
    /\ pc = "open"
    /\ sent' = [sent EXCEPT ![hop].header_sent = TRUE]
    /\ \/ /\ arrived' = [arrived EXCEPT ![hop] = "headers"]
          /\ pc' = "body"
          /\ UNCHANGED outcome
       \/ /\ Finish(TransportError(sent'[hop]))
          /\ UNCHANGED arrived
    /\ UNCHANGED <<hop, endpointVars>>

\* Mutant: body_started is set once the send has succeeded.
SendBodyFlagLate ==
    /\ pc = "body"
    /\ \/ /\ arrived' = [arrived EXCEPT ![hop] = "whole"]
          /\ sent' = [sent EXCEPT ![hop].body_started = TRUE]
          /\ pc' = "await"
          /\ UNCHANGED outcome
       \/ /\ \E a \in {"headers", "partial", "whole"} : arrived' = [arrived EXCEPT ![hop] = a]
          /\ Finish(TransportError(sent[hop]))
          /\ UNCHANGED sent
    /\ UNCHANGED <<hop, endpointVars>>

\* The next send carries the body.  body_started is set first, and a send that
\* fails may have delivered nothing, a part, or all of it.
SendBody ==
    /\ pc = "body"
    /\ sent' = [sent EXCEPT ![hop].body_started = TRUE]
    /\ \/ /\ arrived' = [arrived EXCEPT ![hop] = "whole"]
          /\ pc' = "await"
          /\ UNCHANGED outcome
       \/ /\ \E a \in {"headers", "partial", "whole"} : arrived' = [arrived EXCEPT ![hop] = a]
          /\ Finish(TransportError(sent'[hop]))
    /\ UNCHANGED <<hop, endpointVars>>

\* Mutant: a request that timed out is sent again, to the other endpoint.
AwaitFailsRetries ==
    /\ pc = "await"
    /\ IF hop = 1
       THEN hop' = 2 /\ pc' = "open" /\ UNCHANGED outcome
       ELSE Finish(TransportError(sent[hop])) /\ UNCHANGED hop
    /\ UNCHANGED <<sent, arrived, endpointVars>>

\* Timeout, reset or an unreadable status line instead of an answer.
AwaitFails ==
    /\ pc = "await"
    /\ Finish(TransportError(sent[hop]))
    /\ UNCHANGED <<hop, sent, arrived, endpointVars>>

\* A 2xx answer: read, parse, return or raise.
ReceiveAnswer ==
    /\ pc = "await"
    /\ reply[hop].code = "ok"
    /\ \E read \in Reads(reply[hop]) : Finish(AnswerOutcome(sent[hop], read))
    /\ UNCHANGED <<hop, sent, arrived, endpointVars>>

\* Mutant: the redirected request shares the first one's _RequestTransmission.
FollowRedirectSameTransmission ==
    /\ pc = "await"
    /\ reply[hop].code = "redirect"
    /\ MayFollow(hop)
    /\ Allowed(reply[hop].location)
    /\ hop' = 2
    /\ sent' = [sent EXCEPT ![2] = sent[1]]
    /\ arrived' = [arrived EXCEPT ![2] = "none"]
    /\ server' = [server EXCEPT ![2] = "idle"]
    /\ reply' = [reply EXCEPT ![2] = NoReply]
    /\ pc' = "open"
    /\ UNCHANGED outcome

\* A redirect that load() resends to: the same payload and headers, a new
\* _RequestTransmission.
FollowRedirect ==
    /\ pc = "await"
    /\ reply[hop].code = "redirect"
    /\ MayFollow(hop)
    /\ Allowed(reply[hop].location)
    /\ hop' = 2
    /\ sent' = [sent EXCEPT ![2] = NothingSent]
    /\ arrived' = [arrived EXCEPT ![2] = "none"]
    /\ server' = [server EXCEPT ![2] = "idle"]
    /\ reply' = [reply EXCEPT ![2] = NoReply]
    /\ pc' = "open"
    /\ UNCHANGED outcome

\* A redirect without a Location, or to a target validation refuses.
RefuseRedirect ==
    /\ pc = "await"
    /\ reply[hop].code = "redirect"
    /\ MayFollow(hop)
    /\ ~Allowed(reply[hop].location)
    /\ Finish(RefusedRedirect(reply[hop].location))
    /\ UNCHANGED <<hop, sent, arrived, endpointVars>>

\* Any other HTTP error, and a redirect of the redirect target.
ReceiveHttpError ==
    /\ pc = "await"
    /\ \/ reply[hop].code \in {"client_error", "other_error"}
       \/ reply[hop].code = "redirect" /\ ~MayFollow(hop)
    /\ \E read \in Reads(reply[hop]) :
          Finish(HttpErrorOutcome(sent[hop], reply[hop].code, read))
    /\ UNCHANGED <<hop, sent, arrived, endpointVars>>

Client ==
    \/ BuildRequestFails \/ OpenFails \/ SendHeaders \/ SendBody
    \/ AwaitFails \/ ReceiveAnswer \/ FollowRedirect \/ RefuseRedirect \/ ReceiveHttpError

-----------------------------------------------------------------------------
(* Doris: an endpoint decides once what it does with a request.            *)

\* An FE sends the client to a BE, before or after it has the body, and does
\* not load anything itself.
Redirect(h) ==
    /\ server[h] = "idle"
    /\ arrived[h] # "none"
    /\ server' = [server EXCEPT ![h] = "redirected"]
    /\ \E r \in RedirectReplies : reply' = [reply EXCEPT ![h] = r]
    /\ UNCHANGED <<pc, hop, sent, arrived, outcome>>

\* Not loaded: bad credentials, bad data, a cancelled or truncated request.
Reject(h) ==
    /\ server[h] = "idle"
    /\ arrived[h] # "none"
    /\ server' = [server EXCEPT ![h] = "rejected"]
    /\ \E r \in UncommittedReplies : reply' = [reply EXCEPT ![h] = r]
    /\ UNCHANGED <<pc, hop, sent, arrived, outcome>>

\* Only a whole body can be committed, and nothing ties the moment to the client.
Commit(h) ==
    /\ server[h] = "idle"
    /\ arrived[h] = "whole"
    /\ server' = [server EXCEPT ![h] = "committed"]
    /\ UNCHANGED <<pc, hop, sent, arrived, reply, outcome>>

Answer(h) ==
    /\ server[h] = "committed"
    /\ reply[h] = NoReply
    /\ \E r \in CommittedReplies : reply' = [reply EXCEPT ![h] = r]
    /\ UNCHANGED <<pc, hop, sent, arrived, server, outcome>>

Doris == \E h \in Hops : Redirect(h) \/ Reject(h) \/ Commit(h) \/ Answer(h)

\* load() has returned; what is left to do, if anything, is Doris's.
Returned == pc = "done" /\ UNCHANGED vars

Next == Client \/ Doris \/ Returned

SafeSpec == Init /\ [][Next]_vars

\* The client keeps going: every socket operation ends, by its timeout if not
\* otherwise.  Doris need not do anything.
Spec == SafeSpec /\ WF_vars(Client)

-----------------------------------------------------------------------------
(* Correctness.                                                            *)

IsCommitted(h) == server[h] = "committed"

\* A plain DorisWriteError ("known failure", _errors.py) means the rows are not
\* in Doris and will not get there later, however the request died: the flag
\* body_started is what keeps a timed-out request out of this class.
KnownFailureIsFinal == outcome = "failed" => \A h \in Hops : ~IsCommitted(h)

\* A returned DorisLoadResult is the answer of the endpoint that committed it.
ResultIsCommitted == outcome \in {"success", "publish_timeout"} => IsCommitted(hop)

\* One call of load() puts its rows into Doris at most once, although the
\* payload may be sent to two endpoints and the first may act after the client
\* has left it.
LoadedAtMostOnce == \E h \in Hops : \A g \in Hops \ {h} : ~IsCommitted(g)

\* DorisAmbiguousWriteError makes an operator reconcile by hand, so it is not
\* raised for a request that never reached the endpoint that failed, even when
\* an earlier hop already had the body.
AmbiguousOnlyWhenReached == outcome = "ambiguous" => arrived[hop] # "none"

\* write-data.md: "If the request body may have reached Doris but its outcome is
\* unknown, the connector raises DorisAmbiguousWriteError".  So an exception that
\* is not a DorisWriteError never hides a load that Doris committed.
UnknownOutcomeIsAmbiguous == outcome = "raw" => \A h \in Hops : ~IsCommitted(h)

\* One call of load() keeps the contract its callers count on.
Contract == INSTANCE LoadContract WITH
    Loads <- {"load"},
    outcome <- [l \in {"load"} |-> outcome],
    committed <- [l \in {"load"} |-> \E h \in Hops : IsCommitted(h)]

\* load() implements LoadContract: its report is true of Doris when it is made
\* and stays true, and load() returns or raises whatever Doris and the network do.
ImplementsContract == Contract!Spec
=============================================================================
