------------------------------- MODULE Events -------------------------------
(***************************************************************************)
(* `soroban events` (src/.../commands/events.rs): the validation of the    *)
(* topic filters and contract ids in Cmd::run, then                         *)
(* run_against_rpc_server (start, network, passphrase check, getEvents),   *)
(* then the loop that prints the returned events.  One action per loop     *)
(* iteration or await, so that the order in which errors win is explicit.  *)
(*                                                                         *)
(* Data abstraction: a topic segment is "*" (the wildcard), "v" (a base64   *)
(* ScVal) or "x" (anything ScVal::from_xdr_base64 rejects, the empty       *)
(* segment of "a,," included); a contract id is "ok" or "bad" for           *)
(* utils::contract_id_from_str.  The events themselves are only counted.   *)
(***************************************************************************)
EXTENDS Naturals, Sequences

CONSTANTS
    TopicFilters,   \* the --topic values a run may be given
    MaxTopics,      \* how many --topic values at most
    MaxIds,         \* how many --id values at most
    MaxEvents       \* the most events one getEvents call returns

Segments == {"*", "v", "x"}
IdKinds == {"ok", "bad"}

ASSUME EventsAssumption ==
    /\ TopicFilters \subseteq Seq(Segments) \ {<<>>}
    /\ MaxTopics \in Nat /\ MaxIds \in Nat /\ MaxEvents \in Nat

\* The Error variants events.rs:79-127 can return, plus "ok".
ValidationErrors == {"invalidTopicFilter", "invalidSegment", "invalidContractId"}
Outcomes == ValidationErrors \cup {"none", "ok", "network", "rpc", "output"}
Stages == {"topics", "ids", "network", "verify", "query", "print", "done"}

VARIABLES
    topics,     \* self.topic_filters, each split at ','
    ids,        \* self.contract_ids
    ti, si,     \* the two loop indices of events.rs:142-143 (1-based)
    ii,         \* the loop index of events.rs:163
    pc,         \* where Cmd::run has got to
    outcome,    \* what it returned
    queried,    \* getEvents was called with these filters
    nEvents,    \* response.events has this many events
    printed     \* events printed so far

vars == <<topics, ids, ti, si, ii, pc, outcome, queried, nEvents, printed>>

\* ScVal::from_xdr_base64 accepts the segment.
IsScVal(seg) == seg = "v"

Finish(o) == pc' = "done" /\ outcome' = o

Init ==
    /\ topics \in UNION {[1..n -> TopicFilters] : n \in 0..MaxTopics}
    /\ ids \in UNION {[1..n -> IdKinds] : n \in 0..MaxIds}
    /\ ti = 1 /\ si = 1 /\ ii = 1
    /\ pc = "topics" /\ outcome = "none"
    /\ queried = FALSE /\ nEvents = 0 /\ printed = 0

\* One iteration of the inner loop over topic.split(',').enumerate():
\* the index check `i > 4` on the 0-based index i = si - 1, then the
\* ScVal parse of every segment that is not "*".
CheckSegment ==
    /\ pc = "topics" /\ ti <= Len(topics) /\ si <= Len(topics[ti])
    /\ \/ si - 1 > 4 /\ Finish("invalidTopicFilter") /\ UNCHANGED si
       \/ si - 1 <= 4 /\ topics[ti][si] # "*" /\ ~IsScVal(topics[ti][si])
          /\ Finish("invalidSegment") /\ UNCHANGED si
       \/ si - 1 <= 4 /\ (topics[ti][si] = "*" \/ IsScVal(topics[ti][si]))
          /\ si' = si + 1 /\ UNCHANGED <<pc, outcome>>
    /\ UNCHANGED <<topics, ids, ti, ii, queried, nEvents, printed>>

\* The outer loop moves to the next topic filter, or ends.
NextTopic ==
    /\ pc = "topics" /\ ti <= Len(topics) /\ si > Len(topics[ti])
    /\ ti' = ti + 1 /\ si' = 1
    /\ UNCHANGED <<topics, ids, ii, pc, outcome, queried, nEvents, printed>>

EndTopics ==
    /\ pc = "topics" /\ ti > Len(topics)
    /\ pc' = "ids"
    /\ UNCHANGED <<topics, ids, ti, si, ii, outcome, queried, nEvents, printed>>

\* Mutant: the `?` after map_err is missing, so a bad id is reported by
\* nobody and the loop goes on.
CheckIdNoReturn ==
    /\ pc = "ids"
    /\ \/ ii <= Len(ids) /\ ii' = ii + 1 /\ UNCHANGED <<pc, outcome>>
       \/ ii > Len(ids) /\ pc' = "network" /\ UNCHANGED <<ii, outcome>>
    /\ UNCHANGED <<topics, ids, ti, si, queried, nEvents, printed>>

\* One iteration of the loop over self.contract_ids, or its end.
CheckId ==
    /\ pc = "ids"
    /\ \/ ii <= Len(ids) /\ ids[ii] = "bad" /\ Finish("invalidContractId")
          /\ UNCHANGED ii
       \/ ii <= Len(ids) /\ ids[ii] = "ok" /\ ii' = ii + 1
          /\ UNCHANGED <<pc, outcome>>
       \/ ii > Len(ids) /\ pc' = "network" /\ UNCHANGED <<ii, outcome>>
    /\ UNCHANGED <<topics, ids, ti, si, queried, nEvents, printed>>

\* run_against_rpc_server: self.start() cannot fail (clap requires exactly
\* one of --start-ledger and --cursor); the network lookup and the client
\* construction can.
GetNetwork ==
    /\ pc = "network"
    /\ \/ Finish("network")
       \/ pc' = "verify" /\ UNCHANGED outcome
    /\ UNCHANGED <<topics, ids, ti, si, ii, queried, nEvents, printed>>

VerifyPassphrase ==
    /\ pc = "verify"
    /\ \/ Finish("rpc")
       \/ pc' = "query" /\ UNCHANGED outcome
    /\ UNCHANGED <<topics, ids, ti, si, ii, queried, nEvents, printed>>

\* client.get_events(start, type, ids, topics, count): the filters are sent.
GetEvents ==
    /\ pc = "query"
    /\ queried' = TRUE
    /\ \/ Finish("rpc") /\ UNCHANGED nEvents
       \/ \E n \in 0..MaxEvents : nEvents' = n /\ pc' = "print"
          /\ UNCHANGED outcome
    /\ UNCHANGED <<topics, ids, ti, si, ii, printed>>

\* Mutant: the print loop does not stop at the last event.
PrintEventUnbounded ==
    /\ pc = "print"
    /\ \/ printed' = printed + 1 /\ UNCHANGED <<pc, outcome>>
       \/ Finish("output") /\ UNCHANGED printed
    /\ UNCHANGED <<topics, ids, ti, si, ii, queried, nEvents>>

\* One iteration of `for event in &response.events`: the event is printed,
\* or serde_json / pretty_print fails and `?` returns.
PrintEvent ==
    /\ pc = "print" /\ printed < nEvents
    /\ \/ printed' = printed + 1 /\ UNCHANGED <<pc, outcome>>
       \/ Finish("output") /\ UNCHANGED printed
    /\ UNCHANGED <<topics, ids, ti, si, ii, queried, nEvents>>

\* "Latest Ledger: ..." and Ok(()).
PrintLatest ==
    /\ pc = "print" /\ printed = nEvents
    /\ Finish("ok")
    /\ UNCHANGED <<topics, ids, ti, si, ii, queried, nEvents, printed>>

Next ==
    \/ CheckSegment \/ NextTopic \/ EndTopics \/ CheckId
    \/ GetNetwork \/ VerifyPassphrase \/ GetEvents
    \/ PrintEvent \/ PrintLatest
    \/ pc = "done" /\ UNCHANGED vars

Spec == Init /\ [][Next]_vars

-----------------------------------------------------------------------------
(* Properties *)

\* Every variable stays in its range; in particular the print loop never
\* prints more events than the response holds, nor more than a response can.
TypeOK ==
    /\ topics \in Seq(Seq(Segments)) /\ ids \in Seq(IdKinds)
    /\ ti \in 1..Len(topics) + 1 /\ si \in Nat \ {0} /\ ii \in 1..Len(ids) + 1
    /\ pc \in Stages /\ outcome \in Outcomes /\ queried \in BOOLEAN
    /\ nEvents \in 0..MaxEvents /\ printed \in 0..nEvents

\* The validation the documentation describes: a topic filter has 1-4
\* segments (the --topic help, events.rs:45-47, and the InvalidTopicFilter
\* message, events.rs:87), each "*" (events.rs:47) or an ScVal in base64.
DocumentedSegments == 4

\* Every --topic value has no more segments than the documentation allows.
DocumentedShape == \A t \in 1..Len(topics) : Len(topics[t]) <= DocumentedSegments

\* The reference definition of what validation reports, independent of the
\* loops: the first position, in the order topics then segments, that is
\* past the documented limit or holds an unparsable segment decides the
\* error; otherwise the first bad contract id; otherwise "valid".
Positions == UNION {{t} \X (1..Len(topics[t])) : t \in 1..Len(topics)}
SegmentError(q) ==
    IF q[2] > DocumentedSegments THEN "invalidTopicFilter"
    ELSE IF topics[q[1]][q[2]] = "x" THEN "invalidSegment" ELSE "none"
BadPositions == {q \in Positions : SegmentError(q) # "none"}
Before(q, r) == q[1] < r[1] \/ (q[1] = r[1] /\ q[2] < r[2])
ExpectedValidation ==
    IF BadPositions # {}
    THEN SegmentError(CHOOSE q \in BadPositions :
                          \A r \in BadPositions \ {q} : Before(q, r))
    ELSE IF \E j \in 1..Len(ids) : ids[j] = "bad" THEN "invalidContractId"
    ELSE "valid"

\* On every command line of the documented shape, `soroban events` never
\* sends filters the documented validation rejects, and the error Cmd::run
\* reports is the first one in argument order: a finished run with invalid
\* input returns exactly the reference error (an unparsable segment before a
\* bad id, the first one first), and a run with valid input never returns a
\* validation error.  Filters longer than four segments are where the code
\* and the documentation disagree: TopicsWithinDocumentedLimit.
ValidationMatchesReference ==
    DocumentedShape =>
        /\ queried => ExpectedValidation = "valid"
        /\ pc = "done" /\ ExpectedValidation # "valid" => outcome = ExpectedValidation
        /\ pc = "done" /\ ExpectedValidation = "valid" => outcome \notin ValidationErrors

\* The --topic help (events.rs:45-47) and the InvalidTopicFilter message
\* (events.rs:87) say a topic filter has 1-4 segments: no filter with more
\* than four segments is ever sent to getEvents.
TopicsWithinDocumentedLimit ==
    queried => \A t \in 1..Len(topics) : Len(topics[t]) <= 4
=============================================================================
