----------------------------- MODULE EventsProofs -----------------------------
(* Proofs about `soroban events` (Events), for every set of topic filters   *)
(* and every bound on the number of filters, ids and returned events.       *)
EXTENDS Events, TLAPS

-----------------------------------------------------------------------------
(* Type correctness. *)

(* A function on 1..n into S is a sequence over S. *)
LEMMA FunIsSeq ==
    ASSUME NEW S, NEW n \in Nat, NEW f \in [1 .. n -> S]
    PROVE  f \in Seq(S)
OBVIOUS

(* TypeOK is not inductive by itself: getEvents may return fewer events    *)
(* than some count, so the count of printed events must be known to be 0   *)
(* until the print loop starts.                                            *)
TypeInv == TypeOK /\ (pc \notin {"print", "done"} => printed = 0)

(* The numeric bounds, apart from the topic filters of the assumption. *)
LEMMA BoundsNat == MaxTopics \in Nat /\ MaxIds \in Nat /\ MaxEvents \in Nat
BY EventsAssumption

LEMMA InitTypeOK == Init => TypeInv
<1> SUFFICES ASSUME Init PROVE TypeInv
  BY DEF TypeInv
<1>0. /\ ti = 1 /\ si = 1 /\ ii = 1 /\ pc = "topics" /\ outcome = "none"
      /\ queried = FALSE /\ nEvents = 0 /\ printed = 0
  BY Zenon DEF Init
<1>1. topics \in Seq(Seq(Segments))
  <2>1. PICK n \in 0 .. MaxTopics : topics \in [1 .. n -> TopicFilters]
    BY DEF Init
  <2>2. TopicFilters \subseteq Seq(Segments)
    BY EventsAssumption
  <2>3. QED
    BY <2>1, <2>2, FunIsSeq, EventsAssumption
<1>2. ids \in Seq(IdKinds)
  <2>1. PICK n \in 0 .. MaxIds : ids \in [1 .. n -> IdKinds]
    BY DEF Init
  <2>2. QED
    BY <2>1, FunIsSeq, EventsAssumption
<1>3. ti \in 1 .. Len(topics) + 1 /\ ii \in 1 .. Len(ids) + 1
  BY <1>0, <1>1, <1>2
<1>4. si \in Nat \ {0} /\ pc \in Stages /\ outcome \in Outcomes
  BY <1>0 DEF Stages, Outcomes, ValidationErrors
<1>5. queried \in BOOLEAN
  BY <1>0
<1>6. nEvents \in 0 .. MaxEvents /\ printed \in 0 .. nEvents /\ printed = 0
  BY <1>0, BoundsNat
<1>7. QED
  BY <1>1, <1>2, <1>3, <1>4, <1>5, <1>6 DEF TypeOK, TypeInv

LEMMA NextTypeOK == TypeInv /\ [Next]_vars => TypeInv'
<1> SUFFICES ASSUME TypeInv, [Next]_vars PROVE TypeInv'
  OBVIOUS
<1> USE DEF TypeInv, TypeOK, Finish, Stages, Outcomes, ValidationErrors
<1>1. CASE CheckSegment
  <2>1. /\ pc = "topics" /\ ti <= Len(topics) /\ si <= Len(topics[ti])
        /\ UNCHANGED <<topics, ids, ti, ii, queried, nEvents, printed>>
    BY <1>1 DEF CheckSegment
  <2>2. CASE Finish("invalidTopicFilter") /\ UNCHANGED si
    BY <2>1, <2>2
  <2>3. CASE Finish("invalidSegment") /\ UNCHANGED si
    BY <2>1, <2>3
  <2>4. CASE si' = si + 1 /\ UNCHANGED <<pc, outcome>>
    BY <2>1, <2>4
  <2>5. QED
    BY <1>1, <2>2, <2>3, <2>4 DEF CheckSegment
<1>2. CASE NextTopic
  BY <1>2 DEF NextTopic
<1>3. CASE EndTopics
  BY <1>3 DEF EndTopics
<1>4. CASE CheckId
  BY <1>4 DEF CheckId
<1>5. CASE GetNetwork
  BY <1>5 DEF GetNetwork
<1>6. CASE VerifyPassphrase
  BY <1>6 DEF VerifyPassphrase
<1>7. CASE GetEvents
  <2>1. CASE Finish("rpc") /\ UNCHANGED nEvents
    BY <1>7, <2>1 DEF GetEvents
  <2>2. CASE \E n \in 0 .. MaxEvents : nEvents' = n /\ pc' = "print" /\ UNCHANGED outcome
    <3>1. PICK n \in 0 .. MaxEvents : nEvents' = n /\ pc' = "print" /\ UNCHANGED outcome
      BY <2>2
    <3>2. QED
      BY <1>7, <3>1, BoundsNat DEF GetEvents
  <2>3. QED
    BY <1>7, <2>1, <2>2 DEF GetEvents
<1>8. CASE PrintEvent
  BY <1>8 DEF PrintEvent
<1>9. CASE PrintLatest
  BY <1>9 DEF PrintLatest
<1>10. CASE UNCHANGED vars
  BY <1>10 DEF vars
<1>11. QED
  BY <1>1, <1>2, <1>3, <1>4, <1>5, <1>6, <1>7, <1>8, <1>9, <1>10 DEF Next

(* Every state of `soroban events` is well typed: in particular the loop    *)
(* indices stay within one past their sequences, and the print loop never  *)
(* prints more events than the response holds (events.rs:172-194).          *)
THEOREM TypeCorrect == Spec => []TypeOK
<1>1. TypeInv => TypeOK
  BY DEF TypeInv
<1>2. QED
  BY <1>1, InitTypeOK, NextTypeOK, PTL DEF Spec

-----------------------------------------------------------------------------
(* The validation loops report what the reference ExpectedValidation        *)
(* reports (ValidationMatchesReference).                                     *)

(* The stages after validation and before the return. *)
Later == {"network", "verify", "query", "print"}

(* The first n contract ids are well formed. *)
IdsOK(n) == \A j \in 1 .. n : ids[j] = "ok"

(* The loop invariant of the validation.  While the topic loops run, no     *)
(* bad position lies before the cursor <<ti, si>>, and the cursor is at     *)
(* most one past the end of its filter; once they are done there is no bad *)
(* position; the id loop has passed only good ids; getEvents is called only  *)
(* on input without bad positions or ids; a finished run returned the        *)
(* reference's error, or ran on valid input.                                 *)
VInv ==
    /\ pc = "topics" =>
          /\ ii = 1
          /\ \A q \in BadPositions : ~Before(q, <<ti, si>>)
          /\ ti <= Len(topics) => si <= Len(topics[ti]) + 1
    /\ pc \in {"ids"} \cup Later => BadPositions = {}
    /\ pc = "ids" => IdsOK(ii - 1)
    /\ pc \in Later => IdsOK(Len(ids))
    /\ queried => BadPositions = {} /\ IdsOK(Len(ids))
    /\ pc = "done" =>
          /\ outcome \in ValidationErrors => outcome = ExpectedValidation
          /\ outcome \notin ValidationErrors => ExpectedValidation = "valid"

(* A position is a pair of a filter index and a segment index of it. *)
LEMMA PosShape ==
    ASSUME TypeOK, NEW q \in Positions
    PROVE  \E t \in 1 .. Len(topics) : \E s \in 1 .. Len(topics[t]) : q = <<t, s>>
BY DEF Positions

(* Input without bad positions or ids is valid. *)
LEMMA CleanIsValid ==
    ASSUME BadPositions = {}, IdsOK(Len(ids))
    PROVE  ExpectedValidation = "valid"
BY DEF ExpectedValidation, IdsOK

(* The minimal bad position: a bad position with no bad position before it *)
(* is the one the reference chooses.                                         *)
LEMMA FirstBad ==
    ASSUME TypeOK, NEW t \in 1 .. Len(topics), NEW s \in 1 .. Len(topics[t]),
           SegmentError(<<t, s>>) # "none",
           \A q \in BadPositions : ~Before(q, <<t, s>>)
    PROVE  ExpectedValidation = SegmentError(<<t, s>>)
<1> DEFINE c == <<t, s>>
           Least(q) == \A r \in BadPositions \ {q} : Before(q, r)
<1>1. c \in BadPositions
  BY DEF BadPositions, Positions
<1>2. Least(c)
  <2> SUFFICES ASSUME NEW r \in BadPositions, r # c PROVE Before(c, r)
    OBVIOUS
  <2>1. PICK t2 \in 1 .. Len(topics) : \E s2 \in 1 .. Len(topics[t2]) : r = <<t2, s2>>
    BY PosShape DEF BadPositions
  <2>2. PICK s2 \in 1 .. Len(topics[t2]) : r = <<t2, s2>>
    BY <2>1
  <2>3. ~Before(r, c)
    OBVIOUS
  <2>4. QED
    BY <2>2, <2>3 DEF Before, TypeOK
<1>3. (CHOOSE q \in BadPositions : Least(q)) = c
  <2> DEFINE d == CHOOSE q \in BadPositions : Least(q)
  <2>1. d \in BadPositions /\ Least(d)
    BY <1>1, <1>2, Zenon
  <2>2. SUFFICES ASSUME d # c PROVE FALSE
    OBVIOUS
  <2>3. Before(d, c)
    BY <1>1, <2>1, <2>2
  <2>4. QED
    BY <2>1, <2>3
<1>4. QED
  BY <1>1, <1>3 DEF ExpectedValidation

(* No step changes the input: the topic filters and the contract ids. *)
LEMMA InputConst ==
    ASSUME [Next]_vars
    PROVE  topics' = topics /\ ids' = ids
BY Zenon DEF Next, vars, CheckSegment, NextTopic, EndTopics, CheckId, GetNetwork,
             VerifyPassphrase, GetEvents, PrintEvent, PrintLatest

(* The reference depends on the input only. *)
LEMMA RefConst ==
    ASSUME topics' = topics, ids' = ids
    PROVE  /\ BadPositions' = BadPositions
           /\ ExpectedValidation' = ExpectedValidation
BY DEF BadPositions, Positions, SegmentError, Before, ExpectedValidation

LEMMA VInvInit == Init => VInv
<1> SUFFICES ASSUME Init PROVE VInv
  OBVIOUS
<1>1. ti = 1 /\ si = 1 /\ ii = 1 /\ pc = "topics" /\ queried = FALSE
  BY Zenon DEF Init
<1>2. \A q \in BadPositions : ~Before(q, <<1, 1>>)
  BY DEF BadPositions, Positions, Before
<1>3. QED
  BY <1>1, <1>2 DEF VInv, Later

(* A step that returns keeps the loop invariant when what it returns       *)
(* agrees with the reference.                                                *)
LEMMA DoneKeeps ==
    ASSUME VInv, topics' = topics, ids' = ids,
           BadPositions' = BadPositions, ExpectedValidation' = ExpectedValidation,
           pc' = "done", queried' = queried,
           outcome' \in ValidationErrors => outcome' = ExpectedValidation,
           outcome' \notin ValidationErrors => ExpectedValidation = "valid"
    PROVE  VInv'
BY DEF VInv, IdsOK, Later

(* A step of the stages after validation that returns a non-validation     *)
(* error, or "ok", keeps the loop invariant: the input was clean.           *)
LEMMA LaterDoneKeeps ==
    ASSUME VInv, pc \in Later, topics' = topics, ids' = ids,
           BadPositions' = BadPositions, ExpectedValidation' = ExpectedValidation,
           pc' = "done", queried' = queried, outcome' \notin ValidationErrors
    PROVE  VInv'
<1>1. ExpectedValidation = "valid"
  BY CleanIsValid DEF VInv
<1>2. QED
  BY <1>1, DoneKeeps

(* A step of the topic loops keeps the loop invariant when the cursor it    *)
(* moves to has no bad position before it and stays within its filter.     *)
LEMMA TopicsKeeps ==
    ASSUME VInv, topics' = topics, ids' = ids, BadPositions' = BadPositions,
           pc = "topics", pc' = "topics", ii' = ii, queried' = queried,
           \A q \in BadPositions : ~Before(q, <<ti', si'>>),
           ti' <= Len(topics) => si' <= Len(topics[ti']) + 1
    PROVE  VInv'
<1>1. ii' = 1
  BY DEF VInv
<1>2. queried => BadPositions = {} /\ IdsOK(Len(ids))
  BY DEF VInv
<1>3. QED
  BY <1>1, <1>2, Zenon DEF VInv, IdsOK, Later

(* On input of the documented shape, each step keeps the loop invariant: a *)
(* move of the cursor passes only a good position or a whole filter, and     *)
(* each return is the reference's.                                           *)
LEMMA VInvNext == TypeInv /\ VInv /\ DocumentedShape /\ [Next]_vars => VInv'
<1> SUFFICES ASSUME TypeInv, VInv, DocumentedShape, [Next]_vars PROVE VInv'
  OBVIOUS
<1>0. topics' = topics /\ ids' = ids
  BY InputConst
<1>1. BadPositions' = BadPositions /\ ExpectedValidation' = ExpectedValidation
  BY <1>0, RefConst
<1>2. CASE CheckSegment
  <2>1. /\ pc = "topics" /\ ti \in 1 .. Len(topics) /\ si \in 1 .. Len(topics[ti])
        /\ UNCHANGED <<ti, ii, queried>>
    BY <1>2 DEF CheckSegment, TypeInv, TypeOK
  <2>2. \A q \in BadPositions : ~Before(q, <<ti, si>>)
    BY <2>1 DEF VInv
  <2>3. topics[ti][si] \in Segments
    BY <2>1 DEF TypeInv, TypeOK
  <2>0. si <= DocumentedSegments
    BY <2>1 DEF DocumentedShape, DocumentedSegments
  (* The code's limit, the sixth segment, is never reached on such input. *)
  <2>4. CASE si - 1 > 4 /\ Finish("invalidTopicFilter") /\ UNCHANGED si
    BY <2>0, <2>1, <2>4 DEF DocumentedSegments
  <2>5. CASE /\ si - 1 <= 4 /\ topics[ti][si] # "*" /\ ~IsScVal(topics[ti][si])
             /\ Finish("invalidSegment") /\ UNCHANGED si
    <3>1. SegmentError(<<ti, si>>) = "invalidSegment"
      BY <2>0, <2>1, <2>3, <2>5 DEF SegmentError, IsScVal, Segments, DocumentedSegments
    <3>2. ExpectedValidation = "invalidSegment"
      BY <2>1, <2>2, <3>1, FirstBad DEF TypeInv
    <3>3. QED
      BY <1>0, <1>1, <2>1, <2>5, <3>2, DoneKeeps DEF Finish, ValidationErrors
  <2>6. CASE /\ si - 1 <= 4 /\ (topics[ti][si] = "*" \/ IsScVal(topics[ti][si]))
             /\ si' = si + 1 /\ UNCHANGED <<pc, outcome>>
    <3>1. <<ti, si>> \notin BadPositions
      BY <2>0, <2>1, <2>6 DEF BadPositions, SegmentError, IsScVal, DocumentedSegments
    <3>2. \A q \in BadPositions : ~Before(q, <<ti, si + 1>>)
      <4> SUFFICES ASSUME NEW q \in BadPositions, Before(q, <<ti, si + 1>>) PROVE FALSE
        OBVIOUS
      <4>1. PICK t \in 1 .. Len(topics) : \E s \in 1 .. Len(topics[t]) : q = <<t, s>>
        BY PosShape DEF BadPositions, TypeInv
      <4>2. PICK s \in 1 .. Len(topics[t]) : q = <<t, s>>
        BY <4>1
      <4>3. q # <<ti, si>>
        BY <3>1
      <4>4. Before(q, <<ti, si>>)
        BY <2>1, <4>2, <4>3 DEF Before
      <4>5. QED
        BY <2>2, <4>4
    <3>3. si + 1 <= Len(topics[ti]) + 1
      BY <2>1 DEF TypeInv, TypeOK
    <3>4. QED
      BY <1>0, <1>1, <2>1, <2>6, <3>2, <3>3, TopicsKeeps
  <2>7. QED
    BY <1>2, <2>4, <2>5, <2>6 DEF CheckSegment
<1>3. CASE NextTopic
  <2>1. /\ pc = "topics" /\ ti \in 1 .. Len(topics) /\ si > Len(topics[ti])
        /\ ti' = ti + 1 /\ si' = 1 /\ UNCHANGED <<ii, pc, outcome, queried>>
    BY <1>3 DEF NextTopic, TypeInv, TypeOK
  <2>2. \A q \in BadPositions : ~Before(q, <<ti + 1, 1>>)
    <3> SUFFICES ASSUME NEW q \in BadPositions, Before(q, <<ti + 1, 1>>) PROVE FALSE
      OBVIOUS
    <3>1. PICK t \in 1 .. Len(topics) : \E s \in 1 .. Len(topics[t]) : q = <<t, s>>
      BY PosShape DEF BadPositions, TypeInv
    <3>2. PICK s \in 1 .. Len(topics[t]) : q = <<t, s>>
      BY <3>1
    <3>3. Before(q, <<ti, si>>)
      BY <2>1, <3>2 DEF Before, TypeInv, TypeOK
    <3>4. QED
      BY <2>1, <3>3 DEF VInv
  <2>3. ti + 1 <= Len(topics) => 1 <= Len(topics[ti + 1]) + 1
    BY <2>1 DEF TypeInv, TypeOK
  <2>4. QED
    BY <1>0, <1>1, <2>1, <2>2, <2>3, TopicsKeeps
<1>4. CASE EndTopics
  <2>1. /\ pc = "topics" /\ ti > Len(topics) /\ pc' = "ids"
        /\ UNCHANGED <<ti, si, ii, outcome, queried>>
    BY <1>4 DEF EndTopics
  <2>2. BadPositions = {}
    <3> SUFFICES ASSUME NEW q \in BadPositions PROVE FALSE
      OBVIOUS
    <3>1. PICK t \in 1 .. Len(topics) : \E s \in 1 .. Len(topics[t]) : q = <<t, s>>
      BY PosShape DEF BadPositions, TypeInv
    <3>2. Before(q, <<ti, si>>)
      BY <2>1, <3>1 DEF Before, TypeInv, TypeOK
    <3>3. QED
      BY <2>1, <3>2 DEF VInv
  <2>3. ii = 1
    BY <2>1 DEF VInv
  <2>4. QED
    BY <1>0, <1>1, <2>1, <2>2, <2>3 DEF VInv, IdsOK, Later
<1>5. CASE CheckId
  <2>1. /\ pc = "ids" /\ UNCHANGED queried /\ BadPositions = {} /\ IdsOK(ii - 1)
        /\ ii \in 1 .. Len(ids) + 1
    BY <1>5 DEF CheckId, VInv, TypeInv, TypeOK
  <2>2. CASE ii <= Len(ids) /\ ids[ii] = "bad" /\ Finish("invalidContractId")
    <3>1. ExpectedValidation = "invalidContractId"
      BY <2>1, <2>2 DEF ExpectedValidation
    <3>2. QED
      BY <1>0, <1>1, <2>1, <2>2, <3>1, DoneKeeps DEF Finish, ValidationErrors
  <2>3. CASE ii <= Len(ids) /\ ids[ii] = "ok" /\ ii' = ii + 1 /\ UNCHANGED <<pc, outcome>>
    <3>1. IdsOK(ii)
      BY <2>1, <2>3 DEF IdsOK
    <3>2. QED
      BY <1>0, <1>1, <2>1, <2>3, <3>1 DEF VInv, IdsOK, Later
  <2>4. CASE ii > Len(ids) /\ pc' = "network" /\ UNCHANGED <<ii, outcome>>
    <3>1. IdsOK(Len(ids))
      BY <2>1, <2>4 DEF IdsOK
    <3>2. QED
      BY <1>0, <1>1, <2>1, <2>4, <3>1 DEF VInv, IdsOK, Later
  <2>5. QED
    BY <1>5, <2>2, <2>3, <2>4 DEF CheckId
<1>6. CASE GetNetwork
  <2>1. pc = "network" /\ UNCHANGED queried
    BY <1>6 DEF GetNetwork
  <2>2. CASE Finish("network")
    BY <1>0, <1>1, <2>1, <2>2, LaterDoneKeeps DEF Finish, Later, ValidationErrors
  <2>3. CASE pc' = "verify" /\ UNCHANGED outcome
    BY <1>0, <1>1, <2>1, <2>3 DEF VInv, IdsOK, Later
  <2>4. QED
    BY <1>6, <2>2, <2>3 DEF GetNetwork
<1>7. CASE VerifyPassphrase
  <2>1. pc = "verify" /\ UNCHANGED queried
    BY <1>7 DEF VerifyPassphrase
  <2>2. CASE Finish("rpc")
    BY <1>0, <1>1, <2>1, <2>2, LaterDoneKeeps DEF Finish, Later, ValidationErrors
  <2>3. CASE pc' = "query" /\ UNCHANGED outcome
    BY <1>0, <1>1, <2>1, <2>3 DEF VInv, IdsOK, Later
  <2>4. QED
    BY <1>7, <2>2, <2>3 DEF VerifyPassphrase
<1>8. CASE GetEvents
  <2>1. pc = "query" /\ queried' = TRUE /\ BadPositions = {} /\ IdsOK(Len(ids))
    BY <1>8 DEF GetEvents, VInv, Later
  <2>2. CASE Finish("rpc") /\ UNCHANGED nEvents
    <3>1. ExpectedValidation = "valid"
      BY <2>1, CleanIsValid
    <3>2. QED
      BY <1>0, <1>1, <2>1, <2>2, <3>1 DEF VInv, IdsOK, Later, Finish, ValidationErrors
  <2>3. CASE \E n \in 0 .. MaxEvents : nEvents' = n /\ pc' = "print" /\ UNCHANGED outcome
    BY <1>0, <1>1, <2>1, <2>3 DEF VInv, IdsOK, Later
  <2>4. QED
    BY <1>8, <2>2, <2>3 DEF GetEvents
<1>9. CASE PrintEvent
  <2>1. pc = "print" /\ UNCHANGED queried
    BY <1>9 DEF PrintEvent
  <2>2. CASE Finish("output") /\ UNCHANGED printed
    BY <1>0, <1>1, <2>1, <2>2, LaterDoneKeeps DEF Finish, Later, ValidationErrors
  <2>3. CASE printed' = printed + 1 /\ UNCHANGED <<pc, outcome>>
    BY <1>0, <1>1, <2>1, <2>3 DEF VInv, IdsOK, Later
  <2>4. QED
    BY <1>9, <2>2, <2>3 DEF PrintEvent
<1>10. CASE PrintLatest
  <2>1. pc = "print" /\ UNCHANGED queried /\ Finish("ok")
    BY <1>10 DEF PrintLatest
  <2>2. QED
    BY <1>0, <1>1, <2>1, LaterDoneKeeps DEF Finish, Later, ValidationErrors
<1>11. CASE pc = "done" /\ UNCHANGED vars
  BY <1>0, <1>1, <1>11 DEF vars, VInv, IdsOK
<1>12. CASE UNCHANGED vars
  BY <1>0, <1>1, <1>12 DEF vars, VInv, IdsOK
<1>13. QED
  BY <1>2, <1>3, <1>4, <1>5, <1>6, <1>7, <1>8, <1>9, <1>10, <1>11, <1>12 DEF Next

(* The loop invariant holds on every input of the documented shape; the     *)
(* shape is a property of the input, which no step changes.                  *)
DInv == DocumentedShape => VInv

LEMMA DInvNext == TypeInv /\ DInv /\ [Next]_vars => DInv'
<1> SUFFICES ASSUME TypeInv, DInv, [Next]_vars PROVE DInv'
  OBVIOUS
<1>1. DocumentedShape' = DocumentedShape
  BY InputConst DEF DocumentedShape
<1>2. CASE DocumentedShape
  BY <1>1, <1>2, VInvNext DEF DInv
<1>3. CASE ~DocumentedShape
  BY <1>1, <1>3 DEF DInv
<1>4. QED
  BY <1>2, <1>3

(* Whatever topic filters of 1-4 segments and contract ids `soroban events`  *)
(* is given, the validation loops of Cmd::run (events.rs:142-168) never let  *)
(* getEvents see input the documented validation rejects, and a run that    *)
(* returns reports exactly the reference's error: the first bad segment in  *)
(* argument order, else the first bad contract id; a valid input never      *)
(* yields a validation error.                                                *)
THEOREM ValidationMatchesReferenceHolds == Spec => []ValidationMatchesReference
<1>1. Init => TypeInv /\ DInv
  BY InitTypeOK, VInvInit DEF DInv
<1>2. TypeInv /\ DInv /\ [Next]_vars => (TypeInv /\ DInv)'
  BY NextTypeOK, DInvNext
<1>3. DInv => ValidationMatchesReference
  <2> SUFFICES ASSUME VInv, DocumentedShape
               PROVE  /\ queried => ExpectedValidation = "valid"
                      /\ pc = "done" /\ ExpectedValidation # "valid"
                            => outcome = ExpectedValidation
                      /\ pc = "done" /\ ExpectedValidation = "valid"
                            => outcome \notin ValidationErrors
    BY DEF DInv, ValidationMatchesReference
  <2>1. queried => ExpectedValidation = "valid"
    BY CleanIsValid DEF VInv
  <2>2. pc = "done" /\ ExpectedValidation # "valid" => outcome = ExpectedValidation
    BY DEF VInv
  <2>3. pc = "done" /\ ExpectedValidation = "valid" => outcome \notin ValidationErrors
    BY DEF VInv, ValidationErrors
  <2>4. QED
    BY <2>1, <2>2, <2>3
<1>4. QED
  BY <1>1, <1>2, <1>3, PTL DEF Spec
=============================================================================
