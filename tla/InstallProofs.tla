---------------------------- MODULE InstallProofs ---------------------------
(* Proofs about the install pipeline of Install, for every value of the    *)
(* constants that satisfies its assumptions.                               *)
EXTENDS Install, TLAPS

-----------------------------------------------------------------------------
(* Type correctness. *)

LEMMA InitTypeOK == Init => TypeOK
BY DEF Init, TypeOK, Outcomes, Stages

(* A function that is either unchanged or updated at one point with a     *)
(* value of its range stays in its function set; a sequence that is either *)
(* unchanged or extended by an element of S stays in Seq(S).               *)
LEMMA MaybeExcept ==
    ASSUME NEW S, NEW T, NEW f \in [S -> T], NEW g, NEW x \in S, NEW v \in T,
           g = f \/ g = [f EXCEPT ![x] = v]
    PROVE  g \in [S -> T]
<1>1. CASE g = f
  BY <1>1
<1>2. CASE g = [f EXCEPT ![x] = v]
  BY <1>2
<1>3. QED
  BY <1>1, <1>2

LEMMA MaybeAppend ==
    ASSUME NEW S, NEW f \in Seq(S), NEW g, NEW x \in S,
           g = f \/ g = Append(f, x)
    PROVE  g \in Seq(S)
<1>1. CASE g = f
  BY <1>1
<1>2. CASE g = Append(f, x)
  BY <1>2
<1>3. QED
  BY <1>1, <1>2

(* Finish and Goto keep pc and outcome well typed. *)
LEMMA FinishTypeOK ==
    ASSUME TypeOK, NEW p \in Procs, NEW o \in Outcomes, Finish(p, o)
    PROVE  pc' \in [Procs -> Stages] /\ outcome' \in [Procs -> Outcomes]
BY DEF TypeOK, Finish, Stages

LEMMA GotoTypeOK ==
    ASSUME TypeOK, NEW p \in Procs, NEW s \in Stages, Goto(p, s)
    PROVE  pc' \in [Procs -> Stages] /\ outcome' \in [Procs -> Outcomes]
BY DEF TypeOK, Goto

(* The wasm an invocation installs is one of Wasms. *)
LEMMA WasmOK ==
    ASSUME TypeOK, NEW p \in Procs
    PROVE  req[p].wasm \in Wasms
BY RequestsAssumption DEF TypeOK, Request

(* Every step of one invocation preserves the type: pc and outcome by the  *)
(* lemmas above, each other variable that the action may change by        *)
(* MaybeExcept or MaybeAppend.                                              *)
LEMMA StepTypeOK ==
    ASSUME TypeOK, NEW p \in Procs, Step(p)
    PROVE  TypeOK'
<1> DEFINE PcOK == pc' \in [Procs -> Stages] /\ outcome' \in [Procs -> Outcomes]
           w == req[p].wasm
<1>1. PcOK
  <2> "networkErr" \in Outcomes /\ "refused" \in Outcomes /\ "txn" \in Outcomes
      /\ "res" \in Outcomes /\ "simErr" \in Outcomes /\ "badSeq" \in Outcomes
      /\ "txFailed" \in Outcomes /\ "cacheErr" \in Outcomes
      /\ "restoreFailed" \in Outcomes /\ "restoreBadSeq" \in Outcomes
    BY DEF Outcomes
  <2> "account" \in Stages /\ "entries" \in Stages /\ "simulate" \in Stages
      /\ "submit" \in Stages /\ "cacheResp" \in Stages /\ "writeSpec" \in Stages
      /\ "restoreAccount" \in Stages /\ "restoreSubmit" \in Stages
    BY DEF Stages
  <2> QED
    BY FinishTypeOK, GotoTypeOK, Zenon
       DEF Step, VerifyNetwork, GetAccount, GetLedgerEntries, Simulate, Submit,
           WriteTxCache, RestoreGetAccount, RestoreSubmit, WriteSpec
<1>0. /\ Len(txLog) \in Nat /\ Len(txLog) + 1 \in Nat
      /\ w \in Wasms
      /\ "live" \in CodeStatus
  BY WasmOK DEF TypeOK, CodeStatus
<1> USE <1>1
<1>2. CASE VerifyNetwork(p)
  BY <1>2 DEF VerifyNetwork, TypeOK
<1>3. CASE GetAccount(p) \/ RestoreGetAccount(p)
  <2>1. /\ readSeq' = readSeq \/ readSeq' = [readSeq EXCEPT ![p] = Len(txLog)]
        /\ txSeq' = txSeq \/ txSeq' = [txSeq EXCEPT ![p] = Len(txLog) + 1]
    BY <1>3, Zenon DEF GetAccount, RestoreGetAccount, AcctSeq
  <2>2. readSeq' \in [Procs -> Nat]
    <3>1. CASE readSeq' = readSeq
      BY <3>1 DEF TypeOK
    <3>2. CASE readSeq' = [readSeq EXCEPT ![p] = Len(txLog)]
      BY <3>2, <1>0 DEF TypeOK
    <3>3. QED
      BY <2>1, <3>1, <3>2
  <2>3. txSeq' \in [Procs -> Nat]
    <3>1. CASE txSeq' = txSeq
      BY <3>1 DEF TypeOK
    <3>2. CASE txSeq' = [txSeq EXCEPT ![p] = Len(txLog) + 1]
      BY <3>2, <1>0 DEF TypeOK
    <3>3. QED
      BY <2>1, <3>1, <3>2
  <2>4. UNCHANGED <<txLog, codeStatus, codeExt, req, resp, observedLive, cacheLog>>
    BY <1>3 DEF GetAccount, RestoreGetAccount
  <2>5. QED
    BY <2>2, <2>3, <2>4 DEF TypeOK
<1>4. CASE GetLedgerEntries(p)
  BY <1>4 DEF GetLedgerEntries, TypeOK
<1>5. CASE Simulate(p)
  BY <1>5 DEF Simulate, TypeOK
<1>6. CASE Submit(p)
  <2>1. /\ txLog' = txLog \/ txLog' = Append(txLog, p)
        /\ codeStatus' = codeStatus
           \/ codeStatus' = [codeStatus EXCEPT ![w] = "live"]
        /\ codeExt' = codeExt \/ codeExt' = [codeExt EXCEPT ![w] = "V1"]
        /\ \/ resp' = resp
           \/ resp' = [resp EXCEPT ![p] = "internal"]
           \/ resp' = [resp EXCEPT ![p] = "success"]
        /\ \/ observedLive' = observedLive
           \/ observedLive' = [observedLive EXCEPT ![p] = TRUE]
           \/ observedLive' = [observedLive EXCEPT ![p] = FALSE]
    BY <1>6, Zenon DEF Submit
  <2>2. txLog' \in Seq(Procs)
    BY <2>1, MaybeAppend, Zenon DEF TypeOK
  <2>3. codeStatus' \in [Wasms -> CodeStatus]
    <3>1. CASE codeStatus' = codeStatus
      BY <3>1 DEF TypeOK
    <3>2. CASE codeStatus' = [codeStatus EXCEPT ![w] = "live"]
      BY <3>2, <1>0 DEF TypeOK
    <3>3. QED
      BY <2>1, <3>1, <3>2
  <2>4. codeExt' \in [Wasms -> {"V0", "V1"}]
    BY <2>1, <1>0, MaybeExcept, Zenon DEF TypeOK
  <2>5. resp' \in [Procs -> {"none", "success", "internal"}]
    <3>1. CASE resp' = resp
      BY <3>1 DEF TypeOK
    <3>2. CASE resp' = [resp EXCEPT ![p] = "internal"]
      BY <3>2 DEF TypeOK
    <3>3. CASE resp' = [resp EXCEPT ![p] = "success"]
      BY <3>3 DEF TypeOK
    <3>4. QED
      BY <2>1, <3>1, <3>2, <3>3
  <2>6. observedLive' \in [Procs -> BOOLEAN]
    <3>1. CASE observedLive' = observedLive
      BY <3>1 DEF TypeOK
    <3>2. CASE observedLive' = [observedLive EXCEPT ![p] = TRUE]
      BY <3>2 DEF TypeOK
    <3>3. CASE observedLive' = [observedLive EXCEPT ![p] = FALSE]
      BY <3>3 DEF TypeOK
    <3>4. QED
      BY <2>1, <3>1, <3>2, <3>3
  <2>7. UNCHANGED <<req, readSeq, txSeq, cacheLog>>
    BY <1>6 DEF Submit
  <2>8. QED
    BY <2>2, <2>3, <2>4, <2>5, <2>6, <2>7 DEF TypeOK
<1>7. CASE WriteTxCache(p)
  BY <1>7 DEF WriteTxCache, TypeOK
<1>8. CASE RestoreSubmit(p)
  <2>1. /\ txLog' = txLog \/ txLog' = Append(txLog, p)
        /\ codeStatus' = codeStatus
           \/ codeStatus' = [codeStatus EXCEPT ![w] = "live"]
        /\ observedLive' = observedLive
           \/ observedLive' = [observedLive EXCEPT ![p] = TRUE]
    BY <1>8, Zenon DEF RestoreSubmit
  <2>2. txLog' \in Seq(Procs)
    BY <2>1, MaybeAppend, Zenon DEF TypeOK
  <2>3. codeStatus' \in [Wasms -> CodeStatus]
    <3>1. CASE codeStatus' = codeStatus
      BY <3>1 DEF TypeOK
    <3>2. CASE codeStatus' = [codeStatus EXCEPT ![w] = "live"]
      BY <3>2, <1>0 DEF TypeOK
    <3>3. QED
      BY <2>1, <3>1, <3>2
  <2>4. observedLive' \in [Procs -> BOOLEAN]
    <3>1. CASE observedLive' = observedLive
      BY <3>1 DEF TypeOK
    <3>2. CASE observedLive' = [observedLive EXCEPT ![p] = TRUE]
      BY <3>2 DEF TypeOK
    <3>3. QED
      BY <2>1, <3>1, <3>2
  <2>5. UNCHANGED <<codeExt, req, readSeq, txSeq, resp, cacheLog>>
    BY <1>8 DEF RestoreSubmit
  <2>6. QED
    BY <2>2, <2>3, <2>4, <2>5 DEF TypeOK
<1>9. CASE WriteSpec(p)
  BY <1>9 DEF WriteSpec, TypeOK
<1>10. QED
  BY <1>2, <1>3, <1>4, <1>5, <1>6, <1>7, <1>8, <1>9 DEF Step

LEMMA NextTypeOK == TypeOK /\ [Next]_vars => TypeOK'
<1> SUFFICES ASSUME TypeOK, [Next]_vars PROVE TypeOK'
  OBVIOUS
<1>1. CASE \E p \in Procs : Step(p)
  BY <1>1, StepTypeOK
<1>2. CASE \E w \in Wasms : Expire(w)
  BY <1>2 DEF Expire, TypeOK, CodeStatus
<1>3. CASE UNCHANGED vars
  BY <1>3 DEF vars, TypeOK
<1>4. QED
  BY <1>1, <1>2, <1>3 DEF Next

(* Every state of the specification is well typed. *)
THEOREM TypeCorrect == Spec => []TypeOK
BY InitTypeOK, NextTypeOK, PTL DEF Spec

-----------------------------------------------------------------------------
(* The install reports a hash only for a live code entry (ResImpliesLive), *)
(* when getLedgerEntries returns live entries only.                        *)

(* Finish and Goto change pc and outcome at one invocation only. *)
LEMMA FinishFrame ==
    ASSUME TypeOK, NEW p \in Procs, NEW q \in Procs, q # p, NEW o, Finish(p, o)
    PROVE  pc'[q] = pc[q] /\ outcome'[q] = outcome[q]
BY DEF TypeOK, Finish

LEMMA GotoFrame ==
    ASSUME TypeOK, NEW p \in Procs, NEW q \in Procs, q # p, NEW s, Goto(p, s)
    PROVE  pc'[q] = pc[q] /\ outcome'[q] = outcome[q]
BY DEF TypeOK, Goto

(* A step of p leaves what LiveAt(q) reads of another invocation q alone. *)
LEMMA StepFrame ==
    ASSUME TypeOK, NEW p \in Procs, Step(p), NEW q \in Procs, q # p
    PROVE  /\ pc'[q] = pc[q]
           /\ outcome'[q] = outcome[q]
           /\ resp'[q] = resp[q]
           /\ observedLive'[q] = observedLive[q]
<1>1. pc'[q] = pc[q] /\ outcome'[q] = outcome[q]
  BY FinishFrame, GotoFrame, Zenon
     DEF Step, VerifyNetwork, GetAccount, GetLedgerEntries, Simulate, Submit,
         WriteTxCache, RestoreGetAccount, RestoreSubmit, WriteSpec
<1>2. resp'[q] = resp[q]
  <2>1. \/ resp' = resp
        \/ resp' = [resp EXCEPT ![p] = "internal"]
        \/ resp' = [resp EXCEPT ![p] = "success"]
    BY Zenon
       DEF Step, VerifyNetwork, GetAccount, GetLedgerEntries, Simulate, Submit,
           WriteTxCache, RestoreGetAccount, RestoreSubmit, WriteSpec
  <2>2. CASE resp' = resp
    BY <2>2
  <2>3. CASE resp' = [resp EXCEPT ![p] = "internal"]
    BY <2>3 DEF TypeOK
  <2>4. CASE resp' = [resp EXCEPT ![p] = "success"]
    BY <2>4 DEF TypeOK
  <2>5. QED
    BY <2>1, <2>2, <2>3, <2>4
<1>3. observedLive'[q] = observedLive[q]
  <2>1. \/ observedLive' = observedLive
        \/ \E b : observedLive' = [observedLive EXCEPT ![p] = b]
    BY Zenon
       DEF Step, VerifyNetwork, GetAccount, GetLedgerEntries, Simulate, Submit,
           WriteTxCache, RestoreGetAccount, RestoreSubmit, WriteSpec
  <2>2. CASE observedLive' = observedLive
    BY <2>2
  <2>3. CASE \E b : observedLive' = [observedLive EXCEPT ![p] = b]
    BY <2>3 DEF TypeOK
  <2>4. QED
    BY <2>1, <2>2, <2>3
<1>4. QED
  BY <1>1, <1>2, <1>3

(* A step of p keeps LiveAt(p). *)
LEMMA StepLiveSelf ==
    ASSUME TypeOK, ~RpcReturnsArchived, NEW p \in Procs, LiveAt(p), Step(p)
    PROVE  LiveAt(p)'
<1> USE DEF LiveAt, TypeOK, Finish, Goto
<1>1. CASE VerifyNetwork(p)
  BY <1>1 DEF VerifyNetwork
<1>2. CASE GetAccount(p)
  BY <1>2 DEF GetAccount
<1>3. CASE GetLedgerEntries(p)
  BY <1>3 DEF GetLedgerEntries, EntryVisible
<1>4. CASE Simulate(p)
  BY <1>4 DEF Simulate
<1>5. CASE Submit(p)
  <2> DEFINE w == req[p].wasm
  <2>1. w \in Wasms
    BY WasmOK
  <2>2. CASE codeStatus[w] = "archived"
    BY <1>5, <2>1, <2>2 DEF Submit
  <2>3. CASE codeStatus[w] # "archived"
    BY <1>5, <2>1, <2>3 DEF Submit
  <2>4. QED
    BY <2>2, <2>3
<1>6. CASE WriteTxCache(p)
  BY <1>6 DEF WriteTxCache
<1>7. CASE RestoreGetAccount(p)
  BY <1>7 DEF RestoreGetAccount
<1>8. CASE RestoreSubmit(p)
  BY <1>8 DEF RestoreSubmit
<1>9. CASE WriteSpec(p)
  BY <1>9 DEF WriteSpec
<1>10. QED
  BY <1>1, <1>2, <1>3, <1>4, <1>5, <1>6, <1>7, <1>8, <1>9 DEF Step

LEMMA LiveInvInit == Init => LiveInv
BY DEF Init, LiveInv, LiveAt

LEMMA LiveInvNext ==
    ASSUME ~RpcReturnsArchived
    PROVE  TypeOK /\ LiveInv /\ [Next]_vars => LiveInv'
<1> SUFFICES ASSUME TypeOK, LiveInv, [Next]_vars, NEW q \in Procs
             PROVE  LiveAt(q)'
  BY DEF LiveInv
<1>1. CASE \E p \in Procs : Step(p)
  <2>1. PICK p \in Procs : Step(p)
    BY <1>1
  <2>2. CASE q = p
    BY <2>1, <2>2, StepLiveSelf DEF LiveInv
  <2>3. CASE q # p
    <3>1. LiveAt(q)
      BY DEF LiveInv
    <3>2. QED
      BY <2>1, <2>3, <3>1, StepFrame DEF LiveAt
  <2>4. QED
    BY <2>2, <2>3
<1>2. CASE \E w \in Wasms : Expire(w)
  BY <1>2 DEF Expire, LiveInv, LiveAt
<1>3. CASE UNCHANGED vars
  BY <1>3 DEF vars, LiveInv, LiveAt
<1>4. QED
  BY <1>1, <1>2, <1>3 DEF Next

(* When getLedgerEntries returns live code entries only, an install that   *)
(* reports the hash (the idempotency skip, a fresh upload, or an upload    *)
(* that hit TxInternalError followed by a restore) always leaves the code  *)
(* entry live at its last ledger step.                                     *)
THEOREM ResImpliesLiveHolds ==
    ASSUME ~RpcReturnsArchived
    PROVE  Spec => []ResImpliesLive
<1>1. Init => TypeOK /\ LiveInv
  BY InitTypeOK, LiveInvInit
<1>2. TypeOK /\ LiveInv /\ [Next]_vars => TypeOK' /\ LiveInv'
  BY NextTypeOK, LiveInvNext
<1>3. LiveInv => ResImpliesLive
  BY DEF LiveInv, LiveAt, ResImpliesLive
<1>4. QED
  BY <1>1, <1>2, <1>3, PTL DEF Spec

=============================================================================
