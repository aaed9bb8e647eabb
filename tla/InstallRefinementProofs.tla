----------------------- MODULE InstallRefinementProofs -----------------------
(* Proofs that every ledger transaction of Install is permitted by the      *)
(* command line that sent it, and that Install implements its abstract      *)
(* contract InstallContract, for every value of the constants.              *)
EXTENDS InstallProofs

-----------------------------------------------------------------------------
(* The flags an invocation has passed on its way through the pipeline: past *)
(* VerifyNetwork the rc gate did not refuse it, past GetAccount it is not   *)
(* --build-only, past Simulate (or on the path that skips it) it is not     *)
(* --sim-only; and it returns a transaction only for one of those flags.    *)
PermAt(p) ==
    /\ pc[p] \notin {"verify", "done"} => ~RcRefused(p)
    /\ pc[p] \notin {"verify", "account", "done"} => ~req[p].buildOnly
    /\ pc[p] \notin {"verify", "account", "simulate", "done"} => ~req[p].simOnly
    /\ outcome[p] = "txn" => req[p].buildOnly \/ req[p].simOnly

PermInv == \A p \in Procs : PermAt(p)

(* No step of an invocation changes a command line. *)
LEMMA StepReq ==
    ASSUME NEW p \in Procs, Step(p)
    PROVE  req' = req
BY DEF Step, VerifyNetwork, GetAccount, GetLedgerEntries, Simulate, Submit,
       WriteTxCache, RestoreGetAccount, RestoreSubmit, WriteSpec

LEMMA PermInvInit == Init => PermInv
BY DEF Init, PermInv, PermAt

(* A step of p keeps PermAt(p): each move forward is guarded by the flag    *)
(* the next stage needs.                                                    *)
LEMMA StepPermSelf ==
    ASSUME TypeOK, NEW p \in Procs, PermAt(p), Step(p)
    PROVE  PermAt(p)'
<1> USE StepReq DEF PermAt, RcRefused, Finish, Goto, TypeOK
<1>1. CASE VerifyNetwork(p)
  BY <1>1 DEF VerifyNetwork
<1>2. CASE GetAccount(p)
  BY <1>2 DEF GetAccount
<1>3. CASE GetLedgerEntries(p)
  BY <1>3 DEF GetLedgerEntries
<1>4. CASE Simulate(p)
  BY <1>4 DEF Simulate
<1>5. CASE Submit(p)
  BY <1>5 DEF Submit
<1>6. CASE WriteTxCache(p)
  BY <1>6 DEF WriteTxCache
<1>7. CASE RestoreGetAccount(p)
  BY <1>7 DEF RestoreGetAccount
<1>8. CASE RestoreSubmit(p)
  BY <1>8 DEF RestoreSubmit
<1>9. CASE WriteSpec(p)
  BY <1>9 DEF WriteSpec
<1>10. QED
  BY <1>1, <1>2, <1>3, <1>4, <1>5, <1>6, <1>7, <1>8, <1>9 DEF Step

LEMMA PermInvNext == TypeOK /\ PermInv /\ [Next]_vars => PermInv'
<1> SUFFICES ASSUME TypeOK, PermInv, [Next]_vars, NEW q \in Procs
             PROVE  PermAt(q)'
  BY DEF PermInv
<1>1. CASE \E p \in Procs : Step(p)
  <2>1. PICK p \in Procs : Step(p)
    BY <1>1
  <2>2. CASE q = p
    BY <2>1, <2>2, StepPermSelf DEF PermInv
  <2>3. CASE q # p
    <3>1. PermAt(q)
      BY DEF PermInv
    <3>2. QED
      BY <2>1, <2>3, <3>1, StepFrame, StepReq DEF PermAt, RcRefused
  <2>4. QED
    BY <2>2, <2>3
<1>2. CASE \E w \in Wasms : Expire(w)
  BY <1>2 DEF Expire, PermInv, PermAt, RcRefused
<1>3. CASE UNCHANGED vars
  BY <1>3 DEF vars, PermInv, PermAt, RcRefused
<1>4. QED
  BY <1>1, <1>2, <1>3 DEF Next

(* A step of p either leaves the ledger's transactions alone or appends one *)
(* of p, from the submit or the restore stage.                              *)
LEMMA StepTxLog ==
    ASSUME NEW p \in Procs, Step(p)
    PROVE  \/ txLog' = txLog
           \/ txLog' = Append(txLog, p) /\ pc[p] \in {"submit", "restoreSubmit"}
BY Zenon DEF Step, VerifyNetwork, GetAccount, GetLedgerEntries, Simulate, Submit,
             WriteTxCache, RestoreGetAccount, RestoreSubmit, WriteSpec

LEMMA NoSubInit == Init => NoSubmissionUnlessPermitted
BY DEF Init, NoSubmissionUnlessPermitted

LEMMA NoSubNext ==
    TypeOK /\ PermInv /\ NoSubmissionUnlessPermitted /\ [Next]_vars
        => NoSubmissionUnlessPermitted'
<1> SUFFICES ASSUME TypeOK, PermInv, NoSubmissionUnlessPermitted, [Next]_vars
             PROVE  NoSubmissionUnlessPermitted'
  OBVIOUS
<1>1. CASE \E p \in Procs : Step(p)
  <2>1. PICK p \in Procs : Step(p)
    BY <1>1
  <2>2. req' = req
    BY <2>1, StepReq
  <2>3. CASE txLog' = txLog
    BY <2>2, <2>3 DEF NoSubmissionUnlessPermitted, RcRefused
  <2>4. CASE txLog' = Append(txLog, p) /\ pc[p] \in {"submit", "restoreSubmit"}
    <3>1. /\ ~req[p].buildOnly /\ ~req[p].simOnly /\ ~RcRefused(p)
      BY <2>4 DEF PermInv, PermAt
    <3>2. QED
      BY <2>2, <2>4, <3>1 DEF NoSubmissionUnlessPermitted, RcRefused, TypeOK
  <2>5. QED
    BY <2>1, <2>3, <2>4, StepTxLog
<1>2. CASE \E w \in Wasms : Expire(w)
  BY <1>2 DEF Expire, NoSubmissionUnlessPermitted, RcRefused
<1>3. CASE UNCHANGED vars
  BY <1>3 DEF vars, NoSubmissionUnlessPermitted, RcRefused
<1>4. QED
  BY <1>1, <1>2, <1>3 DEF Next

(* Whatever the interleaving of concurrent installs, no --build-only or     *)
(* --sim-only invocation and none refused by the rc SDK gate ever gets a    *)
(* transaction onto the ledger (install.rs:106-114, 132, 170).              *)
THEOREM NoSubmissionHolds == Spec => []NoSubmissionUnlessPermitted
<1>1. Init => TypeOK /\ PermInv /\ NoSubmissionUnlessPermitted
  BY InitTypeOK, PermInvInit, NoSubInit
<1>2. TypeOK /\ PermInv /\ NoSubmissionUnlessPermitted /\ [Next]_vars
        => (TypeOK /\ PermInv /\ NoSubmissionUnlessPermitted)'
  BY NextTypeOK, PermInvNext, NoSubNext
<1>3. QED
  BY <1>1, <1>2, PTL DEF Spec

-----------------------------------------------------------------------------
(* Install implements InstallContract (ImplementsContract) when             *)
(* getLedgerEntries returns live code entries only.                          *)

(* The inductive invariant the refinement rests on. *)
RInv == TypeOK /\ LiveInv /\ PermInv /\ NoSubmissionUnlessPermitted

LEMMA RInvInit == Init => RInv
BY InitTypeOK, LiveInvInit, PermInvInit, NoSubInit DEF RInv

LEMMA RInvNext ==
    ASSUME ~RpcReturnsArchived
    PROVE  RInv /\ [Next]_vars => RInv'
BY NextTypeOK, LiveInvNext, PermInvNext, NoSubNext DEF RInv

LEMMA InitRefines == Init => Contract!AInit
BY DEF Init, Contract!AInit, CodeStatus

(* Every action of one invocation is guarded by its stage, and no stage but *)
(* "done" has an outcome yet.                                                *)
LEMMA StepRunning ==
    ASSUME NEW p \in Procs, Step(p)
    PROVE  pc[p] # "done"
BY DEF Step, VerifyNetwork, GetAccount, GetLedgerEntries, Simulate, Submit,
       WriteTxCache, RestoreGetAccount, RestoreSubmit, WriteSpec

(* A step of p either keeps every outcome or gives p one that is not "none". *)
LEMMA StepOutcome ==
    ASSUME NEW p \in Procs, Step(p)
    PROVE  \/ outcome' = outcome
           \/ \E o \in Outcomes \ {"none"} : outcome' = [outcome EXCEPT ![p] = o]
<1>1. /\ "networkErr" \in Outcomes \ {"none"} /\ "refused" \in Outcomes \ {"none"}
      /\ "txn" \in Outcomes \ {"none"} /\ "res" \in Outcomes \ {"none"}
      /\ "simErr" \in Outcomes \ {"none"} /\ "badSeq" \in Outcomes \ {"none"}
      /\ "txFailed" \in Outcomes \ {"none"} /\ "cacheErr" \in Outcomes \ {"none"}
      /\ "restoreFailed" \in Outcomes \ {"none"}
      /\ "restoreBadSeq" \in Outcomes \ {"none"}
  BY DEF Outcomes
<1>2. QED
  BY <1>1, Zenon
     DEF Step, VerifyNetwork, GetAccount, GetLedgerEntries, Simulate, Submit,
         WriteTxCache, RestoreGetAccount, RestoreSubmit, WriteSpec, Finish, Goto

(* The ledger part of a step of p is an abstract Apply(p) or leaves the    *)
(* ledger alone.                                                             *)
LEMMA StepApply ==
    ASSUME TypeOK, PermInv, NEW p \in Procs, Step(p)
    PROVE  \/ Contract!Apply(p)
           \/ UNCHANGED <<txLog, codeStatus, codeExt>>
<1> DEFINE w == req[p].wasm
<1>1. Contract!Permitted(p) <=> ~req[p].buildOnly /\ ~req[p].simOnly /\ ~RcRefused(p)
  BY DEF Contract!Permitted, RcRefused
<1>2. pc[p] \in {"submit", "restoreSubmit"} => Contract!Permitted(p)
  BY <1>1 DEF PermInv, PermAt
<1>3. CASE Submit(p)
  <2>1. CASE UNCHANGED <<txLog, codeStatus, codeExt>>
    BY <2>1
  <2>2. CASE txLog' = Append(txLog, p) /\ UNCHANGED <<codeStatus, codeExt>>
    BY <1>2, <1>3, <2>2 DEF Submit, Contract!Apply
  <2>3. CASE /\ txLog' = Append(txLog, p)
             /\ codeStatus' = [codeStatus EXCEPT ![w] = "live"]
             /\ codeExt' = [codeExt EXCEPT ![w] = "V1"]
    BY <1>2, <1>3, <2>3 DEF Submit, Contract!Apply
  <2>4. QED
    BY <1>3, <2>1, <2>2, <2>3, Zenon DEF Submit
<1>4. CASE RestoreSubmit(p)
  <2>1. CASE UNCHANGED <<txLog, codeStatus, codeExt>>
    BY <2>1
  <2>2. CASE /\ txLog' = Append(txLog, p)
             /\ codeStatus' = [codeStatus EXCEPT ![w] = "live"]
             /\ codeExt' = codeExt
    BY <1>2, <1>4, <2>2 DEF RestoreSubmit, Contract!Apply
  <2>3. QED
    BY <1>4, <2>1, <2>2, Zenon DEF RestoreSubmit
<1>5. CASE ~Submit(p) /\ ~RestoreSubmit(p)
  BY <1>5, Zenon
     DEF Step, VerifyNetwork, GetAccount, GetLedgerEntries, Simulate,
         WriteTxCache, RestoreGetAccount, WriteSpec
<1>6. QED
  BY <1>3, <1>4, <1>5

(* What a step of p records of its code entry is what the entry is after   *)
(* the step: the idempotency skip, an upload and a restore all look.        *)
LEMMA StepObserve ==
    ASSUME TypeOK, NEW p \in Procs, Step(p)
    PROVE  Contract!Observe(p) \/ UNCHANGED observedLive
<1> DEFINE w == req[p].wasm
<1>0. w \in Wasms
  BY WasmOK
<1>1. CASE GetLedgerEntries(p)
  BY <1>1, Zenon DEF GetLedgerEntries, Contract!Observe
<1>2. CASE Submit(p)
  BY <1>2, Zenon DEF Submit, Contract!Observe
<1>3. CASE RestoreSubmit(p)
  <2>1. CASE UNCHANGED observedLive
    BY <2>1
  <2>2. CASE /\ codeStatus' = [codeStatus EXCEPT ![w] = "live"]
             /\ observedLive' = [observedLive EXCEPT ![p] = TRUE]
    BY <1>0, <2>2 DEF Contract!Observe, TypeOK
  <2>3. QED
    BY <1>3, <2>1, <2>2, Zenon DEF RestoreSubmit
<1>4. CASE ~GetLedgerEntries(p) /\ ~Submit(p) /\ ~RestoreSubmit(p)
  BY <1>4, Zenon
     DEF Step, VerifyNetwork, GetAccount, Simulate, WriteTxCache,
         RestoreGetAccount, WriteSpec
<1>5. QED
  BY <1>1, <1>2, <1>3, <1>4

(* A step of p that makes it return is an abstract Return(p): the hash only *)
(* with the entry seen live (LiveInv after the step), a transaction only    *)
(* when it sent none (PermInv and NoSubmissionUnlessPermitted after it).     *)
LEMMA StepReturn ==
    ASSUME TypeOK, NEW p \in Procs, Step(p), LiveInv', PermInv',
           NoSubmissionUnlessPermitted'
    PROVE  Contract!Return(p) \/ UNCHANGED outcome
<1>1. CASE outcome' = outcome
  BY <1>1
<1>2. CASE \E o \in Outcomes \ {"none"} : outcome' = [outcome EXCEPT ![p] = o]
  <2>1. PICK o \in Outcomes \ {"none"} : outcome' = [outcome EXCEPT ![p] = o]
    BY <1>2
  <2>2. outcome'[p] = o
    BY <2>1 DEF TypeOK
  <2>3. outcome' \in {[outcome EXCEPT ![p] = x] : x \in Contract!AOutcomes \ {"none"}}
    BY <2>1 DEF Contract!AOutcomes, Outcomes
  <2>4. outcome'[p] = "res" => observedLive'[p]
    BY DEF LiveInv, LiveAt
  <2>5. outcome'[p] = "txn" => ~Contract!Submitted(p)'
    BY DEF PermInv, PermAt, NoSubmissionUnlessPermitted, Contract!Submitted
  <2>6. QED
    BY <2>3, <2>4, <2>5 DEF Contract!Return
<1>3. QED
  BY <1>1, <1>2, StepOutcome

(* Every step of one invocation is a step of the contract. *)
LEMMA StepRefines ==
    ASSUME ~RpcReturnsArchived, RInv, RInv', NEW p \in Procs, Step(p)
    PROVE  Contract!AStep(p)
<1>1. outcome[p] = "none"
  BY StepRunning DEF RInv, LiveInv, LiveAt
<1>2. req' = req
  BY StepReq
<1>3. QED
  BY <1>1, <1>2, StepApply, StepObserve, StepReturn DEF RInv, Contract!AStep

LEMMA NextRefines ==
    ASSUME ~RpcReturnsArchived
    PROVE  RInv /\ RInv' /\ [Next]_vars => [Contract!ANext]_Contract!avars
<1> SUFFICES ASSUME RInv, RInv', [Next]_vars
             PROVE  [Contract!ANext]_Contract!avars
  OBVIOUS
<1>1. CASE \E p \in Procs : Step(p)
  BY <1>1, StepRefines DEF Contract!ANext
<1>2. CASE \E w \in Wasms : Expire(w)
  BY <1>2 DEF Expire, Contract!ANext, Contract!AExpire
<1>3. CASE UNCHANGED vars
  BY <1>3 DEF vars, Contract!avars
<1>4. QED
  BY <1>1, <1>2, <1>3 DEF Next

(* When getLedgerEntries returns live code entries only, the install        *)
(* pipeline with any number of concurrent invocations implements the        *)
(* contract of InstallContract: permitted transactions only, one return     *)
(* each, the hash only for an entry seen live, a transaction only if none   *)
(* was sent.                                                                *)
THEOREM Refinement ==
    ASSUME ~RpcReturnsArchived
    PROVE  Spec => ImplementsContract
<1>1. Init => RInv /\ Contract!AInit
  BY RInvInit, InitRefines
<1>2. RInv /\ [Next]_vars => RInv'
  BY RInvNext
<1>3. RInv /\ RInv' /\ [Next]_vars => [Contract!ANext]_Contract!avars
  BY NextRefines
<1>4. QED
  BY <1>1, <1>2, <1>3, PTL DEF Spec, ImplementsContract, Contract!ASpec
=============================================================================
