--------------------------- MODULE InstallSeqProofs ---------------------------
(* Proof that a transaction of the install pipeline is rejected for its     *)
(* sequence number only because of a concurrent transaction of another      *)
(* invocation (SeqRejectOnlyByRace), for every value of the constants.      *)
EXTENDS InstallProofs

(* The stages between a fetch of the account and the submission that uses  *)
(* it: GetAccount to Submit, and RestoreGetAccount to RestoreSubmit.        *)
Fresh == {"entries", "simulate", "submit", "restoreSubmit"}

(* A sequence-number rejection of p is explained by a transaction of        *)
(* another invocation applied after p read the account.                     *)
RejectAt(p) ==
    outcome[p] \in {"badSeq", "restoreBadSeq"} =>
        \E i \in readSeq[p] + 1 .. Len(txLog) : txLog[i] # p

(* The strengthening: an invocation that has not returned has no outcome;  *)
(* the sequence number it read is never ahead of the ledger; between the    *)
(* read and the submission it carries that number plus one, and none of its *)
(* own transactions has landed since the read.                              *)
SeqAt(p) ==
    /\ pc[p] # "done" => outcome[p] = "none"
    /\ readSeq[p] <= Len(txLog)
    /\ pc[p] \in Fresh =>
          /\ txSeq[p] = readSeq[p] + 1
          /\ \A i \in readSeq[p] + 1 .. Len(txLog) : txLog[i] # p
    /\ RejectAt(p)

SeqInv == \A p \in Procs : SeqAt(p)

LEMMA SeqInvInit == Init => SeqInv
<1> SUFFICES ASSUME Init, NEW p \in Procs PROVE SeqAt(p)
  BY DEF SeqInv
<1>1. pc[p] = "verify" /\ outcome[p] = "none" /\ readSeq[p] = 0 /\ Len(txLog) = 0
  BY DEF Init
<1>2. "verify" \notin Fresh
  BY DEF Fresh
<1>3. QED
  BY <1>1, <1>2 DEF SeqAt, RejectAt

(* A step of p changes the sequence numbers of p only. *)
LEMMA StepSeqFrame ==
    ASSUME TypeOK, NEW p \in Procs, Step(p), NEW q \in Procs, q # p
    PROVE  readSeq'[q] = readSeq[q] /\ txSeq'[q] = txSeq[q]
<1>1. /\ \/ readSeq' = readSeq
         \/ \E n : readSeq' = [readSeq EXCEPT ![p] = n]
      /\ \/ txSeq' = txSeq
         \/ \E n : txSeq' = [txSeq EXCEPT ![p] = n]
  BY Zenon
     DEF Step, VerifyNetwork, GetAccount, GetLedgerEntries, Simulate, Submit,
         WriteTxCache, RestoreGetAccount, RestoreSubmit, WriteSpec
<1>2. QED
  BY <1>1 DEF TypeOK

(* A step of p either keeps the ledger's transactions or appends one of p. *)
LEMMA StepLog ==
    ASSUME NEW p \in Procs, Step(p)
    PROVE  txLog' = txLog \/ txLog' = Append(txLog, p)
BY Zenon DEF Step, VerifyNetwork, GetAccount, GetLedgerEntries, Simulate, Submit,
             WriteTxCache, RestoreGetAccount, RestoreSubmit, WriteSpec

(* A step of p keeps SeqAt(p). *)
LEMMA StepSeqSelf ==
    ASSUME TypeOK, NEW p \in Procs, SeqAt(p), Step(p)
    PROVE  SeqAt(p)'
<1> USE DEF SeqAt, RejectAt, Fresh, TypeOK, Finish, Goto, AcctSeq, SeqAccepted, Room
<1>1. CASE VerifyNetwork(p)
  BY <1>1 DEF VerifyNetwork
<1>2. CASE GetAccount(p)
  BY <1>2 DEF GetAccount
<1>3. CASE GetLedgerEntries(p)
  BY <1>3 DEF GetLedgerEntries
<1>4. CASE Simulate(p)
  BY <1>4 DEF Simulate
<1>5. CASE Submit(p)
  <2>1. CASE ~SeqAccepted(p) /\ Finish(p, "badSeq") /\ UNCHANGED txLog
    (* The transaction carries readSeq + 1 and the ledger has moved past    *)
    (* readSeq, so its last transaction, after the read, is not p's.        *)
    <3>1. readSeq[p] + 1 <= Len(txLog)
      BY <1>5, <2>1 DEF Submit
    <3>2. txLog[Len(txLog)] # p
      BY <1>5, <3>1 DEF Submit
    <3>3. QED
      BY <1>5, <2>1, <3>1, <3>2 DEF Submit
  <2>2. CASE ~(~SeqAccepted(p) /\ Finish(p, "badSeq") /\ UNCHANGED txLog)
    BY <1>5, <2>2 DEF Submit
  <2>3. QED
    BY <2>1, <2>2
<1>6. CASE WriteTxCache(p)
  BY <1>6 DEF WriteTxCache
<1>7. CASE RestoreGetAccount(p)
  BY <1>7 DEF RestoreGetAccount
<1>8. CASE RestoreSubmit(p)
  <2>1. CASE ~SeqAccepted(p) /\ Finish(p, "restoreBadSeq") /\ UNCHANGED txLog
    <3>1. readSeq[p] + 1 <= Len(txLog)
      BY <1>8, <2>1 DEF RestoreSubmit
    <3>2. txLog[Len(txLog)] # p
      BY <1>8, <3>1 DEF RestoreSubmit
    <3>3. QED
      BY <1>8, <2>1, <3>1, <3>2 DEF RestoreSubmit
  <2>2. CASE ~(~SeqAccepted(p) /\ Finish(p, "restoreBadSeq") /\ UNCHANGED txLog)
    BY <1>8, <2>2 DEF RestoreSubmit
  <2>3. QED
    BY <2>1, <2>2
<1>9. CASE WriteSpec(p)
  BY <1>9 DEF WriteSpec
<1>10. QED
  BY <1>1, <1>2, <1>3, <1>4, <1>5, <1>6, <1>7, <1>8, <1>9 DEF Step

(* A step of p keeps SeqAt(q) of another invocation q: p can only append   *)
(* its own transaction, which is not q's and only lengthens the ledger.     *)
LEMMA StepSeqOther ==
    ASSUME TypeOK, NEW p \in Procs, Step(p), NEW q \in Procs, q # p, SeqAt(q)
    PROVE  SeqAt(q)'
<1>1. /\ pc'[q] = pc[q] /\ outcome'[q] = outcome[q]
      /\ readSeq'[q] = readSeq[q] /\ txSeq'[q] = txSeq[q]
  BY StepFrame, StepSeqFrame
<1>2. CASE txLog' = txLog
  BY <1>1, <1>2 DEF SeqAt, RejectAt, Fresh
<1>3. CASE txLog' = Append(txLog, p)
  BY <1>1, <1>3 DEF SeqAt, RejectAt, Fresh, TypeOK
<1>4. QED
  BY <1>2, <1>3, StepLog

LEMMA SeqInvNext == TypeOK /\ SeqInv /\ [Next]_vars => SeqInv'
<1> SUFFICES ASSUME TypeOK, SeqInv, [Next]_vars, NEW q \in Procs
             PROVE  SeqAt(q)'
  BY DEF SeqInv
<1>1. CASE \E p \in Procs : Step(p)
  <2>1. PICK p \in Procs : Step(p)
    BY <1>1
  <2>2. CASE q = p
    BY <2>1, <2>2, StepSeqSelf DEF SeqInv
  <2>3. CASE q # p
    BY <2>1, <2>3, StepSeqOther DEF SeqInv
  <2>4. QED
    BY <2>2, <2>3
<1>2. CASE \E w \in Wasms : Expire(w)
  BY <1>2 DEF Expire, SeqInv, SeqAt, RejectAt, Fresh
<1>3. CASE UNCHANGED vars
  BY <1>3 DEF vars, SeqInv, SeqAt, RejectAt, Fresh
<1>4. QED
  BY <1>1, <1>2, <1>3 DEF Next

(* Whatever the interleaving of concurrent installs signing with the same   *)
(* key, the pipeline itself never builds a transaction with a stale         *)
(* sequence number (install.rs:126-130, and the fresh fetch of the          *)
(* restore): a BadSeq or restore BadSeq is always caused by a transaction   *)
(* of another invocation applied after this one read the account.           *)
THEOREM SeqRejectOnlyByRaceHolds == Spec => []SeqRejectOnlyByRace
<1>1. Init => TypeOK /\ SeqInv
  BY InitTypeOK, SeqInvInit
<1>2. TypeOK /\ SeqInv /\ [Next]_vars => (TypeOK /\ SeqInv)'
  BY NextTypeOK, SeqInvNext
<1>3. SeqInv => SeqRejectOnlyByRace
  BY DEF SeqInv, SeqAt, RejectAt, SeqRejectOnlyByRace
<1>4. QED
  BY <1>1, <1>2, <1>3, PTL DEF Spec

=============================================================================
