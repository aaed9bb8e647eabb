------------------------------- MODULE Install -------------------------------
(***************************************************************************)
(* `soroban contract install` (commands/contract/install.rs): concurrent   *)
(* CLI invocations of Cmd::run_against_rpc_server against one shared       *)
(* ledger reached through the RPC server.                                  *)
(*                                                                         *)
(* Every invocation runs the handler top to bottom; it is split into one   *)
(* action per await (network call) or cache write, because those are the   *)
(* points where other invocations and the ledger can move in between.      *)
(* The ledger keeps the account's applied transactions (whose length is   *)
(* the account sequence number) and, per wasm hash, the ContractCode       *)
(* entry: absent, live or archived (TTL ran out), with its extension V0/V1. *)
(* The nested `restore::Cmd` (restore.rs, not in this repository's src/)   *)
(* and the cache `data` module are modelled from spec.md sections 4.4/4.5. *)
(***************************************************************************)
EXTENDS Naturals, Sequences

CONSTANTS
    Procs,              \* concurrent CLI invocations, all signing with one key
    Wasms,              \* wasm files; a wasm stands for its hash (contract_hash)
    RcWasms,            \* wasms whose "rssdkver" meta contains "rc"
    PublicNetwork,      \* the network passphrase is PUBLIC_NETWORK_PASSPHRASE
    RpcReturnsArchived, \* getLedgerEntries also returns archived code entries
    CacheMayFail,       \* data::write / data::write_spec may return an error
    Requests,           \* the command lines the invocations may be given
    MaxSeq              \* model bound on the account's applied transactions

ASSUME ConstantsAssumption ==
    /\ Procs # {}
    /\ RcWasms \subseteq Wasms
    /\ PublicNetwork \in BOOLEAN
    /\ RpcReturnsArchived \in BOOLEAN
    /\ CacheMayFail \in BOOLEAN
    /\ MaxSeq \in Nat

(* The flags of one command line: --build-only, --sim-only, --ignore-checks, *)
(* the global --no-cache, and whether the global args reach the handler     *)
(* (viaCli: Cmd::run passes None, install.rs:76).                           *)
Request == [wasm: Wasms, buildOnly: BOOLEAN, simOnly: BOOLEAN,
            ignoreChecks: BOOLEAN, noCache: BOOLEAN, viaCli: BOOLEAN]

ASSUME RequestsAssumption == Requests \subseteq Request /\ Requests # {}

Stages == {"verify", "account", "entries", "simulate", "submit", "cacheResp",
           "restoreAccount", "restoreSubmit", "writeSpec", "done"}

Outcomes == {"none", "txn", "res", "networkErr", "refused", "simErr",
             "badSeq", "txFailed", "cacheErr", "restoreFailed", "restoreBadSeq"}

CodeStatus == {"absent", "live", "archived"}

VARIABLES
    txLog,        \* transactions applied for the account, by invocation
    codeStatus,   \* wasm hash -> state of its ContractCode ledger entry
    codeExt,      \* wasm hash -> ContractCodeEntryExt of that entry
    req,          \* invocation -> its command line
    pc,           \* invocation -> the await it is at
    readSeq,      \* invocation -> account sequence number it last fetched
    txSeq,        \* invocation -> sequence number of its current transaction
    resp,         \* invocation -> result in the response of its submission
    outcome,      \* invocation -> what run_against_rpc_server returned
    observedLive, \* invocation -> the code entry was live after its last ledger step
    cacheLog      \* records the invocations wrote to the local cache

vars == <<txLog, codeStatus, codeExt, req, pc, readSeq, txSeq, resp, outcome,
          observedLive, cacheLog>>

-----------------------------------------------------------------------------
(* Helpers *)

(* The account sequence number on the ledger. *)
AcctSeq == Len(txLog)

(* The compatibility gate of install.rs:106-114. *)
RcRefused(p) ==
    /\ req[p].wasm \in RcWasms
    /\ ~req[p].ignoreChecks
    /\ PublicNetwork

(* args.map_or(true, |a| !a.no_cache) with args = None when run from the CLI. *)
Caching(p) == req[p].viaCli \/ ~req[p].noCache

(* get_ledger_entries returns the code entry of w. *)
EntryVisible(w) ==
    \/ codeStatus[w] = "live"
    \/ codeStatus[w] = "archived" /\ RpcReturnsArchived

(* A transaction of p is accepted iff it carries the next sequence number. *)
SeqAccepted(p) == txSeq[p] = AcctSeq + 1

(* The model bound: at most MaxSeq transactions are applied. *)
Room == AcctSeq < MaxSeq

Finish(p, o) ==
    /\ pc' = [pc EXCEPT ![p] = "done"]
    /\ outcome' = [outcome EXCEPT ![p] = o]

Goto(p, s) == pc' = [pc EXCEPT ![p] = s] /\ UNCHANGED outcome

-----------------------------------------------------------------------------
Init ==
    /\ txLog = <<>>
    /\ codeStatus \in [Wasms -> CodeStatus]
    /\ codeExt \in [Wasms -> {"V0", "V1"}]
    /\ req \in [Procs -> Requests]
    /\ pc = [p \in Procs |-> "verify"]
    /\ readSeq = [p \in Procs |-> 0]
    /\ txSeq = [p \in Procs |-> 0]
    /\ resp = [p \in Procs |-> "none"]
    /\ outcome = [p \in Procs |-> "none"]
    /\ observedLive = [p \in Procs |-> FALSE]
    /\ cacheLog = {}

(* Client::new, verify_network_passphrase, wasm parse and the rc SDK gate. *)
VerifyNetwork(p) ==
    /\ pc[p] = "verify"
    /\ \/ Finish(p, "networkErr")
       \/ RcRefused(p) /\ Finish(p, "refused")
       \/ ~RcRefused(p) /\ Goto(p, "account")
    /\ UNCHANGED <<txLog, codeStatus, codeExt, req, readSeq, txSeq, resp,
                   observedLive, cacheLog>>

(* Mutants of GetAccount: the transaction built with `sequence - 1`, or    *)
(* with the fetched `sequence` instead of `sequence + 1`.                  *)
GetAccountSeqMinus(p) ==
    /\ pc[p] = "account"
    /\ readSeq' = [readSeq EXCEPT ![p] = AcctSeq]
    /\ txSeq' = [txSeq EXCEPT ![p] = AcctSeq - 1]
    /\ ~req[p].buildOnly /\ ~req[p].simOnly /\ Goto(p, "entries")
    /\ UNCHANGED <<txLog, codeStatus, codeExt, req, resp, observedLive, cacheLog>>

GetAccountNoIncrement(p) ==
    /\ pc[p] = "account"
    /\ readSeq' = [readSeq EXCEPT ![p] = AcctSeq]
    /\ txSeq' = [txSeq EXCEPT ![p] = AcctSeq]
    /\ \/ req[p].buildOnly /\ Finish(p, "txn")
       \/ ~req[p].buildOnly /\ req[p].simOnly /\ Goto(p, "simulate")
       \/ ~req[p].buildOnly /\ ~req[p].simOnly /\ Goto(p, "entries")
    /\ UNCHANGED <<txLog, codeStatus, codeExt, req, resp, observedLive, cacheLog>>

(* get_account, then build_install_contract_code_tx with sequence + 1; a    *)
(* build-only invocation returns the transaction here.                       *)
GetAccount(p) ==
    /\ pc[p] = "account"
    /\ \/ Finish(p, "networkErr") /\ UNCHANGED <<readSeq, txSeq>>
       \/ /\ readSeq' = [readSeq EXCEPT ![p] = AcctSeq]
          /\ txSeq' = [txSeq EXCEPT ![p] = AcctSeq + 1]
          /\ \/ req[p].buildOnly /\ Finish(p, "txn")
             \/ ~req[p].buildOnly /\ req[p].simOnly /\ Goto(p, "simulate")
             \/ ~req[p].buildOnly /\ ~req[p].simOnly /\ Goto(p, "entries")
    /\ UNCHANGED <<txLog, codeStatus, codeExt, req, resp, observedLive, cacheLog>>

(* The idempotency check: skip the upload if the code entry is there with   *)
(* an extension other than V0.                                               *)
GetLedgerEntries(p) ==
    LET w == req[p].wasm IN
    /\ pc[p] = "entries"
    /\ \/ Finish(p, "networkErr") /\ UNCHANGED observedLive
       \/ /\ EntryVisible(w) /\ codeExt[w] # "V0"
          /\ Finish(p, "res")
          /\ observedLive' = [observedLive EXCEPT ![p] = codeStatus[w] = "live"]
       \/ /\ ~(EntryVisible(w) /\ codeExt[w] # "V0")
          /\ Goto(p, "simulate")
          /\ UNCHANGED observedLive
    /\ UNCHANGED <<txLog, codeStatus, codeExt, req, readSeq, txSeq, resp, cacheLog>>

(* Mutant of Simulate: the `if self.fee.sim_only` return dropped. *)
SimulateIgnoreSimOnly(p) ==
    /\ pc[p] = "simulate"
    /\ \/ Finish(p, "simErr")
       \/ Goto(p, "submit")
    /\ UNCHANGED <<txLog, codeStatus, codeExt, req, readSeq, txSeq, resp,
                   observedLive, cacheLog>>

(* create_assembled_transaction; a sim-only invocation returns here. *)
Simulate(p) ==
    /\ pc[p] = "simulate"
    /\ \/ Finish(p, "simErr")
       \/ req[p].simOnly /\ Finish(p, "txn")
       \/ ~req[p].simOnly /\ Goto(p, "submit")
    /\ UNCHANGED <<txLog, codeStatus, codeExt, req, readSeq, txSeq, resp,
                   observedLive, cacheLog>>

(* send_assembled_transaction: sign, send, poll.  The network rejects a     *)
(* stale sequence number; an applied upload over an archived entry ends in  *)
(* TxInternalError (install.rs:179); polling may time out after the ledger  *)
(* applied the transaction.                                                   *)
Submit(p) ==
    LET w == req[p].wasm IN
    /\ pc[p] = "submit"
    /\ \/ /\ ~SeqAccepted(p)
          /\ Finish(p, "badSeq")
          /\ UNCHANGED <<txLog, codeStatus, codeExt, resp, observedLive>>
       \/ /\ Finish(p, "networkErr")
          /\ UNCHANGED <<txLog, codeStatus, codeExt, resp, observedLive>>
       \/ /\ SeqAccepted(p) /\ Room
          /\ txLog' = Append(txLog, p)
          /\ IF codeStatus[w] = "archived"
               THEN UNCHANGED <<codeStatus, codeExt>>
               ELSE /\ codeStatus' = [codeStatus EXCEPT ![w] = "live"]
                    /\ codeExt' = [codeExt EXCEPT ![w] = "V1"]
          /\ observedLive' = [observedLive EXCEPT ![p] = codeStatus'[w] = "live"]
          /\ \/ /\ resp' = [resp EXCEPT ![p] =
                              IF codeStatus[w] = "archived" THEN "internal"
                                                           ELSE "success"]
                /\ Goto(p, "cacheResp")
             \/ Finish(p, "networkErr") /\ UNCHANGED resp
       \/ /\ SeqAccepted(p) /\ Room
          /\ txLog' = Append(txLog, p)
          /\ Finish(p, "txFailed")
          /\ UNCHANGED <<codeStatus, codeExt, resp, observedLive>>
    /\ UNCHANGED <<req, readSeq, txSeq, cacheLog>>

(* Mutant of WriteTxCache: the TxInternalError result is not checked and  *)
(* no restore runs.                                                          *)
WriteTxCacheNoRestore(p) ==
    /\ pc[p] = "cacheResp"
    /\ cacheLog' = IF Caching(p) THEN cacheLog \cup {[by |-> p, item |-> "txResp"]}
                                  ELSE cacheLog
    /\ Goto(p, "writeSpec")
    /\ UNCHANGED <<txLog, codeStatus, codeExt, req, readSeq, txSeq, resp, observedLive>>

(* data::write of the response, then the TxInternalError check that starts *)
(* the restore.                                                              *)
WriteTxCache(p) ==
    /\ pc[p] = "cacheResp"
    /\ \/ /\ Caching(p) /\ CacheMayFail
          /\ Finish(p, "cacheErr")
          /\ UNCHANGED cacheLog
       \/ /\ cacheLog' = IF Caching(p) THEN cacheLog \cup {[by |-> p, item |-> "txResp"]}
                                       ELSE cacheLog
          /\ Goto(p, IF resp[p] = "internal" THEN "restoreAccount" ELSE "writeSpec")
    /\ UNCHANGED <<txLog, codeStatus, codeExt, req, readSeq, txSeq, resp, observedLive>>

(* restore::Cmd fetches the account afresh and builds the restore transaction. *)
RestoreGetAccount(p) ==
    /\ pc[p] = "restoreAccount"
    /\ \/ Finish(p, "restoreFailed") /\ UNCHANGED <<readSeq, txSeq>>
       \/ /\ readSeq' = [readSeq EXCEPT ![p] = AcctSeq]
          /\ txSeq' = [txSeq EXCEPT ![p] = AcctSeq + 1]
          /\ Goto(p, "restoreSubmit")
    /\ UNCHANGED <<txLog, codeStatus, codeExt, req, resp, observedLive, cacheLog>>

(* Mutant of RestoreSubmit: the error of the restore is ignored and the     *)
(* pipeline goes on to write the spec and return the hash.                   *)
RestoreSubmitIgnoreFailure(p) ==
    LET w == req[p].wasm IN
    /\ pc[p] = "restoreSubmit"
    /\ \/ /\ ~SeqAccepted(p)
          /\ Finish(p, "restoreBadSeq")
          /\ UNCHANGED <<txLog, codeStatus, observedLive>>
       \/ /\ Goto(p, "writeSpec")
          /\ UNCHANGED <<txLog, codeStatus, observedLive>>
       \/ /\ SeqAccepted(p) /\ Room /\ codeStatus[w] # "absent"
          /\ txLog' = Append(txLog, p)
          /\ codeStatus' = [codeStatus EXCEPT ![w] = "live"]
          /\ observedLive' = [observedLive EXCEPT ![p] = TRUE]
          /\ \/ Goto(p, "writeSpec")
             \/ Finish(p, "restoreFailed")
    /\ UNCHANGED <<codeExt, req, readSeq, txSeq, resp, cacheLog>>

(* Simulation and submission of the RestoreFootprint transaction. *)
RestoreSubmit(p) ==
    LET w == req[p].wasm IN
    /\ pc[p] = "restoreSubmit"
    /\ \/ /\ ~SeqAccepted(p)
          /\ Finish(p, "restoreBadSeq")
          /\ UNCHANGED <<txLog, codeStatus, observedLive>>
       \/ /\ Finish(p, "restoreFailed")
          /\ UNCHANGED <<txLog, codeStatus, observedLive>>
       \/ /\ SeqAccepted(p) /\ Room /\ codeStatus[w] # "absent"
          /\ txLog' = Append(txLog, p)
          /\ codeStatus' = [codeStatus EXCEPT ![w] = "live"]
          /\ observedLive' = [observedLive EXCEPT ![p] = TRUE]
          /\ \/ Goto(p, "writeSpec")
             \/ Finish(p, "restoreFailed")
    /\ UNCHANGED <<codeExt, req, readSeq, txSeq, resp, cacheLog>>

(* data::write_spec, then Ok(TxnResult::Res(hash)). *)
WriteSpec(p) ==
    /\ pc[p] = "writeSpec"
    /\ \/ /\ Caching(p) /\ CacheMayFail
          /\ Finish(p, "cacheErr")
          /\ UNCHANGED cacheLog
       \/ /\ cacheLog' = IF Caching(p) THEN cacheLog \cup {[by |-> p, item |-> "spec"]}
                                       ELSE cacheLog
          /\ Finish(p, "res")
    /\ UNCHANGED <<txLog, codeStatus, codeExt, req, readSeq, txSeq, resp, observedLive>>

(* The environment: a code entry's TTL runs out. *)
Expire(w) ==
    /\ codeStatus[w] = "live"
    /\ codeStatus' = [codeStatus EXCEPT ![w] = "archived"]
    /\ UNCHANGED <<txLog, codeExt, req, pc, readSeq, txSeq, resp, outcome,
                   observedLive, cacheLog>>

(* Every invocation has returned. *)
Terminated == \A p \in Procs : pc[p] = "done"

Step(p) ==
    \/ VerifyNetwork(p) \/ GetAccount(p) \/ GetLedgerEntries(p)
    \/ Simulate(p) \/ Submit(p) \/ WriteTxCache(p)
    \/ RestoreGetAccount(p) \/ RestoreSubmit(p) \/ WriteSpec(p)

Next ==
    \/ \E p \in Procs : Step(p)
    \/ \E w \in Wasms : Expire(w)
    \/ Terminated /\ UNCHANGED vars

Spec == Init /\ [][Next]_vars

-----------------------------------------------------------------------------
(* Properties *)

(* Every variable keeps its type. *)
TypeOK ==
    /\ txLog \in Seq(Procs)
    /\ codeStatus \in [Wasms -> CodeStatus]
    /\ codeExt \in [Wasms -> {"V0", "V1"}]
    /\ req \in [Procs -> Requests]
    /\ pc \in [Procs -> Stages]
    /\ readSeq \in [Procs -> Nat]
    /\ txSeq \in [Procs -> Nat]
    /\ resp \in [Procs -> {"none", "success", "internal"}]
    /\ outcome \in [Procs -> Outcomes]
    /\ observedLive \in [Procs -> BOOLEAN]
    /\ cacheLog \subseteq [by: Procs, item: {"txResp", "spec"}]

(* An install that returns Ok(TxnResult::Res(hash)) leaves the code entry   *)
(* live: when it last read or changed the ledger, whether by the            *)
(* idempotency skip (install.rs:156), its own upload, or the restore after   *)
(* a TxInternalError (install.rs:180-201), the entry was not archived.      *)
ResImpliesLive ==
    \A p \in Procs : outcome[p] = "res" => observedLive[p]

(* The inductive strengthening of ResImpliesLive: an invocation that has  *)
(* not returned has no outcome, and one about to write the spec (or the     *)
(* response of a submission that did not hit TxInternalError) has already  *)
(* seen the entry live.                                                     *)
LiveAt(p) ==
    /\ pc[p] # "done" => outcome[p] = "none"
    /\ outcome[p] = "res" => observedLive[p]
    /\ pc[p] = "writeSpec" => observedLive[p]
    /\ pc[p] = "cacheResp" /\ resp[p] # "internal" => observedLive[p]

LiveInv == \A p \in Procs : LiveAt(p)

(* A transaction of the account is rejected for its sequence number only   *)
(* when another invocation's transaction landed after this one fetched the *)
(* account: the pipeline itself always builds with the fetched sequence + 1 *)
(* (install.rs:126-130), and the restore fetches the account again.         *)
SeqRejectOnlyByRace ==
    \A p \in Procs :
        outcome[p] \in {"badSeq", "restoreBadSeq"} =>
            \E i \in readSeq[p] + 1 .. Len(txLog) : txLog[i] # p

(* Every transaction on the ledger comes from an invocation that asked for *)
(* neither --build-only nor --sim-only and passed the rc SDK gate           *)
(* (install.rs:106-114, 132, 170).                                          *)
NoSubmissionUnlessPermitted ==
    \A i \in 1 .. Len(txLog) :
        LET p == txLog[i] IN
        /\ ~req[p].buildOnly
        /\ ~req[p].simOnly
        /\ ~RcRefused(p)

(* Once a submission is confirmed successful, the invocation reports the   *)
(* hash: spec.md 4.5 says a cache write failure never aborts the pipeline.  *)
SuccessReported ==
    \A p \in Procs : pc[p] = "done" /\ resp[p] = "success" => outcome[p] = "res"

(* With the global --no-cache flag set, nothing is written to the cache     *)
(* (global.rs:33-35).                                                      *)
NoCacheRespected ==
    \A r \in cacheLog : ~req[r.by].noCache


-----------------------------------------------------------------------------
(* Refinement *)

(* The abstract contract of an install, with the pipeline's own state       *)
(* (pc, readSeq, txSeq, resp, cacheLog) hidden and the rest mapped to       *)
(* itself.                                                                  *)
Contract == INSTANCE InstallContract
    WITH Procs <- Procs, Wasms <- Wasms, RcWasms <- RcWasms,
         PublicNetwork <- PublicNetwork, Requests <- Requests,
         txLog <- txLog, codeStatus <- codeStatus, codeExt <- codeExt,
         req <- req, outcome <- outcome, observedLive <- observedLive

(* The whole pipeline of install.rs, concurrent invocations included,       *)
(* behaves as the contract: every ledger transaction comes from an           *)
(* invocation whose flags and rc gate allow submitting, each invocation      *)
(* returns once, the hash only after it saw its code entry live (the skip,   *)
(* the upload or the restore) and a transaction only if it sent none.        *)
ImplementsContract == Contract!ASpec

=============================================================================
