--------------------------- MODULE InstallContract ---------------------------
(***************************************************************************)
(* What `soroban contract install` promises, seen from the ledger and from  *)
(* the caller, with the pipeline of install.rs (the awaits, the sequence     *)
(* numbers, the responses, the cache) hidden.  Each invocation, while it has *)
(* not returned, may in one step                                             *)
(*   - apply one transaction of the account, if its command line allows a    *)
(*     submission at all; the transaction may leave its code entry as it     *)
(*     was, make it live, and give it a non-V0 extension;                    *)
(*   - look at its code entry and remember whether it is live;               *)
(*   - return, once: the hash only if the entry was live when it last looked, *)
(*     a transaction only if it never submitted one.                         *)
(* Install.tla is shown to implement this specification (ImplementsContract). *)
(***************************************************************************)
EXTENDS Naturals, Sequences

CONSTANTS Procs, Wasms, RcWasms, PublicNetwork, Requests

VARIABLES
    txLog,        \* transactions applied for the account, by invocation
    codeStatus,   \* wasm hash -> state of its ContractCode ledger entry
    codeExt,      \* wasm hash -> ContractCodeEntryExt of that entry
    req,          \* invocation -> its command line
    outcome,      \* invocation -> what it returned, "none" while running
    observedLive  \* invocation -> the entry was live when it last looked

avars == <<txLog, codeStatus, codeExt, req, outcome, observedLive>>

AOutcomes == {"none", "txn", "res", "networkErr", "refused", "simErr",
              "badSeq", "txFailed", "cacheErr", "restoreFailed", "restoreBadSeq"}

(* The command line lets the invocation reach the network with a            *)
(* transaction: neither --build-only nor --sim-only, and not refused by the  *)
(* rc SDK gate.                                                             *)
Permitted(p) ==
    /\ ~req[p].buildOnly
    /\ ~req[p].simOnly
    /\ ~(req[p].wasm \in RcWasms /\ ~req[p].ignoreChecks /\ PublicNetwork)

Submitted(p) == \E i \in 1 .. Len(txLog) : txLog[i] = p

AInit ==
    /\ txLog = <<>>
    /\ codeStatus \in [Wasms -> {"absent", "live", "archived"}]
    /\ codeExt \in [Wasms -> {"V0", "V1"}]
    /\ req \in [Procs -> Requests]
    /\ outcome = [p \in Procs |-> "none"]
    /\ observedLive = [p \in Procs |-> FALSE]

(* One transaction of p lands on the ledger. *)
Apply(p) ==
    LET w == req[p].wasm IN
    /\ Permitted(p)
    /\ txLog' = Append(txLog, p)
    /\ codeStatus' \in {codeStatus, [codeStatus EXCEPT ![w] = "live"]}
    /\ codeExt' \in {codeExt, [codeExt EXCEPT ![w] = "V1"]}

(* p looks at its code entry, after the ledger change of this step. *)
Observe(p) ==
    observedLive' = [observedLive EXCEPT ![p] = codeStatus'[req[p].wasm] = "live"]

(* p returns. *)
Return(p) ==
    /\ outcome' \in {[outcome EXCEPT ![p] = o] : o \in AOutcomes \ {"none"}}
    /\ outcome'[p] = "res" => observedLive'[p]
    /\ outcome'[p] = "txn" => ~Submitted(p)'

AStep(p) ==
    /\ outcome[p] = "none"
    /\ Apply(p) \/ UNCHANGED <<txLog, codeStatus, codeExt>>
    /\ Observe(p) \/ UNCHANGED observedLive
    /\ Return(p) \/ UNCHANGED outcome
    /\ UNCHANGED req

(* The environment: a live entry's TTL runs out. *)
AExpire(w) ==
    /\ codeStatus[w] = "live"
    /\ codeStatus' = [codeStatus EXCEPT ![w] = "archived"]
    /\ UNCHANGED <<txLog, codeExt, req, outcome, observedLive>>

ANext == (\E p \in Procs : AStep(p)) \/ (\E w \in Wasms : AExpire(w))

ASpec == AInit /\ [][ANext]_avars
=============================================================================
