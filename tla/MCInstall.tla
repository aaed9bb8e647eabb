----------------------------- MODULE MCInstall ------------------------------
(* Model-checking instance of Install: two concurrent invocations signing  *)
(* with one key, two wasm files of which one was built with an rc SDK.     *)
EXTENDS Install, TLC

CONSTANTS p1, p2, w1, w2

MCProcs == {p1, p2}
MCWasms == {w1, w2}
MCRcWasms == {w2}

(* Command lines whose global args reach the handler, with every flag. *)
MCRequests ==
    {r \in Request : r.viaCli = FALSE}

(* Command lines run as `soroban contract install` from the shell: the     *)
(* global args never reach the handler (mod.rs:131, install.rs:76).        *)
MCCliRequests ==
    {r \in Request : r.viaCli /\ r.noCache /\ ~r.buildOnly /\ ~r.simOnly}

(* Two invocations apply at most two transactions each. *)
MCMaxSeq == 4

MCSymmetry == Permutations(MCProcs)
=============================================================================
