# Formal model of `soroban contract install` and neighbouring commands

This directory holds TLA+ models of the CLI commands under
`src/cmd/soroban-cli/src/commands/`, the TLC configurations that model-check
them, and TLAPS proofs of their main invariants. `PROJECT.json` lists every
component, run, mutant, source mapping, finding, hazard and theorem. This file
explains them.

## 1. The system

| Part | Source | State it changes |
|---|---|---|
| Install pipeline | `contract/install.rs` | the ledger (account sequence number, contract-code entry), the local result cache |
| Restore sub-command | called at `install.rs:186-201`; `restore.rs` is not in `src/` | the ledger (sequence number, code entry TTL) |
| Result cache | `data::write`, `data::write_spec` (not in `src/`) | files under the cache directory |
| Global arguments | `global.rs` | none; `--no-cache` decides whether the cache is written |
| Contract dispatch | `contract/mod.rs` | none; routes `contract install` to `install::Cmd::run` |
| Asset contract id | `contract/id/asset.rs` | none; prints a hash |
| Events query | `events.rs` | none; validates filters, then one RPC read |
| Project init | `contract/init.rs` | the local file tree (template copy, example clones, appended files) |

**How the parts interact.** An install invocation reads the account's sequence
number and builds an upload transaction numbered one higher. Unless the user
asked only to build (`--build-only`) or simulate (`--sim-only`), it then asks the
RPC for the code entry. It skips the upload when the entry exists with a
non-V0 extension. Otherwise it simulates, submits and waits for the result. It
then writes the response to the cache, and if the result is `TxInternalError`
(the code entry is archived) it runs the restore command, which fetches the
sequence number again and submits a RestoreFootprint. Last, it writes the
contract spec to the cache and prints the hash.

Several invocations signing with the same key share the account's sequence
number. The ledger moves on without them: code entries expire when their TTL
runs out.

**What is hard here.**

- Two invocations race on the sequence number (`install.rs:126-130` vs `:173`).
- The idempotency check (`:141-157`) reads an entry that may be archived or
  may be overtaken by another upload.
- The submit can be applied yet reported as a timeout (`:173-175`).
- A cache write can fail after the ledger accepted the upload (`:177`, `:204`).
- The restore after `TxInternalError` adds a second transaction that can fail
  on its own (`:186-201`).

## 2. Modules

| Module | Models | Kind |
|---|---|---|
| `Install.tla` | install pipeline, restore, cache writes, TTL expiry | component, CONSTANTS-parameterised |
| `MCInstall.tla` | instance for TLC: 2 invocations, 2 wasms (one built with an rc SDK) | model |
| `InstallProofs.tla` | TLAPS proofs for `Install` | proofs |
| `Events.tla` | `soroban events`: argument validation, RPC query, print loop | component |
| `MCEvents.tla` | instance for TLC: up to 2 topic filters of 1-6 segments, 2 ids, 2 events | model |
| `InstallContract.tla` | what one install promises, with the pipeline hidden | abstract specification |
| `InstallRefinementProofs.tla` | TLAPS proofs that no forbidden transaction lands and that `Install` implements `InstallContract` | proofs |
| `Init.tla` | `soroban contract init` over several runs: template copy, frontend merge, examples, kills, user edits | component |
| `MCInit.tla` | instance for TLC: a 3-file base template, a 4-file frontend, one example, 2 runs, 1 kill, 1 edit | model |
| `InstallSeqProofs.tla` | TLAPS proofs about the account sequence number: `SeqRejectOnlyByRace` | proofs |
| `EventsProofs.tla` | TLAPS proofs for `Events`: `TypeOK`, `ValidationMatchesReference` | proofs |
| `InitProofs.tla` | TLAPS proofs for `Init`: `TypeOK`, `DelimiterAtMostOnce`, `ExamplesUseWorkspace` | proofs |

### `Install.tla`

**State.**

- `txLog` is the sequence of invocations whose transactions the ledger
  applied. Its length is the account's sequence number (`AcctSeq`).
- `codeStatus[w]` is `"absent"`, `"live"` or `"archived"`, and `codeExt[w]` is
  `"V0"` or `"V1"`, for each wasm.
- Per invocation `p`:
  - `req[p]` is its command line. The `Request` record abstracts `Cmd` at
    `install.rs:24-36`.
  - `pc[p]` is the await point it has reached.
  - `readSeq[p]` and `txSeq[p]` are the sequence number it read and the one
    its transaction carries.
  - `resp[p]` is the submitted transaction's result.
  - `outcome[p]` is the `Error` variant or `"res"`/`"txn"` it returned.
  - `observedLive[p]` is a ghost variable: whether its code entry was live
    just after its last ledger step.
- `cacheLog` holds the cache writes, as records of invocation and item.

**Actions.** There is one action per stretch of `run_against_rpc_server`
between two awaits or two cache writes. Every early return is a `Finish`.

- `VerifyNetwork` covers `:97-120`, including the rc SDK gate (`RcRefused`).
- `GetAccount` covers `:121-134`.
- `GetLedgerEntries` covers `:135-165`.
- `Simulate` covers `:166-172`.
- `Submit` covers `:173-175`. The ledger applies the upload, rejects a stale
  sequence number or fails the transaction, and the poll may still time out
  after the apply.
- `WriteTxCache` covers `:176-202` up to the restore call.
- `RestoreGetAccount` and `RestoreSubmit` model the restore command from
  `spec.md` 4.4.
- `WriteSpec` covers `:203-206`.
- The environment action `Expire(w)` archives a live entry.

**Constants.**

- The three switches `PublicNetwork`, `RpcReturnsArchived` and `CacheMayFail`
  fix behaviours of the network and the cache that the code does not choose.
  - `RpcReturnsArchived` says whether `getLedgerEntries` returns an archived
    entry.
  - `CacheMayFail` says whether a `data::write` may fail.
- `Requests` is the set of command lines. Its `viaCli` field is TRUE when the
  handler is reached through `Cmd::run` (`install.rs:76`), which passes no
  global args, so `args.map_or(true, ..)` caches regardless of `--no-cache`.
- `MaxSeq` bounds the ledger.

### `InstallContract.tla`

This module is the abstract specification. Its state is the part of `Install`'s
state a caller or the ledger can see: `txLog`, `codeStatus`, `codeExt`, `req`,
`outcome` and `observedLive`. The pipeline's own state (`pc`, `readSeq`, `txSeq`,
`resp`, `cacheLog`) is hidden.

While an invocation has not returned, one step `AStep(p)` may do any of three
things:

- `Apply(p)`: append one transaction of `p`. This is allowed only if
  `Permitted(p)`, meaning no `--build-only`, no `--sim-only` and no rc refusal.
  The transaction may leave the code entry as it was, make it live, and make
  its extension non-V0.
- `Observe(p)`: record whether the entry is live after the step.
- `Return(p)`: return once. It may return `"res"` only if the entry was seen
  live, and `"txn"` only if no transaction of `p` is on the ledger.

`AExpire(w)` is the TTL. In `Install`, the refinement mapping is the identity on
the shared variables: `Contract == INSTANCE InstallContract WITH ...`. The
property is `ImplementsContract == Contract!ASpec`.

### `Init.tla`

**State.**

- `present` and `content` are the project directory. Paths are sequences of
  names. A file's content is a sequence of tokens: a template body (`"base"`,
  `"fe"`, `"ex"`), an edited manifest (`"edited"`), the user's text (`"user"`),
  a truncated write (`"partial"`) or a merge delimiter. The files persist
  across runs.
- `run`, `req`, `pc` and `outcome` describe the current run and how it ended.
  `online` is the result of the connection check.
- `baseTodo`, `copyTodo`, `src`, `cur`, `exLeft` and `ex` are the loop state of
  `copy_template_files`, `copy_contents` and `copy_example_contracts`.
- `crashes` and `edits` count kills and user edits. `MaxCrashes` and
  `MaxEdits` bound them.

**Actions.** There is one action per loop iteration or per file operation of
`init.rs`:

- `StartRun`: a new run of the command. Between runs, the user may have
  rewritten one file.
- `CreateProjectDir` (`:102-111`).
- `CopyTemplateFile` and `EndTemplate` (`:151-194`). The existence test is
  made on the pre-rename item.
- `CheckInternet` (`:114-119`).
- `CloneFrontend` (`:120-130`) and `CloneExamples` (`:133-142`).
- `CopyEntry` (`:196-256`). An existing README or `.gitignore` goes to the
  merge. Any other existing file is skipped. A new file is copied, and the
  copy may stop half way.
- `AppendContents` and `AppendBody` (`:424-444`). The delimiter write and the
  body write are two separate steps, because they are two `write_all` calls.
- `EndCopy`, `EditPackageJson`, `EditPackageLock` and `EditExampleCargo`
  (`:350-413`). All four share `EditManifest`: read, parse, then write.
- `NextExample` (`:298-316`).

**Fault model.**

- Every file operation may return an I/O error, and `?` ends the run.
- A write may stop half way, leaving `"partial"` (`Stop`).
- The process may be killed between any two steps (`Crash`). It is also
  killed when a half-written file is left (`CrashNow`).
- After any of these, the user may edit a file and run `init` again.

### `Events.tla`

**State.**

- `topics` is `self.topic_filters`, each filter already split at `,`. A
  segment is `"*"`, `"v"` (parses as a base64 `ScVal`) or `"x"` (does not
  parse; this includes the empty segment).
- `ids` holds the contract ids, each `"ok"` or `"bad"`.
- `ti`, `si` and `ii` are the loop indices. `pc` and `outcome` are where the
  command is and what it returned.
- `queried` records that `getEvents` was called with the filters.
- `nEvents` and `printed` count the events returned and printed.

**Actions.**

- `CheckSegment` is one iteration of the inner loop (`events.rs:143-158`):
  first the `i > 4` test on the zero-based index, then the parse of every
  segment that is not `*`.
- `NextTopic` and `EndTopics` cover the outer loop, and `CheckId` the id loop
  (`:162-168`).
- `GetNetwork`, `VerifyPassphrase` and `GetEvents` cover
  `run_against_rpc_server`. `start()` cannot fail, because clap requires
  exactly one of `--start-ledger` and `--cursor`.
- `PrintEvent` and `PrintLatest` cover the print loop (`:172-194`).

## 3. Runs

All runs use 2 invocations, 2 wasms, every initial code status and extension,
every command line of the chosen set, and symmetry over the invocations (they
are interchangeable: no property names one).

**`install_core`** (`MCInstall.cfg`, pass, about 876k distinct states). It
allows every behaviour except returning archived entries and failing cache
writes. It checks four invariants:

- `TypeOK`.
- `ResImpliesLive`: an install that prints a hash leaves that code live. This
  covers the idempotency skip, the upload, a `TxInternalError` followed by a
  restore, and races with expiry and with the other invocation.
- `SeqRejectOnlyByRace`: a bad-sequence error happens only if a transaction of
  *another* invocation landed after this one read the sequence number.
- `NoSubmissionUnlessPermitted`: no build-only, sim-only or rc-refused
  invocation ever has a transaction on the ledger.

**`install_archived_entry`** (violation of `ResImpliesLive`). With an RPC that
returns archived entries, the idempotency check at `:155` skips the upload for
an archived V1 entry. That is finding 1.

**`install_cache_abort`** (violation of `SuccessReported`: a confirmed success
is reported as success). A failing `data::write` after a successful upload
makes the command fail, while `spec.md` 4.5 says a cache failure never aborts.
That is finding 2.

**`install_no_cache`** (violation of `NoCacheRespected`). Through the CLI entry
point, `--no-cache` is ignored. That is finding 3.

**`events_validation`** (`MCEvents.cfg`, pass, 136k distinct states).

- `TypeOK`.
- `ValidationMatchesReference`: on every command line of the documented
  shape (each filter has 1-4 segments), the loops report what the documented
  validation reports, and `getEvents` is never called on input it rejects.
  The reference is declarative. It takes the first position (topic, then
  segment) past the documented limit or holding an unparsable segment, then
  the first bad id. On filters of five or more segments the code and the
  documentation disagree. The property says nothing there, and
  `events_topic_limit` shows the disagreement.
- The input set holds filters of one to six segments, with at most one
  segment that is not `"v"`. So the wildcard and the bad segment occur at
  every position of a filter of the documented shape, in the first or the
  second filter, together with good and bad ids. Longer filters are in the
  set too, for `events_topic_limit`.

**`events_topic_limit`** (violation of `TopicsWithinDocumentedLimit`). A
five-segment filter reaches `getEvents`, although the help text and the error
message say 1-4 segments. That is finding 4.

**`install_refinement`** (`MCInstallRefinement.cfg`, pass, the same 876k
states). It checks `ImplementsContract`: every behaviour of two concurrent
invocations, including expiry, is a behaviour of `InstallContract`. The
refinement fails when `getLedgerEntries` returns archived entries. That failure
is finding 1 again.

**`init_core`** (`MCInit.cfg`, pass, about 225k distinct states). It covers two
runs, one kill and one user edit, with every request (frontend or not, the
example or not) and every connection result. It checks:

- `TypeOK`.
- `DelimiterAtMostOnce`: re-running `init`, after killed or failed runs, never
  merges the frontend README or `.gitignore` twice.
- `ExamplesUseWorkspace`: a run that returns Ok after reaching the network has
  rewritten every example's `Cargo.toml`.

**`init_killed_merge`** (violation of `FrontendMerged`). A kill or an I/O error
between the two `write_all` calls of `append_contents` (`init.rs:439-440`)
leaves the delimiter without the body. The next run then sees the delimiter and
never writes the body. The run still returns Ok. That is finding 5.

**`init_template_overwrite`** (violation of `TemplateKeepsExisting`).
`copy_template_files` tests for `Cargo.toml.removeextension` (`:155`), a file
that is never written. So the user's `contracts/hello_world/Cargo.toml` is
overwritten on every run. That is finding 6.

**`init_truncated_file`** (violation of `NoTruncatedFileAfterOk`). A file left
half-copied by a killed run is "existing" on the next run and is skipped, so
that run returns Ok over a truncated file. That is finding 7.

**Bounds.**

- Each invocation applies at most two transactions (upload and restore), so
  `MaxSeq = 4` is never binding.
- Two invocations suffice for every race on the sequence number and on the
  code entry.
- Two wasms give both an rc-built and a normal wasm.
- For `init`, two runs are the least that shows a re-run over the leftovers of
  a killed or failed one. One kill and one edit put either before the second
  run. The base template has one README, one `.gitignore` and the renamed
  `Cargo.toml`, which is the only file with the rename. The frontend has the
  two merged files and the two manifests `edit_package_json_files` rewrites.
  One example covers the example loop and its manifest edit. A third run
  adds no new kind of step.

**Fairness and liveness.**

- No module assumes fairness, and no run checks a liveness property. Every
  handler is straight-line code over finite loops (`for` over a `Vec`, over
  `read_dir`, over a set of examples), so every run ends by construction. The
  one way a loop of `init` could run long, a symbolic-link cycle followed by
  `is_dir()` in `copy_contents`, is not modelled (section 5).
- Deadlock checking is on everywhere. Terminated states stutter through an
  explicit disjunct of `Next`.

**Mutants.** Each property of `install_core` is broken by a plausible bug in
the mapped code:

- A sequence number of `seq - 1` breaks `TypeOK`.
- Building with the unincremented sequence number breaks `SeqRejectOnlyByRace`.
- Ignoring `--sim-only` breaks `NoSubmissionUnlessPermitted`.
- Dropping the `TxInternalError` restore breaks `ResImpliesLive`.
- Dropping the `?` after the contract-id check (`events.rs:164-167`), so a bad
  id is passed over, breaks `ValidationMatchesReference`.
- A print loop that does not stop at the last event breaks `Events!TypeOK`.
- Ignoring a failed restore and going on to return the hash breaks
  `ImplementsContract`.
- Writing the template's `Cargo.toml.removeextension` under its own name
  breaks `Init!TypeOK`.
- Leaving out the delimiter test of `append_contents` breaks
  `DelimiterAtMostOnce`.
- Not editing the example's `Cargo.toml` breaks `ExamplesUseWorkspace`.

## 4. Proofs (checked by `tlapm`)

### `InstallProofs.tla`

**`TypeCorrect`**: `Spec => []TypeOK`, for any sets of invocations and wasms
and any `MaxSeq`. `InitTypeOK` and `NextTypeOK` are combined by PTL.

- The step is proved one action at a time.
- Each action's many-way update is first turned, with Zenon, into a
  disjunction of shapes, then split by CASE for SMT.
- The lemmas `FinishTypeOK` and `GotoTypeOK` type the two helpers that end or
  advance an invocation.

**`ResImpliesLiveHolds`**: under `~RpcReturnsArchived`, `Spec =>
[]ResImpliesLive`.

- `ResImpliesLive` alone is not inductive. An invocation about to write the
  spec (`pc = "writeSpec"`), or about to write the cache after a non-internal
  result, will report `"res"`, so it must already have seen the entry live.
  The strengthening `LiveInv` says, for each invocation `p` (`LiveAt(p)`):
  - not done ⇒ no outcome yet;
  - `res` ⇒ observed live;
  - at `writeSpec` ⇒ observed live;
  - at `cacheResp` with a non-internal result ⇒ observed live.
- TLC checked `LiveInv` as an invariant of the `install_core` instance before
  it was proved.
- `StepLiveSelf` proves that an invocation's own step keeps its `LiveAt`.
  `StepFrame` proves that a step leaves the other invocations' `pc`,
  `outcome`, `resp` and `observedLive` alone.
- `Expire` changes only the ledger, which `LiveAt` does not mention.
  `observedLive` records what the invocation saw, not the current state: this
  is the promise the CLI can make when it prints a hash.

### `InstallRefinementProofs.tla`

**`NoSubmissionHolds`**: `Spec =>
[]NoSubmissionUnlessPermitted`, with no assumption on the RPC.

- The invariant is not inductive alone: a submitting invocation must be known
  to carry a permitted command line.
- `PermAt(p)` records the flags each stage has been guarded by:
  - past `verify`, not rc-refused;
  - past `account`, not `--build-only`;
  - past `simulate` (or on the path that skips it), not `--sim-only`;
  - and a `"txn"` return only with one of the two flags.
- `StepTxLog` says that a step appends only its own transaction, and only from
  `submit` or `restoreSubmit`.

**`Refinement`**: under `~RpcReturnsArchived`, `Spec => ImplementsContract`.

- The argument uses the invariant `RInv == TypeOK /\ LiveInv /\ PermInv /\
  NoSubmissionUnlessPermitted`, and then shows that every `Next` step, with
  `RInv` before and after it, is an `ANext` step or a stutter.
- A step of `p` is split into its ledger part (`StepApply`), its observation
  (`StepObserve`) and its return (`StepReturn`).
- A `"res"` return is justified by `LiveInv` after the step. A `"txn"` return
  is justified by `PermInv` and `NoSubmissionUnlessPermitted` after the step:
  a build-only or sim-only invocation has no transaction on the ledger.
- TLC checked `PermInv` and `LiveInv` as invariants of the `install_core`
  instance before the proof was written.

### `InstallSeqProofs.tla`

**`SeqRejectOnlyByRaceHolds`**: `Spec => []SeqRejectOnlyByRace`, with no
assumption on the RPC.

- The strengthening `SeqInv` says, for each invocation `p` (`SeqAt(p)`):
  - not done ⇒ no outcome yet;
  - `readSeq[p] <= Len(txLog)`: the sequence number read is never ahead;
  - in a stage between a fetch and its submission (`Fresh`), `txSeq[p] =
    readSeq[p] + 1`, and no transaction of `p` has landed since the read.
- A rejected submission then has `txSeq[p] # Len(txLog) + 1`. So the ledger
  moved past `readSeq[p]`, and the transaction that moved it is not `p`'s.
- `StepSeqSelf` and `StepSeqOther` prove that the own step, and any other
  invocation's step, keep `SeqAt`. The other step only appends a transaction
  that is not `q`'s (`StepLog`).

### `EventsProofs.tla`

**`TypeCorrect`**: `Spec => []TypeOK`. `TypeOK` alone is not inductive:
`getEvents` may return fewer events than any bound. The print loop's index
must be known to be 0 until the loop starts, so `TypeInv` adds that.

**`ValidationMatchesReferenceHolds`**: `Spec => []ValidationMatchesReference`,
for every set of filters and every bound.

- The invariant is `DInv == DocumentedShape => VInv`. The shape is a fact
  about the input, which no step changes (`InputConst`), so the steps are
  proved under it (`VInvNext`). On such input the code's limit test `i > 4`
  never fires, and each position the loop passes or rejects is judged as
  the documented reference judges it.

- `VInv` is the loop invariant of the validation loops of
  `events.rs:142-168`:
  - while the topic loops run, no bad position lies before the cursor
    `<<ti, si>>`;
  - once they end, there is none;
  - the id loop has passed only good ids;
  - `getEvents` is reached only on valid input;
  - a finished run returned the reference's error.
- The reference picks the *first* bad position with CHOOSE. `FirstBad`
  proves that a bad position found with none before it is that choice, by
  contradiction with the minimality of the chosen one.
- The helper lemmas `DoneKeeps`, `LaterDoneKeeps` and `TopicsKeeps` carry
  `VInv` across steps that do not move the cursors. This keeps each SMT
  obligation small.

### `InitProofs.tla`

**`TypeCorrect`**: `Spec => []TypeOK`.

- `CtlInv` is the control invariant it rests on:
  - `copyTodo` holds only files of the source being copied;
  - `cur` is one of them while `append_contents` runs;
  - the base-template list holds only template items;
  - `ex` and `exLeft` are requested examples.
- `ProjStep` classifies every step's effect on the project directory: none, a
  rewrite of one file, an append of a non-delimiter token, or an append of a
  file's delimiter when the file does not hold it.

**`DelimiterAtMostOnceHolds`**: `Spec => []DelimiterAtMostOnce`, over any
number of runs, kills and edits.

- `DelimInv` says each merge delimiter occurs at most once (`Once`: two
  indices holding it are equal) in each file.
- `OnceAppendOther`, `OnceAppendFresh` and `OnceSingle` cover the cases of
  `ProjStep`. `OnceCount` turns `Once` into the property's count `<= 1` with
  the cardinality lemmas of `FiniteSetTheorems`.

**`ExamplesUseWorkspaceHolds`**: `Spec => []ExamplesUseWorkspace`.

- `EInv` says:
  - the examples already done (requested minus `exLeft`) have an edited
    `Cargo.toml`;
  - while an example is copied or edited, it is still in `exLeft`;
  - an idle run that ended ok online has edited every requested example.
- `CopyKeepsDone` proves that copying an example cannot overwrite an edited
  manifest of another: `CargoInjective` says that the `Cargo.toml` targets of
  distinct examples differ.

**Assumptions.** `InitAssumption` types the template and example files as
relative paths, and the requests as subsets of `Examples`. This is what
clap's `possible_example_values()` accepts (`init.rs:40, 52`). The others give
the bounds in `Nat`, Boolean flags, non-empty sets of invocations and
requests, and topic filters that are non-empty sequences of segments. TLC evaluates every assumption on
each run.

### Only model-checked

- There is no liveness property: every handler ends by construction (section
  3). Liveness and `ENABLED` would be out of the prover's reach anyway.
- `ImplementsContract` is proved only under `~RpcReturnsArchived`. Its failure
  with archived entries is a TLC counterexample (finding 1).
- The violation runs are TLC counterexamples by nature.
- Nothing in the proofs uses induction over data: the library's induction
  rules take an operator parameter the installed backends cannot
  instantiate. The loops of `Events` are handled by a loop invariant instead.
- `RECURSIVE` operators are kept out of the proof modules. TLAPM loses its SMT
  backend in every module that reaches one.

## 5. Not modelled, and the plan

**Not modelled.**

- **Local input errors** (wasm read/parse, oversize XDR, bad key) are returned
  before any network call and change no state. They are folded into the first
  action's error outcome or left out.
- **`id/asset.rs` and `global.rs::log_level`** are pure functions with no
  state.
- **Formatting of output** (hex or base64 printing in `Cmd::run`) is left out;
  no property is about it.
- **`init` details.**
  - Symbolic links and directories are not modelled. `is_dir()` follows
    links, so a link to an ancestor directory in a template makes
    `copy_contents` recurse, writing nested copies, until resolving the path
    fails at the kernel's symbolic-link limit and the run ends in an error.
  - The git clone itself is one step that succeeds or fails.
  - The texts of files are tokens.
- **`contract/mod.rs`, `contract/asset.rs`, the rest of `global.rs`** are
  dispatch and argument structs with no state of their own.

**Plan for the next sittings.**

1. `Init`: a model of the symlink case.
2. A composition of `Init` and `Install`: build, then install, the project's
   contract.
