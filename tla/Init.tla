-------------------------------- MODULE Init --------------------------------
(***************************************************************************)
(* `soroban contract init` (src/.../commands/contract/init.rs): the        *)
(* project directory it fills in, over several runs of the command.        *)
(*                                                                         *)
(* A run copies the embedded base template (copy_template_files), checks   *)
(* the connection, clones and copies a frontend template (copy_contents,   *)
(* append_contents, edit_package_json_files) and clones and copies example *)
(* contracts (copy_example_contracts, edit_contract_cargo_file).  Every    *)
(* file operation may fail with an I/O error, a write may stop half way,   *)
(* and the process may be killed between any two steps; the user may then  *)
(* edit the project and run init again.  Files persist across runs.        *)
(*                                                                         *)
(* Data abstraction: a path is a sequence of names; the code's substring   *)
(* tests on the path (`contains(".gitignore")`, `contains("README.md")`)   *)
(* become tests on its names.  A file's content is a sequence of tokens:   *)
(* the body of the template file it came from ("base", "fe", "ex"), an     *)
(* edited manifest ("edited"), the user's own text ("user"), a truncated   *)
(* write ("partial") and the three merge delimiters.                       *)
(***************************************************************************)
EXTENDS Naturals, Sequences, FiniteSets

CONSTANTS
    BaseTemplate,   \* TemplateFiles::iter(), in its order
    FrontendFiles,  \* the files of the cloned frontend template
    Examples,       \* the example contract names --with-example accepts
    ExampleFiles,   \* the files of one example directory
    Requests,       \* the command lines a run may be given
    MaxRuns,        \* how many times init is run
    MaxCrashes,     \* how many runs may be killed
    MaxEdits        \* how many times the user edits a file between runs

\* A command line names only examples clap's possible_example_values()
\* accepts (init.rs:40, 52); the files of an example are relative paths.
ASSUME InitAssumption ==
    /\ BaseTemplate \in Seq(Seq(STRING)) /\ ExampleFiles \subseteq Seq(STRING)
    /\ MaxRuns \in Nat
    /\ MaxCrashes \in Nat /\ MaxEdits \in Nat
    /\ Requests \subseteq [frontend : BOOLEAN, examples : SUBSET Examples]

Tokens == {"base", "fe", "ex", "edited", "user", "partial",
           "dReadme", "dGitignore", "dNone"}
Outcomes == {"none", "ok", "crashed", "io", "clone", "toml", "json"}

Segs(s) == {s[i] : i \in DOMAIN s}

\* contents_to_exclude_from_copy, matched against every entry name.
Excluded == {".git", ".github", "Makefile", ".vscode", "target"}
Skipped(p) == Segs(p) \cap Excluded # {}

\* The Cargo.toml.removeextension workaround of copy_template_files.
TemplateTarget(item) ==
    IF item[Len(item)] = "Cargo.toml.removeextension"
    THEN SubSeq(item, 1, Len(item) - 1) \o <<"Cargo.toml">>
    ELSE item

ContractDir(e) == <<"contracts", e>>
CargoOf(e) == ContractDir(e) \o <<"Cargo.toml">>
PackageFiles == {<<"package.json">>, <<"package-lock.json">>}

Paths == {TemplateTarget(BaseTemplate[i]) : i \in 1..Len(BaseTemplate)}
         \cup FrontendFiles \cup PackageFiles
         \cup {ContractDir(e) \o f : e \in Examples, f \in ExampleFiles}
         \cup {CargoOf(e) : e \in Examples}

IsReadme(p) == "README.md" \in Segs(p)
IsGitignore(p) == ".gitignore" \in Segs(p)

\* get_merged_file_delimiter
Delimiter(p) ==
    IF IsReadme(p) THEN "dReadme"
    ELSE IF IsGitignore(p) THEN "dGitignore" ELSE "dNone"

\* cargo_toml::Manifest::from_path / serde_json::from_str accept the text.
Parses(c) == c # <<>> /\ "partial" \notin Segs(c)

VARIABLES
    present,    \* the files of the project directory
    content,    \* and what each holds
    run,        \* how many runs have started
    req,        \* the current run's command line
    pc,         \* where the current run is; "idle" between runs
    outcome,    \* what the last run returned
    online,     \* check_internet_connection() said yes in this run
    baseTodo,   \* the template items copy_template_files has still to visit
    copyTodo,   \* the entries copy_contents has still to visit
    src,        \* which copy_contents runs: "fe" (frontend) or "ex" (example)
    cur,        \* the entry append_contents works on
    exLeft,     \* the examples copy_example_contracts has still to do
    ex,         \* the example it is doing
    crashes, edits

proj == <<present, content>>
ctl == <<baseTodo, copyTodo, src, cur, exLeft, ex>>
vars == <<present, content, run, req, pc, outcome, online, baseTodo,
          copyTodo, src, cur, exLeft, ex, crashes, edits>>

Finish(o) == pc' = "idle" /\ outcome' = o

\* The process is killed: the run ends where it is.
CrashNow == crashes < MaxCrashes /\ crashes' = crashes + 1 /\ Finish("crashed")

\* A write that stops half way: an I/O error returned by `?`, or a kill.
Stop == (Finish("io") /\ UNCHANGED crashes) \/ CrashNow

WriteFile(p, tok) ==
    /\ present' = present \cup {p}
    /\ content' = [content EXCEPT ![p] = <<tok>>]

AppendTok(p, tok) ==
    /\ content' = [content EXCEPT ![p] = Append(@, tok)]
    /\ UNCHANGED present

Target(f) == IF src = "fe" THEN f ELSE ContractDir(ex) \o f

Init ==
    /\ present = {} /\ content = [p \in Paths |-> <<>>]
    /\ run = 0 /\ req \in Requests /\ pc = "idle" /\ outcome = "none"
    /\ online = FALSE /\ baseTodo = <<>> /\ copyTodo = {} /\ src = "fe"
    /\ cur = <<>> /\ exLeft = {} /\ ex \in Examples
    /\ crashes = 0 /\ edits = 0

\* The user (re)runs `soroban contract init`, having perhaps rewritten one
\* file of the project since the last run.
StartRun ==
    /\ pc = "idle" /\ run < MaxRuns
    /\ run' = run + 1 /\ req' \in Requests
    /\ pc' = "create" /\ outcome' = "none" /\ online' = FALSE
    /\ \/ UNCHANGED <<content, edits>>
       \/ edits < MaxEdits /\ edits' = edits + 1
          /\ \E p \in present : content' = [content EXCEPT ![p] = <<"user">>]
    /\ UNCHANGED <<present, ctl, crashes>>

\* init: create_dir_all(project_path)?
CreateProjectDir ==
    /\ pc = "create"
    /\ \/ Finish("io") /\ UNCHANGED baseTodo
       \/ pc' = "base" /\ baseTodo' = BaseTemplate /\ UNCHANGED outcome
    /\ UNCHANGED <<proj, run, req, online, copyTodo, src, cur, exLeft, ex, crashes, edits>>

\* Mutant: the Cargo.toml.removeextension item is written under its own name.
CopyTemplateFileNoRename ==
    /\ pc = "base" /\ baseTodo # <<>>
    /\ LET item == Head(baseTodo) IN
       \/ item \in present /\ baseTodo' = Tail(baseTodo)
          /\ UNCHANGED <<proj, pc, outcome, crashes>>
       \/ item \notin present /\ Finish("io") /\ UNCHANGED <<proj, baseTodo, crashes>>
       \/ item \notin present /\ WriteFile(item, "base")
          /\ baseTodo' = Tail(baseTodo) /\ UNCHANGED <<pc, outcome, crashes>>
       \/ item \notin present /\ WriteFile(item, "partial") /\ Stop
          /\ UNCHANGED baseTodo
    /\ UNCHANGED <<run, req, online, copyTodo, src, cur, exLeft, ex, edits>>

\* One iteration of copy_template_files: the existence test is made on
\* project_path.join(item) (line 153), before the rename of line 184.
CopyTemplateFile ==
    /\ pc = "base" /\ baseTodo # <<>>
    /\ LET item == Head(baseTodo)
           to == TemplateTarget(item) IN
       \/ item \in present /\ baseTodo' = Tail(baseTodo)
          /\ UNCHANGED <<proj, pc, outcome, crashes>>
       \/ item \notin present /\ Finish("io") /\ UNCHANGED <<proj, baseTodo, crashes>>
       \/ item \notin present /\ WriteFile(to, "base")
          /\ baseTodo' = Tail(baseTodo) /\ UNCHANGED <<pc, outcome, crashes>>
       \/ item \notin present /\ WriteFile(to, "partial") /\ Stop
          /\ UNCHANGED baseTodo
    /\ UNCHANGED <<run, req, online, copyTodo, src, cur, exLeft, ex, edits>>

EndTemplate ==
    /\ pc = "base" /\ baseTodo = <<>>
    /\ pc' = "net"
    /\ UNCHANGED <<proj, run, req, outcome, online, ctl, crashes, edits>>

\* init, lines 114-117: without a connection it returns Ok at once; with
\* one it goes on to the frontend template, then to the examples.
CheckInternet ==
    /\ pc = "net"
    /\ \/ online' = FALSE /\ Finish("ok")
       \/ online' = TRUE /\ req.frontend /\ pc' = "feClone"
          /\ UNCHANGED outcome
       \/ online' = TRUE /\ ~req.frontend /\ req.examples # {}
          /\ pc' = "exClone" /\ UNCHANGED outcome
       \/ online' = TRUE /\ ~req.frontend /\ req.examples = {}
          /\ Finish("ok")
    /\ UNCHANGED <<proj, run, req, ctl, crashes, edits>>

\* tempfile::tempdir() and clone_repo(frontend_template, ..): either fails,
\* or copy_frontend_files starts copy_contents over the clone.
CloneFrontend ==
    /\ pc = "feClone"
    /\ \/ Finish("clone") /\ UNCHANGED <<copyTodo, src>>
       \/ pc' = "copy" /\ src' = "fe" /\ UNCHANGED outcome
          /\ copyTodo' = {f \in FrontendFiles : ~Skipped(f)}
    /\ UNCHANGED <<proj, run, req, online, baseTodo, cur, exLeft, ex, crashes, edits>>

\* One entry of copy_contents (lines 202-245): an existing file is skipped,
\* after append_contents if its path names README.md or .gitignore; a new
\* file is copied, and copy() may stop half way.
CopyEntry ==
    /\ pc = "copy"
    /\ \E f \in copyTodo :
       LET to == Target(f) IN
       \/ to \in present /\ (IsReadme(to) \/ IsGitignore(to))
          /\ pc' = "append" /\ cur' = f /\ UNCHANGED <<proj, outcome, copyTodo, crashes>>
       \/ to \in present /\ ~IsReadme(to) /\ ~IsGitignore(to)
          /\ copyTodo' = copyTodo \ {f}
          /\ UNCHANGED <<proj, pc, outcome, cur, crashes>>
       \/ to \notin present /\ Finish("io") /\ UNCHANGED <<proj, copyTodo, cur, crashes>>
       \/ to \notin present /\ WriteFile(to, src) /\ copyTodo' = copyTodo \ {f}
          /\ UNCHANGED <<pc, outcome, cur, crashes>>
       \/ to \notin present /\ WriteFile(to, "partial") /\ Stop
          /\ UNCHANGED <<copyTodo, cur>>
    /\ UNCHANGED <<run, req, online, baseTodo, src, exLeft, ex, edits>>

\* Mutant: the delimiter test of line 435 is left out.
AppendContentsNoCheck ==
    /\ pc = "append"
    /\ LET to == Target(cur) IN
       \/ Finish("io") /\ UNCHANGED <<content, crashes>>
       \/ AppendTok(to, Delimiter(to)) /\ pc' = "appendBody"
          /\ UNCHANGED <<outcome, crashes>>
       \/ AppendTok(to, "partial") /\ Stop
    /\ UNCHANGED <<present, run, req, online, ctl, edits>>

\* append_contents up to and including the write of the delimiter: the
\* two files are opened and read, and nothing is written when the target
\* already holds the delimiter.
AppendContents ==
    /\ pc = "append"
    /\ LET to == Target(cur) IN
       \/ Finish("io") /\ UNCHANGED <<content, crashes>>
       \/ Delimiter(to) \in Segs(content[to]) /\ pc' = "copy"
          /\ UNCHANGED <<content, outcome, crashes>>
       \/ Delimiter(to) \notin Segs(content[to])
          /\ AppendTok(to, Delimiter(to)) /\ pc' = "appendBody"
          /\ UNCHANGED <<outcome, crashes>>
       \/ Delimiter(to) \notin Segs(content[to])
          /\ AppendTok(to, "partial") /\ Stop
    /\ /\ pc' = "copy" => copyTodo' = copyTodo \ {cur}
       /\ pc' # "copy" => UNCHANGED copyTodo
    /\ UNCHANGED <<present, run, req, online, baseTodo, src, cur, exLeft, ex, edits>>

\* append_contents, line 440: the second write_all, of the source text.
AppendBody ==
    /\ pc = "appendBody"
    /\ LET to == Target(cur) IN
       \/ AppendTok(to, src) /\ pc' = "copy" /\ copyTodo' = copyTodo \ {cur}
          /\ UNCHANGED <<outcome, crashes>>
       \/ AppendTok(to, "partial") /\ Stop /\ UNCHANGED copyTodo
    /\ UNCHANGED <<present, run, req, online, baseTodo, src, cur, exLeft, ex, edits>>

\* Mutant: copy_example_contracts does not call edit_contract_cargo_file.
EndCopyNoEdit ==
    /\ pc = "copy" /\ copyTodo = {}
    /\ pc' = IF src = "fe" THEN "pkg" ELSE "exNext"
    /\ exLeft' = IF src = "fe" THEN exLeft ELSE exLeft \ {ex}
    /\ UNCHANGED <<proj, run, req, outcome, online, baseTodo, copyTodo, src, cur, ex, crashes, edits>>

\* copy_contents has visited every entry: copy_frontend_files goes on to
\* edit_package_json_files, copy_example_contracts to edit_contract_cargo_file.
EndCopy ==
    /\ pc = "copy" /\ copyTodo = {}
    /\ pc' = IF src = "fe" THEN "pkg" ELSE "exEdit"
    /\ UNCHANGED <<proj, run, req, outcome, online, ctl, crashes, edits>>

\* Read, parse and rewrite a manifest (edit_package_name, lines 398-410;
\* edit_contract_cargo_file, lines 350-363), then go on with Continue.  A
\* missing file fails like an unreadable one (read_to_string's IoError,
\* Manifest::from_path's error), since an absent file has no content.
EditManifest(p, err, Continue) ==
    \/ ~Parses(content[p]) /\ Finish(err) /\ UNCHANGED <<proj, crashes>>
    \/ Parses(content[p]) /\ WriteFile(p, "edited") /\ Continue
       /\ UNCHANGED crashes
    \/ Parses(content[p]) /\ WriteFile(p, "partial") /\ Stop

\* edit_package_json_files: package.json, then package-lock.json; after the
\* frontend, init goes on to the examples if there are any.
EditPackageJson ==
    /\ pc = "pkg"
    /\ EditManifest(<<"package.json">>, "json",
                    pc' = "pkgLock" /\ UNCHANGED outcome)
    /\ UNCHANGED <<run, req, online, ctl, edits>>

EditPackageLock ==
    /\ pc = "pkgLock"
    /\ EditManifest(<<"package-lock.json">>, "json",
                    IF req.examples # {} THEN pc' = "exClone" /\ UNCHANGED outcome
                    ELSE Finish("ok"))
    /\ UNCHANGED <<run, req, online, ctl, edits>>

\* tempfile::tempdir() and clone_repo(SOROBAN_EXAMPLES_URL, ..).
CloneExamples ==
    /\ pc = "exClone"
    /\ \/ Finish("clone") /\ UNCHANGED exLeft
       \/ pc' = "exNext" /\ exLeft' = req.examples /\ UNCHANGED outcome
    /\ UNCHANGED <<proj, run, req, online, baseTodo, copyTodo, src, cur, ex, crashes, edits>>

\* One iteration of copy_example_contracts: create_dir_all of the
\* contract's directory, then copy_contents of the example into it; or the
\* end of the loop and of init.
NextExample ==
    /\ pc = "exNext"
    /\ \/ exLeft = {} /\ Finish("ok") /\ UNCHANGED <<copyTodo, src, ex>>
       \/ \E e \in exLeft :
            /\ ex' = e
            /\ \/ Finish("io") /\ UNCHANGED <<copyTodo, src>>
               \/ pc' = "copy" /\ src' = "ex" /\ UNCHANGED outcome
                  /\ copyTodo' = {f \in ExampleFiles : ~Skipped(f)}
    /\ UNCHANGED <<proj, run, req, online, baseTodo, cur, exLeft, crashes, edits>>

EditExampleCargo ==
    /\ pc = "exEdit"
    /\ EditManifest(CargoOf(ex), "toml",
                    pc' = "exNext" /\ exLeft' = exLeft \ {ex} /\ UNCHANGED outcome)
    /\ \/ pc' = "exNext"
       \/ pc' # "exNext" /\ UNCHANGED exLeft
    /\ UNCHANGED <<run, req, online, baseTodo, copyTodo, src, cur, ex, edits>>

\* The process is killed between two steps.
Crash ==
    /\ pc # "idle"
    /\ CrashNow
    /\ UNCHANGED <<proj, run, req, online, ctl, edits>>

\* Every step of a running init, the kill excepted.
RunStep ==
    \/ CreateProjectDir \/ CopyTemplateFile \/ EndTemplate \/ CheckInternet
    \/ CloneFrontend \/ CopyEntry \/ AppendContents \/ AppendBody \/ EndCopy
    \/ EditPackageJson \/ EditPackageLock
    \/ CloneExamples \/ NextExample \/ EditExampleCargo

Next ==
    \/ StartRun \/ RunStep \/ Crash
    \/ pc = "idle" /\ run = MaxRuns /\ UNCHANGED vars

Spec == Init /\ [][Next]_vars

-----------------------------------------------------------------------------
(* Properties *)

TypeOK ==
    /\ present \subseteq Paths /\ content \in [Paths -> Seq(Tokens)]
    /\ run \in 0..MaxRuns /\ req \in Requests
    /\ pc \in {"idle", "create", "base", "net", "feClone", "copy", "append",
               "appendBody", "pkg", "pkgLock", "exClone", "exNext", "exEdit"}
    /\ outcome \in Outcomes /\ online \in BOOLEAN
    /\ crashes \in 0..MaxCrashes /\ edits \in 0..MaxEdits

Count(c, t) == Cardinality({i \in DOMAIN c : c[i] = t})

\* Re-running init never merges the frontend README.md or .gitignore into
\* the project twice: each merge delimiter occurs at most once in a file
\* (the test test_init_does_not_duplicate_frontend_readme_contents_when_
\* run_more_than_once), whatever runs were killed or failed before.
DelimiterAtMostOnce ==
    \A p \in Paths : \A d \in {"dReadme", "dGitignore"} : Count(content[p], d) <= 1

\* When init returns Ok after reaching the network, every example contract
\* it was asked for has a Cargo.toml rewritten by edit_contract_cargo_file
\* (assert_contract_cargo_file_uses_workspace), even where an earlier run
\* was killed or the user edited the file.
ExamplesUseWorkspace ==
    pc = "idle" /\ outcome = "ok" /\ online =>
        \A e \in req.examples : content[CargoOf(e)] = <<"edited">>

\* When init returns Ok having cloned the frontend, every README.md and
\* .gitignore of the template is in the project (the tests
\* assert_readme_includes_frontend_readme_appended and
\* assert_gitignore_includes_astro_paths).
FrontendMerged ==
    pc = "idle" /\ outcome = "ok" /\ online /\ req.frontend =>
        \A f \in FrontendFiles :
            (IsReadme(f) \/ IsGitignore(f)) /\ ~Skipped(f) => "fe" \in Segs(content[f])

\* When init returns Ok, no file of the project is a truncated write.
NoTruncatedFileAfterOk ==
    pc = "idle" /\ outcome = "ok" =>
        \A p \in present : "partial" \notin Segs(content[p])

\* copy_template_files leaves every file that already exists as it is (it
\* prints "Skipped creating ... as it already exists").
TemplateKeepsExisting ==
    [][CopyTemplateFile => \A p \in present : content'[p] = content[p]]_vars
=============================================================================
