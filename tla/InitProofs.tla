------------------------------ MODULE InitProofs ------------------------------
(* Proofs about `soroban contract init` (Init), for every template, every   *)
(* set of examples and every bound on runs, kills and edits: the project     *)
(* stays well typed, and no merge delimiter is ever written twice into a     *)
(* file, whatever runs were killed, failed or were repeated.                 *)
EXTENDS Init, FiniteSetTheorems, TLAPS

-----------------------------------------------------------------------------
(* The control state of a run only ever names files of the templates. *)

(* The items of the embedded base template. *)
BaseItems == {BaseTemplate[i] : i \in 1 .. Len(BaseTemplate)}

(* The entries copy_contents copies from: the frontend clone or an example. *)
Sources(s) == IF s = "fe" THEN FrontendFiles ELSE ExampleFiles

(* copy_template_files visits items of the template; copy_contents visits    *)
(* entries of the tree it was started on and appends to one of them;         *)
(* copy_example_contracts works on examples clap accepted.                   *)
CtlInv ==
    /\ req \in Requests
    /\ baseTodo \in Seq(BaseItems)
    /\ src \in {"fe", "ex"} /\ ex \in Examples /\ exLeft \subseteq Examples
    /\ copyTodo \subseteq Sources(src)
    /\ pc \in {"append", "appendBody"} => cur \in Sources(src)

LEMMA CtlInvInit == Init => CtlInv
<1> SUFFICES ASSUME Init PROVE CtlInv
  OBVIOUS
<1>1. req \in Requests /\ ex \in Examples /\ pc = "idle"
  BY DEF Init
<1>2. baseTodo = <<>> /\ copyTodo = {} /\ src = "fe" /\ exLeft = {}
  BY DEF Init
<1>3. QED
  BY <1>1, <1>2 DEF CtlInv

(* The examples of a command line are examples clap accepts. *)
LEMMA ReqExamples ==
    ASSUME NEW r \in Requests
    PROVE  r.examples \subseteq Examples
BY InitAssumption

(* The base template is a sequence of its own items. *)
LEMMA TemplateSeq == BaseTemplate \in Seq(BaseItems)
<1>1. BaseTemplate \in Seq(Seq(STRING))
  BY InitAssumption
<1>2. \A i \in 1 .. Len(BaseTemplate) : BaseTemplate[i] \in BaseItems
  BY DEF BaseItems
<1>3. BaseTemplate \in [1 .. Len(BaseTemplate) -> BaseItems]
  BY <1>1, <1>2
<1>4. Len(BaseTemplate) \in Nat
  BY <1>1
<1>5. QED
  BY <1>3, <1>4

LEMMA CtlInvNext == CtlInv /\ [Next]_vars => CtlInv'
<1> SUFFICES ASSUME CtlInv, [Next]_vars PROVE CtlInv'
  OBVIOUS
<1> USE DEF CtlInv, Finish, CrashNow, Stop, WriteFile, AppendTok
<1>1. CASE StartRun
  BY <1>1 DEF StartRun, ctl
<1>2. CASE CreateProjectDir
  BY <1>2, TemplateSeq DEF CreateProjectDir
<1>3. CASE CopyTemplateFile
  <2>1. baseTodo # <<>> /\ (baseTodo' = Tail(baseTodo) \/ baseTodo' = baseTodo)
    BY <1>3, Zenon DEF CopyTemplateFile
  <2>2. baseTodo' \in Seq(BaseItems)
    BY <2>1
  <2>3. pc' \in {"base", "idle"}
    BY <1>3, Zenon DEF CopyTemplateFile
  <2>4. QED
    BY <1>3, <2>2, <2>3 DEF CopyTemplateFile
<1>4. CASE EndTemplate
  BY <1>4 DEF EndTemplate, ctl
<1>5. CASE CheckInternet
  BY <1>5 DEF CheckInternet, ctl
<1>6. CASE CloneFrontend
  BY <1>6 DEF CloneFrontend, Sources
<1>7. CASE CopyEntry
  <2>1. PICK f \in copyTodo :
          /\ \/ pc' = "append" /\ cur' = f /\ copyTodo' = copyTodo
             \/ pc' \in {"copy", "idle"} /\ copyTodo' \subseteq copyTodo
          /\ UNCHANGED <<req, baseTodo, src, exLeft, ex>>
    BY <1>7, Zenon DEF CopyEntry
  <2>2. QED
    BY <2>1
<1>8. CASE AppendContents
  <2>1. /\ pc' \in {"idle", "copy", "appendBody"} /\ copyTodo' \subseteq copyTodo
        /\ UNCHANGED <<req, baseTodo, src, cur, exLeft, ex>>
    BY <1>8, Zenon DEF AppendContents
  <2>2. QED
    BY <1>8, <2>1 DEF AppendContents
<1>9. CASE AppendBody
  <2>1. /\ pc' \in {"idle", "copy"} /\ copyTodo' \subseteq copyTodo
        /\ UNCHANGED <<req, baseTodo, src, cur, exLeft, ex>>
    BY <1>9, Zenon DEF AppendBody
  <2>2. QED
    BY <2>1
<1>10. CASE EndCopy
  BY <1>10 DEF EndCopy, ctl
<1>11. CASE EditPackageJson
  <2>1. pc' \in {"idle", "pkgLock"} /\ UNCHANGED <<req, ctl>>
    BY <1>11, Zenon DEF EditPackageJson, EditManifest
  <2>2. QED
    BY <2>1 DEF ctl
<1>12. CASE EditPackageLock
  <2>1. pc' \in {"idle", "exClone"} /\ UNCHANGED <<req, ctl>>
    BY <1>12, Zenon DEF EditPackageLock, EditManifest
  <2>2. QED
    BY <2>1 DEF ctl
<1>13. CASE CloneExamples
  BY <1>13, ReqExamples DEF CloneExamples
<1>14. CASE NextExample
  <2>1. CASE exLeft = {} /\ Finish("ok") /\ UNCHANGED <<copyTodo, src, ex>>
    BY <1>14, <2>1 DEF NextExample
  <2>2. CASE \E e \in exLeft :
               /\ ex' = e
               /\ \/ Finish("io") /\ UNCHANGED <<copyTodo, src>>
                  \/ pc' = "copy" /\ src' = "ex" /\ UNCHANGED outcome
                     /\ copyTodo' = {f \in ExampleFiles : ~Skipped(f)}
    BY <1>14, <2>2 DEF NextExample, Sources
  <2>3. QED
    BY <1>14, <2>1, <2>2 DEF NextExample
<1>15. CASE EditExampleCargo
  <2>1. /\ pc' \in {"idle", "exNext"} /\ exLeft' \subseteq exLeft
        /\ UNCHANGED <<req, baseTodo, copyTodo, src, cur, ex>>
    BY <1>15, Zenon DEF EditExampleCargo, EditManifest
  <2>2. QED
    BY <2>1
<1>16. CASE Crash
  BY <1>16 DEF Crash, ctl
<1>17. CASE pc = "idle" /\ run = MaxRuns /\ UNCHANGED vars
  BY <1>17 DEF vars
<1>18. CASE UNCHANGED vars
  BY <1>18 DEF vars
<1>19. QED
  BY <1>1, <1>2, <1>3, <1>4, <1>5, <1>6, <1>7, <1>8, <1>9, <1>10, <1>11,
     <1>12, <1>13, <1>14, <1>15, <1>16, <1>17, <1>18 DEF Next, RunStep

-----------------------------------------------------------------------------
(* How one step may change the project directory. *)

(* The two merge delimiters of get_merged_file_delimiter. *)
Delims == {"dReadme", "dGitignore"}

(* A file is (re)written with a single token: a copy, an edit, a truncated  *)
(* write, or the user's own text.                                            *)
Rewrite(p, tok) ==
    /\ present' = present \cup {p}
    /\ content' = [content EXCEPT ![p] = <<tok>>]

(* A token is appended to a file, by append_contents. *)
Extend(p, tok) ==
    /\ present' = present
    /\ content' = [content EXCEPT ![p] = Append(content[p], tok)]

(* Every file copy_contents writes to is a file of the project. *)
LEMMA TargetInPaths ==
    ASSUME CtlInv, NEW f \in Sources(src)
    PROVE  Target(f) \in Paths
BY DEF CtlInv, Sources, Target, Paths

(* Every file copy_template_files writes to is a file of the project. *)
LEMMA TemplateTargetInPaths ==
    ASSUME NEW item \in BaseItems
    PROVE  TemplateTarget(item) \in Paths
BY DEF BaseItems, Paths

(* A step leaves the project alone, rewrites one of its files, appends a    *)
(* token that is not a delimiter, or appends the delimiter of a file that   *)
(* does not hold it yet.                                                     *)
LEMMA ProjStep ==
    ASSUME CtlInv, present \subseteq Paths, [Next]_vars
    PROVE  \/ UNCHANGED proj
           \/ \E p \in Paths, tok \in Tokens : Rewrite(p, tok)
           \/ \E p \in Paths, tok \in Tokens \ Delims : Extend(p, tok)
           \/ \E p \in Paths : Delimiter(p) \notin Segs(content[p])
                               /\ Extend(p, Delimiter(p))
<1> DEFINE Same == UNCHANGED proj
           Rw == \E p \in Paths, tok \in Tokens : Rewrite(p, tok)
           Ex == \E p \in Paths, tok \in Tokens \ Delims : Extend(p, tok)
           Dl == \E p \in Paths : Delimiter(p) \notin Segs(content[p])
                                  /\ Extend(p, Delimiter(p))
<1> SUFFICES Same \/ Rw \/ Ex \/ Dl
  OBVIOUS
<1> USE DEF proj, Rewrite, Extend, WriteFile, AppendTok, Tokens, Delims
<1>1. CASE StartRun
  <2>1. CASE UNCHANGED <<content, edits>>
    BY <1>1, <2>1 DEF StartRun
  <2>2. CASE \E p \in present : content' = [content EXCEPT ![p] = <<"user">>]
    <3>1. PICK p \in present : content' = [content EXCEPT ![p] = <<"user">>]
      BY <2>2
    <3>2. present' = present \cup {p}
      BY <1>1, <3>1 DEF StartRun
    <3>3. QED
      BY <3>1, <3>2
  <2>3. QED
    BY <1>1, <2>1, <2>2 DEF StartRun
<1>2. CASE CopyTemplateFile
  <2> DEFINE to == TemplateTarget(Head(baseTodo))
  <2>1. to \in Paths
    BY <1>2, TemplateTargetInPaths DEF CopyTemplateFile, CtlInv
  <2>2. Same \/ WriteFile(to, "base") \/ WriteFile(to, "partial")
    BY <1>2, Zenon DEF CopyTemplateFile
  <2>3. QED
    BY <2>1, <2>2
<1>3. CASE CopyEntry
  <2>1. PICK f \in copyTodo :
          Same \/ WriteFile(Target(f), src) \/ WriteFile(Target(f), "partial")
    BY <1>3, Zenon DEF CopyEntry
  <2>2. Target(f) \in Paths /\ src \in Tokens
    BY TargetInPaths DEF CtlInv
  <2>3. QED
    BY <2>1, <2>2
<1>4. CASE AppendContents
  <2> DEFINE to == Target(cur)
  <2>1. to \in Paths
    BY <1>4, TargetInPaths DEF AppendContents, CtlInv
  <2>2. \/ Same
        \/ Delimiter(to) \notin Segs(content[to]) /\ AppendTok(to, Delimiter(to))
        \/ AppendTok(to, "partial")
    BY <1>4, Zenon DEF AppendContents
  <2>3. QED
    BY <2>1, <2>2
<1>5. CASE AppendBody
  <2> DEFINE to == Target(cur)
  <2>1. to \in Paths /\ src \in {"fe", "ex"}
    BY <1>5, TargetInPaths DEF AppendBody, CtlInv
  <2>2. AppendTok(to, src) \/ AppendTok(to, "partial")
    BY <1>5, Zenon DEF AppendBody
  <2>3. QED
    BY <2>1, <2>2
<1>6. ASSUME NEW m \in Paths, NEW err, NEW C, EditManifest(m, err, C)
      PROVE  Same \/ Rw
  <2>1. Same \/ WriteFile(m, "edited") \/ WriteFile(m, "partial")
    BY <1>6, Zenon DEF EditManifest
  <2>2. QED
    BY <2>1
<1>7. CASE EditPackageJson
  <2>1. <<"package.json">> \in Paths
    BY DEF Paths, PackageFiles
  <2>2. QED
    BY <1>6, <1>7, <2>1 DEF EditPackageJson
<1>8. CASE EditPackageLock
  <2>1. <<"package-lock.json">> \in Paths
    BY DEF Paths, PackageFiles
  <2>2. QED
    BY <1>6, <1>8, <2>1 DEF EditPackageLock
<1>9. CASE EditExampleCargo
  <2>1. CargoOf(ex) \in Paths
    BY DEF CtlInv, Paths
  <2>2. QED
    BY <1>6, <1>9, <2>1 DEF EditExampleCargo
<1>10. CASE \/ CreateProjectDir \/ EndTemplate \/ CheckInternet \/ CloneFrontend
            \/ EndCopy \/ CloneExamples \/ NextExample \/ Crash
            \/ pc = "idle" /\ run = MaxRuns /\ UNCHANGED vars
            \/ UNCHANGED vars
  BY <1>10 DEF CreateProjectDir, EndTemplate, CheckInternet, CloneFrontend, EndCopy,
               CloneExamples, NextExample, Crash, vars
<1>11. QED
  BY <1>1, <1>2, <1>3, <1>4, <1>5, <1>7, <1>8, <1>9, <1>10 DEF Next, RunStep

-----------------------------------------------------------------------------
(* Type correctness. *)

(* A step keeps the project's files within the project's paths and their   *)
(* contents sequences of tokens.                                             *)
LEMMA ProjTyped ==
    ASSUME CtlInv, present \subseteq Paths, content \in [Paths -> Seq(Tokens)],
           [Next]_vars
    PROVE  present' \subseteq Paths /\ content' \in [Paths -> Seq(Tokens)]
<1>1. \A p : Delimiter(p) \in Tokens
  BY DEF Delimiter, Tokens
<1>2. CASE UNCHANGED proj
  BY <1>2 DEF proj
<1>3. CASE \E p \in Paths, tok \in Tokens : Rewrite(p, tok)
  <2>1. PICK p \in Paths, tok \in Tokens : Rewrite(p, tok)
    BY <1>3
  <2>2. <<tok>> \in Seq(Tokens)
    OBVIOUS
  <2>3. QED
    BY <2>1, <2>2 DEF Rewrite
<1>4. ASSUME NEW p \in Paths, NEW tok \in Tokens, Extend(p, tok)
      PROVE  present' \subseteq Paths /\ content' \in [Paths -> Seq(Tokens)]
  <2>1. Append(content[p], tok) \in Seq(Tokens)
    OBVIOUS
  <2>2. QED
    BY <1>4, <2>1 DEF Extend
<1>5. QED
  BY ProjStep, <1>1, <1>2, <1>3, <1>4 DEF Delims

LEMMA TypeInit == Init => TypeOK /\ CtlInv
<1> SUFFICES ASSUME Init PROVE TypeOK /\ CtlInv
  OBVIOUS
<1>1. MaxRuns \in Nat /\ MaxCrashes \in Nat /\ MaxEdits \in Nat
  BY InitAssumption
<1>2. present = {} /\ content = [p \in Paths |-> <<>>] /\ run = 0 /\ req \in Requests
  BY DEF Init
<1>3. pc = "idle" /\ outcome = "none" /\ crashes = 0 /\ edits = 0
  BY DEF Init
<1>4. online = FALSE
  BY DEF Init
<1>5. content \in [Paths -> Seq(Tokens)]
  BY <1>2
<1>6. pc \in {"idle", "create", "base", "net", "feClone", "copy", "append",
              "appendBody", "pkg", "pkgLock", "exClone", "exNext", "exEdit"}
      /\ outcome \in Outcomes
  BY <1>3 DEF Outcomes
<1>7. online \in BOOLEAN
  BY <1>4
<1>8. QED
  BY <1>1, <1>2, <1>3, <1>5, <1>6, <1>7, CtlInvInit DEF TypeOK

(* A kill, or a write that stops half way, ends the run with a result of    *)
(* Outcomes and counts the kill within its bound.                            *)
LEMMA StopTyped ==
    ASSUME TypeOK, Stop
    PROVE  /\ pc' = "idle" /\ outcome' \in Outcomes
           /\ crashes' \in 0 .. MaxCrashes
BY InitAssumption DEF Stop, CrashNow, Finish, TypeOK, Outcomes

LEMMA TypeNext == TypeOK /\ CtlInv /\ [Next]_vars => TypeOK'
<1> SUFFICES ASSUME TypeOK, CtlInv, [Next]_vars PROVE TypeOK'
  OBVIOUS
<1> DEFINE St == {"idle", "create", "base", "net", "feClone", "copy", "append",
                  "appendBody", "pkg", "pkgLock", "exClone", "exNext", "exEdit"}
           Scalars == /\ run' \in 0 .. MaxRuns /\ req' \in Requests
                      /\ pc' \in St /\ outcome' \in Outcomes
                      /\ crashes' \in 0 .. MaxCrashes /\ edits' \in 0 .. MaxEdits
<1>1. present' \subseteq Paths /\ content' \in [Paths -> Seq(Tokens)]
  BY ProjTyped DEF TypeOK
<1>2. online' \in BOOLEAN
  BY DEF Next, vars, RunStep, StartRun, CreateProjectDir, CopyTemplateFile,
         EndTemplate, CheckInternet, CloneFrontend, CopyEntry, AppendContents,
         AppendBody, EndCopy, EditPackageJson, EditPackageLock, CloneExamples,
         NextExample, EditExampleCargo, Crash, TypeOK
<1>3. Scalars
  <2> USE InitAssumption DEF TypeOK, Outcomes, Finish, CrashNow
  <2>1. CASE StartRun
    BY <2>1 DEF StartRun
  <2>2. CASE CreateProjectDir
    BY <2>2 DEF CreateProjectDir
  <2>3. CASE CopyTemplateFile
    BY <2>3, StopTyped DEF CopyTemplateFile
  <2>4. CASE EndTemplate
    BY <2>4 DEF EndTemplate
  <2>5. CASE CheckInternet
    BY <2>5 DEF CheckInternet
  <2>6. CASE CloneFrontend
    BY <2>6 DEF CloneFrontend
  <2>7. CASE CopyEntry
    BY <2>7, StopTyped DEF CopyEntry
  <2>8. CASE AppendContents
    BY <2>8, StopTyped DEF AppendContents
  <2>9. CASE AppendBody
    BY <2>9, StopTyped DEF AppendBody
  <2>10. CASE EndCopy
    BY <2>10 DEF EndCopy
  <2>11. CASE EditPackageJson
    BY <2>11, StopTyped DEF EditPackageJson, EditManifest
  <2>12. CASE EditPackageLock
    BY <2>12, StopTyped DEF EditPackageLock, EditManifest
  <2>13. CASE CloneExamples
    BY <2>13 DEF CloneExamples
  <2>14. CASE NextExample
    BY <2>14 DEF NextExample
  <2>15. CASE EditExampleCargo
    BY <2>15, StopTyped DEF EditExampleCargo, EditManifest
  <2>16. CASE Crash
    BY <2>16 DEF Crash
  <2>17. CASE UNCHANGED vars
    BY <2>17 DEF vars
  <2>18. QED
    BY <2>1, <2>2, <2>3, <2>4, <2>5, <2>6, <2>7, <2>8, <2>9, <2>10, <2>11,
       <2>12, <2>13, <2>14, <2>15, <2>16, <2>17 DEF Next, RunStep
<1>4. QED
  BY <1>1, <1>2, <1>3 DEF TypeOK

(* Every state of `soroban contract init`, over any number of runs, kills   *)
(* and edits, is well typed: in particular every file it writes is a path   *)
(* of the templates (the Cargo.toml.removeextension rename of               *)
(* copy_template_files, the contract directories of copy_example_contracts), *)
(* and a kill never exceeds its bound (init.rs:141-190, 202-245, 321-363).  *)
THEOREM TypeCorrect == Spec => []TypeOK
<1>1. Init => TypeOK /\ CtlInv
  BY TypeInit
<1>2. TypeOK /\ CtlInv /\ [Next]_vars => (TypeOK /\ CtlInv)'
  BY TypeNext, CtlInvNext
<1>3. QED
  BY <1>1, <1>2, PTL DEF Spec

-----------------------------------------------------------------------------
(* A merge delimiter occurs at most once in a file (DelimiterAtMostOnce).   *)

(* The token d occurs at most once in the sequence c. *)
Once(c, d) == \A i, j \in DOMAIN c : c[i] = d /\ c[j] = d => i = j

(* A one-token file holds every token at most once. *)
LEMMA OnceSingle ==
    ASSUME NEW tok, NEW d
    PROVE  Once(<<tok>>, d)
BY DEF Once

(* Appending another token keeps a token unique. *)
LEMMA OnceAppendOther ==
    ASSUME NEW S, NEW c \in Seq(S), NEW d, NEW tok, tok # d, Once(c, d)
    PROVE  Once(Append(c, tok), d)
BY DEF Once

(* Appending a token the sequence does not hold makes it unique. *)
LEMMA OnceAppendFresh ==
    ASSUME NEW S, NEW c \in Seq(S), NEW d, d \notin Segs(c)
    PROVE  Once(Append(c, d), d)
BY DEF Once, Segs

(* A token that occurs at most once is counted at most once. *)
LEMMA OnceCount ==
    ASSUME NEW S, NEW c \in Seq(S), NEW d, Once(c, d)
    PROVE  Count(c, d) <= 1
<1> DEFINE At == {i \in DOMAIN c : c[i] = d}
<1>0. Count(c, d) = Cardinality(At)
  BY DEF Count
<1>1. CASE At = {}
  <2>1. Cardinality(At) = 0
    BY <1>1, FS_EmptySet
  <2>2. QED
    BY <1>0, <2>1
<1>2. CASE At # {}
  <2>1. PICK i \in At : TRUE
    BY <1>2
  <2>2. At \subseteq {i}
    BY <2>1 DEF Once
  <2>3. IsFiniteSet({i}) /\ Cardinality({i}) = 1
    BY FS_Singleton
  <2>4. Cardinality(At) <= 1
    BY <2>2, <2>3, FS_Subset
  <2>5. QED
    BY <1>0, <2>4
<1>3. QED
  BY <1>1, <1>2

(* The inductive form of DelimiterAtMostOnce: no two positions of a file   *)
(* hold the same merge delimiter.                                            *)
DelimInv == \A p \in Paths : \A d \in Delims : Once(content[p], d)

LEMMA DelimInvInit == Init => DelimInv
<1> SUFFICES ASSUME Init, NEW p \in Paths, NEW d \in Delims PROVE Once(content[p], d)
  BY DEF DelimInv
<1>1. content[p] = <<>>
  BY DEF Init
<1>2. QED
  BY <1>1 DEF Once

(* Each step keeps every delimiter unique: a rewrite leaves a single token, *)
(* append_contents appends a delimiter only to a file that does not hold it *)
(* (init.rs:435), and every other append is of a token that is no delimiter. *)
LEMMA DelimInvNext == TypeOK /\ CtlInv /\ DelimInv /\ [Next]_vars => DelimInv'
<1> SUFFICES ASSUME TypeOK, CtlInv, DelimInv, [Next]_vars,
                    NEW q \in Paths, NEW d \in Delims
             PROVE  Once(content'[q], d)
  BY DEF DelimInv
<1>0. /\ present \subseteq Paths /\ content \in [Paths -> Seq(Tokens)]
      /\ Once(content[q], d)
  BY DEF TypeOK, DelimInv
<1>1. CASE UNCHANGED proj
  BY <1>0, <1>1 DEF proj
<1>2. CASE \E p \in Paths, tok \in Tokens : Rewrite(p, tok)
  <2>1. PICK p \in Paths, tok \in Tokens : Rewrite(p, tok)
    BY <1>2
  <2>2. content'[q] = IF q = p THEN <<tok>> ELSE content[q]
    BY <1>0, <2>1 DEF Rewrite
  <2>3. QED
    BY <1>0, <2>2, OnceSingle
<1>3. CASE \E p \in Paths, tok \in Tokens \ Delims : Extend(p, tok)
  <2>1. PICK p \in Paths, tok \in Tokens \ Delims : Extend(p, tok)
    BY <1>3
  <2>2. content'[q] = IF q = p THEN Append(content[q], tok) ELSE content[q]
    BY <1>0, <2>1 DEF Extend
  <2>3. tok # d
    BY <2>1
  <2>4. QED
    BY <1>0, <2>2, <2>3, OnceAppendOther
<1>4. CASE \E p \in Paths : Delimiter(p) \notin Segs(content[p]) /\ Extend(p, Delimiter(p))
  <2>1. PICK p \in Paths : Delimiter(p) \notin Segs(content[p]) /\ Extend(p, Delimiter(p))
    BY <1>4
  <2>2. content'[q] = IF q = p THEN Append(content[q], Delimiter(p)) ELSE content[q]
    BY <1>0, <2>1 DEF Extend
  <2>3. CASE q = p /\ Delimiter(p) = d
    BY <1>0, <2>1, <2>2, <2>3, OnceAppendFresh
  <2>4. CASE q = p /\ Delimiter(p) # d
    BY <1>0, <2>2, <2>4, OnceAppendOther
  <2>5. CASE q # p
    BY <1>0, <2>2, <2>5
  <2>6. QED
    BY <2>3, <2>4, <2>5
<1>5. QED
  BY <1>0, <1>1, <1>2, <1>3, <1>4, ProjStep

(* Re-running init never merges the frontend README.md or .gitignore into  *)
(* the project twice (test_init_does_not_duplicate_frontend_readme_         *)
(* contents_when_run_more_than_once): whatever runs were killed between   *)
(* the two writes of append_contents, failed, or were repeated, and         *)
(* whatever the user wrote between runs, each merge delimiter occurs at     *)
(* most once in a file (init.rs:425-443).                                   *)
THEOREM DelimiterAtMostOnceHolds == Spec => []DelimiterAtMostOnce
<1>1. Init => TypeOK /\ CtlInv /\ DelimInv
  BY TypeInit, DelimInvInit
<1>2. TypeOK /\ CtlInv /\ DelimInv /\ [Next]_vars => (TypeOK /\ CtlInv /\ DelimInv)'
  BY TypeNext, CtlInvNext, DelimInvNext
<1>3. TypeOK /\ DelimInv => DelimiterAtMostOnce
  <2> SUFFICES ASSUME TypeOK, DelimInv, NEW p \in Paths,
                      NEW d \in {"dReadme", "dGitignore"}
               PROVE  Count(content[p], d) <= 1
    BY DEF DelimiterAtMostOnce
  <2>1. content[p] \in Seq(Tokens) /\ Once(content[p], d)
    BY DEF TypeOK, DelimInv, Delims
  <2>2. QED
    BY <2>1, OnceCount
<1>4. QED
  BY <1>1, <1>2, <1>3, PTL DEF Spec

-----------------------------------------------------------------------------
(* A run that returns Ok has rewritten the Cargo.toml of every example it   *)
(* was asked for (ExamplesUseWorkspace).                                     *)

(* edit_contract_cargo_file has rewritten the manifest of example e. *)
Edited(e) == content[CargoOf(e)] = <<"edited">>

(* The examples copy_example_contracts has finished in this run. *)
Done == req.examples \ exLeft

(* The stages of copy_example_contracts. *)
ExCopying == pc \in {"copy", "append", "appendBody"} /\ src = "ex"

(* The examples finished in this run have their manifests rewritten, and    *)
(* the one being copied or edited is not finished yet.                       *)
EInv ==
    /\ pc = "exNext" => \A e \in Done : Edited(e)
    /\ pc = "exEdit" \/ ExCopying => ex \in exLeft /\ \A e \in Done : Edited(e)
    /\ pc = "idle" /\ outcome = "ok" /\ online => \A e \in req.examples : Edited(e)

LEMMA EInvInit == Init => EInv
BY DEF Init, EInv, ExCopying

(* A step that neither reaches the example stages nor returns Ok keeps EInv. *)
LEMMA EInvQuiet ==
    ASSUME pc' \notin {"exNext", "exEdit"}, ~ExCopying',
           pc' = "idle" => outcome' # "ok"
    PROVE  EInv'
BY DEF EInv

(* A kill or a half-way write does not return Ok. *)
LEMMA StopNotOk ==
    ASSUME Stop
    PROVE  pc' = "idle" /\ outcome' # "ok"
BY DEF Stop, CrashNow, Finish

(* The manifest of an example is not a file copy_contents writes for       *)
(* another example.                                                          *)
LEMMA TargetNotCargo ==
    ASSUME src = "ex", NEW f \in ExampleFiles, NEW e, e # ex
    PROVE  Target(f) # CargoOf(e)
<1>1. f \in Seq(STRING)
  BY InitAssumption
<1>2. Target(f)[2] = ex /\ CargoOf(e)[2] = e
  BY <1>1 DEF Target, ContractDir, CargoOf
<1>3. QED
  BY <1>2

(* Distinct examples have distinct manifests. *)
LEMMA CargoInjective ==
    ASSUME NEW e, NEW e2, e # e2
    PROVE  CargoOf(e) # CargoOf(e2)
BY DEF CargoOf, ContractDir

(* A step of copy_contents over example ex writes only under ex's directory, *)
(* so the manifests of the finished examples are kept.                        *)
LEMMA CopyKeepsDone ==
    ASSUME TypeOK, CtlInv, EInv, ExCopying, UNCHANGED <<req, exLeft>>,
           NEW f \in Sources(src),
           content' = content \/ \E tok : content' = [content EXCEPT ![Target(f)] = tok]
    PROVE  \A e \in Done' : Edited(e)'
<1> SUFFICES ASSUME NEW e \in Done' PROVE Edited(e)'
  OBVIOUS
<1>1. e \in Done /\ Edited(e) /\ e # ex
  BY DEF Done, EInv, ExCopying
<1>2. Target(f) # CargoOf(e)
  BY <1>1, TargetNotCargo DEF ExCopying, Sources
<1>3. CargoOf(e) \in Paths
  BY <1>1, ReqExamples DEF Done, CtlInv, Paths
<1>4. QED
  BY <1>1, <1>2, <1>3 DEF Edited, TypeOK

(* A step of copy_contents or append_contents over an example that stays  *)
(* in copy_contents keeps EInv.                                              *)
LEMMA ExCopyStep ==
    ASSUME TypeOK, CtlInv, EInv, ExCopying, UNCHANGED <<req, exLeft, ex, src>>,
           pc' \in {"copy", "append", "appendBody"},
           NEW f \in Sources(src),
           content' = content \/ \E tok : content' = [content EXCEPT ![Target(f)] = tok]
    PROVE  EInv'
<1>1. \A e \in Done' : Edited(e)'
  BY CopyKeepsDone
<1>2. ex \in exLeft
  BY DEF EInv
<1>3. QED
  BY <1>1, <1>2 DEF EInv, ExCopying

(* A step of the copy loops: it stays in them, writing at most the target  *)
(* of one entry, or returns an error.                                        *)
LEMMA CopyLoopStep ==
    ASSUME TypeOK, CtlInv, EInv, pc \in {"copy", "append", "appendBody"},
           UNCHANGED <<req, exLeft, ex, src>>,
           \E f \in Sources(src) :
              \/ /\ pc' \in {"copy", "append", "appendBody"}
                 /\ \/ content' = content
                    \/ \E tok : content' = [content EXCEPT ![Target(f)] = tok]
              \/ pc' = "idle" /\ outcome' # "ok"
    PROVE  EInv'
<1>1. PICK f \in Sources(src) :
              \/ /\ pc' \in {"copy", "append", "appendBody"}
                 /\ \/ content' = content
                    \/ \E tok : content' = [content EXCEPT ![Target(f)] = tok]
              \/ pc' = "idle" /\ outcome' # "ok"
  OBVIOUS
<1>2. CASE src = "ex"
  <2>1. CASE pc' = "idle" /\ outcome' # "ok"
    BY <2>1, EInvQuiet DEF ExCopying
  <2>2. QED
    BY <1>1, <1>2, <2>1, ExCopyStep DEF ExCopying
<1>3. CASE src # "ex"
  BY <1>1, <1>3, EInvQuiet DEF ExCopying
<1>4. QED
  BY <1>2, <1>3

LEMMA EInvNext == TypeOK /\ CtlInv /\ EInv /\ [Next]_vars => EInv'
<1> SUFFICES ASSUME TypeOK, CtlInv, EInv, [Next]_vars PROVE EInv'
  OBVIOUS
<1>1. CASE StartRun
  BY <1>1, EInvQuiet DEF StartRun, ExCopying
<1>2. CASE CreateProjectDir
  BY <1>2, EInvQuiet DEF CreateProjectDir, ExCopying, Finish
<1>3. CASE CopyTemplateFile
  <2>1. pc' \in {"base", "idle"} /\ (pc' = "idle" => outcome' # "ok")
    BY <1>3, StopNotOk DEF CopyTemplateFile, Finish
  <2>2. QED
    BY <2>1, EInvQuiet DEF ExCopying
<1>4. CASE EndTemplate
  BY <1>4, EInvQuiet DEF EndTemplate, ExCopying
<1>5. CASE CheckInternet
  <2>1. CASE online' = FALSE /\ Finish("ok")
    BY <1>5, <2>1 DEF CheckInternet, EInv, ExCopying, Finish
  <2>2. CASE online' = TRUE /\ ~req.frontend /\ req.examples = {} /\ Finish("ok")
    BY <1>5, <2>2 DEF CheckInternet, EInv, ExCopying, Finish
  <2>3. CASE pc' \in {"feClone", "exClone"}
    BY <2>3, EInvQuiet DEF ExCopying
  <2>4. QED
    BY <1>5, <2>1, <2>2, <2>3 DEF CheckInternet
<1>6. CASE CloneFrontend
  BY <1>6, EInvQuiet DEF CloneFrontend, ExCopying, Finish
<1>7. CASE CopyEntry
  <2>1. copyTodo \subseteq Sources(src)
    BY DEF CtlInv
  <2>2. PICK f \in copyTodo :
          LET to == Target(f) IN
          \/ to \in present /\ (IsReadme(to) \/ IsGitignore(to))
             /\ pc' = "append" /\ cur' = f /\ UNCHANGED <<proj, outcome, copyTodo, crashes>>
          \/ to \in present /\ ~IsReadme(to) /\ ~IsGitignore(to)
             /\ copyTodo' = copyTodo \ {f}
             /\ UNCHANGED <<proj, pc, outcome, cur, crashes>>
          \/ to \notin present /\ Finish("io") /\ UNCHANGED <<proj, copyTodo, cur, crashes>>
          \/ to \notin present /\ WriteFile(to, src) /\ copyTodo' = copyTodo \ {f}
             /\ UNCHANGED <<pc, outcome, cur, crashes>>
          \/ to \notin present /\ WriteFile(to, "partial") /\ Stop
             /\ UNCHANGED <<copyTodo, cur>>
    BY <1>7 DEF CopyEntry
  <2>3. \/ /\ pc' \in {"copy", "append", "appendBody"}
           /\ \/ content' = content
              \/ \E tok : content' = [content EXCEPT ![Target(f)] = tok]
        \/ pc' = "idle" /\ outcome' # "ok"
    <3>1. pc = "copy"
      BY <1>7 DEF CopyEntry
    <3>2. QED
      BY <2>2, <3>1, StopNotOk DEF WriteFile, Finish, proj
  <2>4. QED
    BY <1>7, <2>1, <2>3, CopyLoopStep DEF CopyEntry
<1>8. CASE AppendContents
  <2>1. cur \in Sources(src)
    BY <1>8 DEF CtlInv, AppendContents
  <2>2. \/ /\ pc' \in {"copy", "append", "appendBody"}
           /\ \/ content' = content
              \/ \E tok : content' = [content EXCEPT ![Target(cur)] = tok]
        \/ pc' = "idle" /\ outcome' # "ok"
    BY <1>8, Zenon DEF AppendContents, AppendTok, Finish, Stop, CrashNow
  <2>3. QED
    BY <1>8, <2>1, <2>2, CopyLoopStep DEF AppendContents
<1>9. CASE AppendBody
  <2>1. cur \in Sources(src)
    BY <1>9 DEF CtlInv, AppendBody
  <2>2. \/ /\ pc' \in {"copy", "append", "appendBody"}
           /\ \/ content' = content
              \/ \E tok : content' = [content EXCEPT ![Target(cur)] = tok]
        \/ pc' = "idle" /\ outcome' # "ok"
    BY <1>9, Zenon DEF AppendBody, AppendTok, Finish, Stop, CrashNow
  <2>3. QED
    BY <1>9, <2>1, <2>2, CopyLoopStep DEF AppendBody
<1>10. CASE EndCopy
  <2>1. CASE src = "fe"
    BY <1>10, <2>1, EInvQuiet DEF EndCopy, ExCopying
  <2>2. CASE src # "fe"
    BY <1>10, <2>2 DEF EndCopy, EInv, ExCopying, Done, Edited, proj, ctl, CtlInv
  <2>3. QED
    BY <2>1, <2>2
<1>11. CASE EditPackageJson
  <2>1. pc' \in {"pkgLock", "idle"} /\ (pc' = "idle" => outcome' # "ok")
    BY <1>11, Zenon DEF EditPackageJson, EditManifest, Finish, Stop, CrashNow
  <2>2. QED
    BY <2>1, EInvQuiet DEF ExCopying
<1>12. CASE EditPackageLock
  <2>1. CASE req.examples = {}
    <3>1. pc' \in {"exClone", "idle"} /\ UNCHANGED req
      BY <1>12, Zenon DEF EditPackageLock, EditManifest, Finish, Stop, CrashNow
    <3>2. QED
      BY <2>1, <3>1 DEF EInv, ExCopying
  <2>2. CASE req.examples # {}
    <3>1. pc' \in {"exClone", "idle"} /\ (pc' = "idle" => outcome' # "ok")
      BY <1>12, <2>2, Zenon DEF EditPackageLock, EditManifest, Finish, Stop, CrashNow
    <3>2. QED
      BY <3>1, EInvQuiet DEF ExCopying
  <2>3. QED
    BY <2>1, <2>2
<1>13. CASE CloneExamples
  <2>1. CASE pc' = "exNext" /\ exLeft' = req.examples /\ UNCHANGED req
    BY <2>1 DEF EInv, ExCopying, Done
  <2>2. CASE Finish("clone")
    BY <2>2, EInvQuiet DEF ExCopying, Finish
  <2>3. QED
    BY <1>13, <2>1, <2>2 DEF CloneExamples
<1>14. CASE NextExample
  <2>1. /\ pc = "exNext" /\ \A e \in Done : Edited(e)
        /\ UNCHANGED <<proj, req, exLeft, online>>
    BY <1>14 DEF NextExample, EInv, proj
  <2>2. \A e \in Done' : Edited(e)'
    BY <2>1 DEF Done, Edited, proj
  <2>3. CASE exLeft = {} /\ Finish("ok")
    <3>1. \A e \in req.examples : Edited(e)'
      BY <2>2, <2>1, <2>3 DEF Done
    <3>2. QED
      BY <2>1, <2>3, <3>1 DEF EInv, ExCopying, Finish
  <2>4. CASE \E e \in exLeft : ex' = e /\ pc' = "copy" /\ src' = "ex"
    BY <2>1, <2>2, <2>4 DEF EInv, ExCopying
  <2>5. CASE Finish("io")
    BY <2>5, EInvQuiet DEF ExCopying, Finish
  <2>6. QED
    BY <1>14, <2>3, <2>4, <2>5 DEF NextExample
<1>15. CASE EditExampleCargo
  <2>1. /\ pc = "exEdit" /\ ex \in exLeft /\ \A e \in Done : Edited(e)
        /\ UNCHANGED <<req, ex>>
    BY <1>15 DEF EditExampleCargo, EInv
  <2>2. CASE /\ content' = [content EXCEPT ![CargoOf(ex)] = <<"edited">>]
             /\ pc' = "exNext" /\ exLeft' = exLeft \ {ex}
    <3>1. CargoOf(ex) \in Paths
      BY DEF CtlInv, Paths
    <3>2. ASSUME NEW e \in Done' PROVE Edited(e)'
      <4>1. CASE e = ex
        BY <2>1, <2>2, <3>1, <4>1 DEF Edited, TypeOK
      <4>2. CASE e # ex
        <5>1. e \in Done
          BY <2>1, <2>2, <4>2 DEF Done
        <5>2. CargoOf(e) # CargoOf(ex)
          BY <4>2, CargoInjective
        <5>3. QED
          BY <2>1, <2>2, <5>1, <5>2 DEF Edited
      <4>3. QED
        BY <4>1, <4>2
    <3>3. QED
      BY <2>2, <3>2 DEF EInv, ExCopying
  <2>3. CASE pc' = "idle" /\ outcome' # "ok"
    BY <2>3, EInvQuiet DEF ExCopying
  <2>4. QED
    BY <1>15, <2>2, <2>3, Zenon
       DEF EditExampleCargo, EditManifest, WriteFile, Finish, Stop, CrashNow
<1>16. CASE Crash
  BY <1>16, EInvQuiet DEF Crash, CrashNow, Finish, ExCopying
<1>17. CASE UNCHANGED vars
  BY <1>17 DEF vars, EInv, ExCopying, Done, Edited
<1>18. CASE pc = "idle" /\ run = MaxRuns /\ UNCHANGED vars
  BY <1>18 DEF vars, EInv, ExCopying, Done, Edited
<1>19. QED
  BY <1>1, <1>2, <1>3, <1>4, <1>5, <1>6, <1>7, <1>8, <1>9, <1>10, <1>11,
     <1>12, <1>13, <1>14, <1>15, <1>16, <1>17, <1>18 DEF Next, RunStep

(* When init returns Ok after reaching the network, every example contract *)
(* it was asked for has its Cargo.toml rewritten by                          *)
(* edit_contract_cargo_file (assert_contract_cargo_file_uses_workspace):    *)
(* copy_contents of a later example never writes under an earlier one's     *)
(* directory, and whatever a killed run or the user left in the manifest,   *)
(* Ok is returned only after every example's edit succeeded (init.rs:114-   *)
(* 117, 321-363).                                                            *)
THEOREM ExamplesUseWorkspaceHolds == Spec => []ExamplesUseWorkspace
<1>1. Init => TypeOK /\ CtlInv /\ EInv
  BY TypeInit, EInvInit
<1>2. TypeOK /\ CtlInv /\ EInv /\ [Next]_vars => (TypeOK /\ CtlInv /\ EInv)'
  BY TypeNext, CtlInvNext, EInvNext
<1>3. EInv => ExamplesUseWorkspace
  BY DEF EInv, Edited, ExamplesUseWorkspace
<1>4. QED
  BY <1>1, <1>2, <1>3, PTL DEF Spec
=============================================================================
