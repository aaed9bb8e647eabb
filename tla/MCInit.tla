------------------------------- MODULE MCInit -------------------------------
(* Model of `soroban contract init` for TLC: a base template with a       *)
(* README.md, a .gitignore and the hello_world Cargo.toml that is stored  *)
(* as Cargo.toml.removeextension; a frontend template with README.md,     *)
(* .gitignore and the two package files; one                             *)
(* example contract with its Cargo.toml, a source file and an excluded    *)
(* Makefile.  Two runs, one kill, one edit by the user.                 *)
EXTENDS Init

MCBaseTemplate ==
    << <<"README.md">>, <<".gitignore">>,
       <<"contracts", "hello_world", "Cargo.toml.removeextension">> >>
MCFrontendFiles ==
    {<<"README.md">>, <<".gitignore">>, <<"package.json">>,
     <<"package-lock.json">>}
MCExamples == {"alloc"}
MCExampleFiles == {<<"Cargo.toml">>, <<"src", "lib.rs">>, <<"Makefile">>}
MCRequests == [frontend : BOOLEAN, examples : SUBSET MCExamples]
=============================================================================
