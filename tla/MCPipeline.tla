----------------------------- MODULE MCPipeline -----------------------------
(* Programs and command lines for Pipeline, and its verdict against Paths. *)
EXTENDS MCExploration, Pipeline

\* Print only, check and forget, check and keep, under another name or not.
FewOptions == {{"transpile"}, {"output"}, {"keep"}, {"output", "keep"}}

(***************************************************************************)
(* A program that osl calls valid has no path that gets stuck (main.rs:    *)
(* 107-113), although the file, krun, its status and the parse of its      *)
(* output all stand between the transpiler and the verdict.                *)
(***************************************************************************)
ReportSound == said = "valid" => P!Runs(source, {})

=============================================================================
