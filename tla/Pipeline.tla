------------------------------ MODULE Pipeline ------------------------------
(***************************************************************************)
(* One run of the osl command (main.rs, lib.rs): check K, translate, save, *)
(* start krun on the file, judge what krun prints, clean up.  krun's       *)
(* rewriting is Exploration's, on the program that is in the file.         *)
(*                                                                         *)
(* Whatever can fail outside the program (a missing tool, a file that      *)
(* cannot be written, a krun that dies) may fail here.  Logging is left    *)
(* out but for the verdict.                                                *)
(***************************************************************************)
EXTENDS Exploration

CONSTANT Options   (* the command lines                                    *)

Flags == {"transpile", "keep", "output"}

ASSUME OptionsAssumption == Options \subseteq SUBSET Flags

VARIABLES
  opts,    (* Opt: the flags that are set; "output" if --output names a file *)
  source,  (* what the transpiler makes of the input                       *)
  built,   (* model/osl-kompiled exists                                    *)
  disk,    (* the files a run may write                                    *)
  phase,   (* how far main is                                              *)
  said,    (* the verdict                                                  *)
  exit     (* how main ended                                               *)

cli == <<opts, source, built, disk, phase, said, exit>>
pipelineVars == <<vars, cli>>

-----------------------------------------------------------------------------
absent == [is |-> "absent"]
torn == [is |-> "torn"]
text(p) == [is |-> "text", program |-> p]

\* What an earlier run with --keep, of another program, has left at input.osl.
stale == text(<< >>)

\* osl_file_tmp: the file that --output names, or <input>.osl.
osl_file_tmp == IF "output" \in opts THEN "output" ELSE "input.osl"

PipelineInit ==
  /\ opts \in Options /\ source = << >>
  /\ built \in BOOLEAN
  /\ disk = [f \in {"input.osl", "output"} |-> IF f = "output" THEN absent ELSE stale]
  /\ phase = "bins" /\ said = "nothing" /\ exit = "running"
  /\ program = << >> /\ states = << >> /\ nstate = 0 /\ tmp = << >>
  /\ crashed = FALSE /\ loops = 0

Reached(p) == exit = "running" /\ phase = p

\* main goes on, or ends.
Goto(p) == phase' = p /\ UNCHANGED exit
Exit(how) == exit' = how /\ UNCHANGED phase

\* are_k_bins_installed
CheckBins ==
  /\ Reached("bins")
  /\ Goto("model") \/ Exit("error")
  /\ UNCHANGED <<vars, opts, source, built, disk, said>>

(***************************************************************************)
(* is_osl_model_compiled, recompile_model: that a tool cannot be started   *)
(* is an error, that it fails is not looked at.  Then setup_opam, which    *)
(* fails unseen.                                                           *)
(***************************************************************************)
CheckModel ==
  /\ Reached("model")
  /\ \/ built /\ Goto("translate") /\ UNCHANGED built
     \/ ~built /\ Goto("translate") /\ built' \in BOOLEAN
     \/ ~built /\ Exit("error") /\ UNCHANGED built
  /\ UNCHANGED <<vars, opts, source, disk, said>>

\* transpile_c_code; --transpile prints the program and is done.
Translate ==
  /\ Reached("translate")
  /\ \/ Exit("error") /\ UNCHANGED source
     \/ /\ source' \in Programs
        /\ IF "transpile" \in opts THEN Exit("ok") ELSE Goto("save")
  /\ UNCHANGED <<vars, opts, built, disk, said>>

\* What write_all leaves of a program when it fails.
Partly(p) == {torn} \cup {text(SubSeq(p, 1, n)) : n \in 0 .. Len(p)}

\* Mutant: the result of save_in_file is dropped, as tests/common.rs:13 does.
Save_ignored ==
  /\ Reached("save")
  /\ \E content \in {disk[osl_file_tmp], text(source)} \cup Partly(source) :
       disk' = [disk EXCEPT ![osl_file_tmp] = content]
  /\ Goto("krun")
  /\ UNCHANGED <<vars, opts, source, built, said>>

\* save_in_file: File::create may fail, then write_all may.
Save ==
  /\ Reached("save")
  /\ \/ Exit("error") /\ UNCHANGED disk
     \/ /\ \E content \in Partly(source) :
             disk' = [disk EXCEPT ![osl_file_tmp] = content]
        /\ Exit("error")
     \/ disk' = [disk EXCEPT ![osl_file_tmp] = text(source)] /\ Goto("krun")
  /\ UNCHANGED <<vars, opts, source, built, said>>

\* krun parses the file and makes the first configuration of it.
Start ==
  /\ Reached("krun")
  /\ built /\ disk[osl_file_tmp].is = "text"
  /\ program' = disk[osl_file_tmp].program
  /\ states' = [i \in {0} |-> State(program' \o <<returnType>>, {})]
  /\ nstate' = 1 /\ tmp' = << >> /\ crashed' = FALSE /\ loops' = 0
  /\ Goto("rewrite")
  /\ UNCHANGED <<opts, source, built, disk, said>>

Rewrite == Reached("rewrite") /\ Next /\ UNCHANGED cli

\* The process cannot be started, or prints bytes that are no text.
KrunError ==
  /\ Reached("krun")
  /\ Exit("error")
  /\ UNCHANGED <<vars, opts, source, built, disk, said>>

(***************************************************************************)
(* krun fails: its status is dropped and what it has printed handed to     *)
(* is_valid, which panics because it is no configuration.  main waits for  *)
(* krun to end, so when it fails makes no difference.                      *)
(***************************************************************************)
KrunFails ==
  /\ Reached("krun") \/ (Reached("rewrite") /\ crashed)
  /\ Exit("panic")
  /\ UNCHANGED <<vars, opts, source, built, disk, said>>

\* No rule applies: krun prints the configuration.
Quiescent ==
  Reached("rewrite") /\ ~crashed /\ \A i \in DOMAIN states : Rank(i) = 5

\* "Program valid", or "Program invalid" and the configuration, if it can be written.
Judge ==
  /\ Quiescent
  /\ said' = IF Valid THEN "valid" ELSE "invalid"
  /\ \/ Goto("clean")
     \/ ~Valid /\ Exit("error")
  /\ UNCHANGED <<vars, opts, source, built, disk>>

\* Mutant: the file goes only if the program was valid.
Clean_valid ==
  /\ Reached("clean")
  /\ disk' = IF "keep" \in opts \/ said = "invalid" THEN disk
             ELSE [disk EXCEPT ![osl_file_tmp] = absent]
  /\ Exit("ok")
  /\ UNCHANGED <<vars, opts, source, built, said>>

\* remove_file, but for --keep.
Clean ==
  /\ Reached("clean")
  /\ \/ "keep" \in opts /\ Exit("ok") /\ UNCHANGED disk
     \/ /\ "keep" \notin opts
        /\ disk' = [disk EXCEPT ![osl_file_tmp] = absent]
        /\ Exit("ok")
     \/ "keep" \notin opts /\ Exit("error") /\ UNCHANGED disk
  /\ UNCHANGED <<vars, opts, source, built, said>>

PipelineNext ==
  \/ CheckBins \/ CheckModel \/ Translate \/ Save
  \/ Start \/ Rewrite \/ KrunError \/ KrunFails
  \/ Judge \/ Clean

PipelineSpec == PipelineInit /\ [][PipelineNext]_pipelineVars

-----------------------------------------------------------------------------
(***************************************************************************)
(* A run that ends well has left the file it named, with the whole program *)
(* in it, exactly if --keep asks for it (main.rs:119-124), and has not     *)
(* touched input.osl if it named another.                                  *)
(***************************************************************************)
Tidy ==
  exit = "ok" /\ "transpile" \notin opts =>
    /\ disk[osl_file_tmp] = IF "keep" \in opts THEN text(source) ELSE absent
    /\ "output" \in opts => disk["input.osl"] = stale

=============================================================================
