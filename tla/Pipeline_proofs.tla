--------------------------- MODULE Pipeline_proofs ---------------------------
(***************************************************************************)
(* What a run of osl leaves behind, which program it judges and whose      *)
(* blocks its branches take, for every set of programs and command lines.  *)
(***************************************************************************)
EXTENDS Pipeline, Pool_proofs

Files == {"input.osl", "output"}

\* From the save to the end the file holds the whole program.
Saved ==
  exit = "running" /\ phase \in {"krun", "rewrite", "clean"} =>
    disk[osl_file_tmp] = text(source)

\* The file that is not named is left alone.
OthersKept == "output" \in opts => disk["input.osl"] = stale

\* What krun rewrites, and what is judged, is the program translated.
OwnProgram == phase \in {"rewrite", "clean"} => program = source

PipelineInv == DOMAIN disk = Files /\ Saved /\ OthersKept /\ OwnProgram /\ Tidy

-----------------------------------------------------------------------------
LEMMA TmpIsAFile == osl_file_tmp \in Files /\ ("output" \in opts => osl_file_tmp # "input.osl")
BY DEF osl_file_tmp, Files

\* Steps before krun that do not touch the disk.
LEMMA EarlyKeeps ==
  ASSUME PipelineInv, CheckBins \/ CheckModel \/ Translate
  PROVE  PipelineInv'
<1>1. UNCHANGED <<opts, disk, program>>
  BY DEF CheckBins, CheckModel, Translate, vars
<1>2. /\ exit = "running" /\ phase \in {"bins", "model", "translate"}
      /\ \/ exit' = "running" /\ phase' \in {"model", "translate", "save"}
         \/ exit' = "error" /\ phase' = phase
         \/ exit' = "ok" /\ phase' = phase /\ "transpile" \in opts
  BY DEF CheckBins, CheckModel, Translate, Reached, Goto, Exit
<1> QED
  BY <1>1, <1>2 DEF PipelineInv, Saved, OthersKept, OwnProgram, Tidy, osl_file_tmp

\* Saving changes the file that is named, and goes on only with all of it.
LEMMA SaveKeeps ==
  ASSUME PipelineInv, Save
  PROVE  PipelineInv'
<1>1. UNCHANGED <<opts, source, program>> /\ exit = "running" /\ phase = "save"
  BY DEF Save, vars, Reached
<1>2. /\ DOMAIN disk' = Files
      /\ \A f \in Files : f # osl_file_tmp => disk'[f] = disk[f]
  BY TmpIsAFile DEF Save, PipelineInv
<1>3. \/ exit' = "error" /\ phase' = "save"
      \/ exit' = "running" /\ phase' = "krun" /\ disk'[osl_file_tmp] = text(source)
  BY TmpIsAFile, <1>1 DEF Save, PipelineInv, Goto, Exit
<1> QED
  BY <1>1, <1>2, <1>3, TmpIsAFile
  DEF PipelineInv, Saved, OthersKept, OwnProgram, Tidy, osl_file_tmp, Files

\* Rewriting leaves the program alone.
LEMMA NextKeepsProgram ==
  ASSUME Next
  PROVE  program' = program
BY DEF Next, Local, BareReturn, Push, Spawn, Pop, Remove, LoopSpawn, Join, Fork

\* From the start of krun to the verdict the disk is as it was saved.
LEMMA KrunKeeps ==
  ASSUME PipelineInv, Start \/ Rewrite \/ KrunError \/ KrunFails \/ Judge
  PROVE  PipelineInv'
<1>1. UNCHANGED <<opts, source, disk>> /\ exit = "running" /\ phase \in {"krun", "rewrite"}
  BY DEF Start, Rewrite, KrunError, KrunFails, Judge, Quiescent, cli, Reached
<1>2. \/ exit' = "running" /\ phase' \in {"rewrite", "clean"}
      \/ exit' \in {"error", "panic"} /\ phase' = phase
  BY DEF Start, Rewrite, KrunError, KrunFails, Judge, Quiescent, cli, Reached, Goto, Exit
<1>3. OwnProgram'
  <2>1. CASE Start
    BY <1>1, <2>1 DEF Start, Reached, PipelineInv, Saved, OwnProgram, text
  <2>2. CASE Rewrite
    BY <1>1, <2>2, NextKeepsProgram DEF Rewrite, Reached, cli, PipelineInv, OwnProgram
  <2>3. CASE KrunError \/ KrunFails
    BY <1>1, <2>3 DEF KrunError, KrunFails, Exit, vars, PipelineInv, OwnProgram
  <2>4. CASE Judge
    BY <1>1, <2>4 DEF Judge, Quiescent, Reached, Goto, Exit, vars, PipelineInv, OwnProgram
  <2> QED
    BY <2>1, <2>2, <2>3, <2>4
<1> QED
  BY <1>1, <1>2, <1>3 DEF PipelineInv, Saved, OthersKept, Tidy, osl_file_tmp

\* The file is removed, or the run fails, unless it is to be kept.
LEMMA CleanKeeps ==
  ASSUME PipelineInv, Clean
  PROVE  PipelineInv'
<1>1. /\ UNCHANGED <<opts, source, program>>
      /\ exit = "running" /\ phase = "clean" /\ phase' = phase
  BY DEF Clean, vars, Reached, Exit
<1>2. disk[osl_file_tmp] = text(source)
  BY <1>1 DEF PipelineInv, Saved
<1>3. /\ DOMAIN disk' = Files
      /\ \A f \in Files : f # osl_file_tmp => disk'[f] = disk[f]
  BY TmpIsAFile DEF Clean, PipelineInv
<1>4. /\ exit' \in {"ok", "error"}
      /\ exit' = "ok" => disk'[osl_file_tmp] = IF "keep" \in opts THEN text(source) ELSE absent
  BY <1>2, TmpIsAFile DEF Clean, Exit, PipelineInv
<1> QED
  BY <1>1, <1>3, <1>4, TmpIsAFile
  DEF PipelineInv, Saved, OthersKept, OwnProgram, Tidy, osl_file_tmp, Files

LEMMA PipelineInvInit == PipelineInit => PipelineInv
BY DEF PipelineInit, PipelineInv, Saved, OthersKept, OwnProgram, Tidy, Files

LEMMA PipelineInvNext == PipelineInv /\ [PipelineNext]_pipelineVars => PipelineInv'
<1> SUFFICES ASSUME PipelineInv, [PipelineNext]_pipelineVars
             PROVE  PipelineInv'
  OBVIOUS
<1>1. CASE UNCHANGED pipelineVars
  BY <1>1 DEF pipelineVars, cli, vars, PipelineInv, Saved, OthersKept, OwnProgram, Tidy, osl_file_tmp
<1>2. CASE PipelineNext
  BY <1>2, EarlyKeeps, SaveKeeps, KrunKeeps, CleanKeeps DEF PipelineNext
<1> QED
  BY <1>1, <1>2

LEMMA PipelineInvAlways == PipelineSpec => []PipelineInv
BY PipelineInvInit, PipelineInvNext, PTL DEF PipelineSpec

(***************************************************************************)
(* A run that ends well keeps the file it named, whole, exactly if --keep  *)
(* asks for it, and does not touch input.osl if it named another           *)
(* (main.rs:102-124).                                                      *)
(***************************************************************************)
THEOREM RunsAreTidy == PipelineSpec => []Tidy
<1>1. PipelineInv => Tidy
  BY DEF PipelineInv
<1> QED
  BY <1>1, PipelineInvAlways, PTL

(***************************************************************************)
(* The program that krun rewrites, and that the verdict is about, is the   *)
(* one translated, although it goes through a file that may hold another   *)
(* (main.rs:102-113, lib.rs:95-108, 138-149).                              *)
(***************************************************************************)
THEOREM JudgesItsOwnProgram == PipelineSpec => []OwnProgram
<1>1. PipelineInv => OwnProgram
  BY DEF PipelineInv
<1> QED
  BY <1>1, PipelineInvAlways, PTL

-----------------------------------------------------------------------------
(* The pool of a run.                                                      *)

\* What is translated is a program.
Translated ==
  exit = "running" /\ phase \notin {"bins", "model", "translate"} => source \in Programs

\* krun's pool is as a run of the rules alone leaves it; before krun there is none.
KrunPool(Statements, Blocks) ==
  IF phase \in {"rewrite", "clean"} THEN PoolInv(Statements, Blocks) /\ Alone
                                    ELSE states = << >>

Krun(Statements, Blocks) == PipelineInv /\ Translated /\ KrunPool(Statements, Blocks)

\* krun starts on a first configuration of Exploration's.
LEMMA StartInits ==
  ASSUME PipelineInv, Translated, Start
  PROVE  Init'
<1>1. program' = source /\ source \in Programs
  BY DEF Start, Reached, PipelineInv, Saved, Translated, text
<1> QED
  BY <1>1 DEF Start, Init

\* But for krun's start and its rules no step touches the pool.
LEMMA OthersKeepPool ==
  ASSUME [PipelineNext]_pipelineVars, ~ Start, ~ Rewrite
  PROVE  /\ vars' = vars
         /\ phase' \in {"rewrite", "clean"} <=> phase \in {"rewrite", "clean"}
<1>1. CASE UNCHANGED pipelineVars
  BY <1>1 DEF pipelineVars, cli
<1>2. CASE CheckBins \/ CheckModel \/ Translate \/ Save
  BY <1>2 DEF CheckBins, CheckModel, Translate, Save, Reached, Goto, Exit
<1>3. CASE KrunError \/ KrunFails \/ Judge \/ Clean
  BY <1>3 DEF KrunError, KrunFails, Judge, Quiescent, Clean, Reached, Goto, Exit
<1> QED
  BY <1>1, <1>2, <1>3 DEF PipelineNext

LEMMA TranslatedNext ==
  ASSUME Translated, [PipelineNext]_pipelineVars
  PROVE  Translated'
<1>1. CASE UNCHANGED pipelineVars
  BY <1>1 DEF pipelineVars, cli, Translated
<1>2. CASE CheckBins \/ CheckModel \/ Translate \/ Save
  BY <1>2 DEF CheckBins, CheckModel, Translate, Save, Reached, Goto, Exit, Translated
<1>3. CASE Start \/ Rewrite
  BY <1>3 DEF Start, Rewrite, cli, Reached, Goto, Translated
<1>4. CASE KrunError \/ KrunFails \/ Judge \/ Clean
  BY <1>4 DEF KrunError, KrunFails, Judge, Quiescent, Clean, Reached, Goto, Exit, Translated
<1> QED
  BY <1>1, <1>2, <1>3, <1>4 DEF PipelineNext

LEMMA KeptPool ==
  ASSUME NEW Statements, NEW Blocks,
         KrunPool(Statements, Blocks), vars' = vars,
         phase' \in {"rewrite", "clean"} <=> phase \in {"rewrite", "clean"}
  PROVE  KrunPool(Statements, Blocks)'
<1>1. UNCHANGED <<program, states, nstate, tmp, crashed, loops>>
  BY DEF vars
<1>2. Pending' = Pending
  BY <1>1 DEF Pending, At
<1>3. PoolInv(Statements, Blocks) => PoolInv(Statements, Blocks)'
  BY <1>1, <1>2 DEF PoolInv, Counted, TmpMatches, NStateCounts
<1>4. Alone => Alone'
  BY <1>1, <1>2 DEF Alone, Top
<1> QED
  BY <1>1, <1>3, <1>4 DEF KrunPool

(***************************************************************************)
(* In a run of osl a branch takes back the block it put into <tmp> itself  *)
(* (control.k:14-19), whatever programs the file has held before           *)
(* (main.rs:102-113): krun starts on a pool of its own.                    *)
(***************************************************************************)
THEOREM RunsTakeOwnBlocks ==
  ASSUME NEW CONSTANT Statements, NEW CONSTANT Blocks, Language(Statements, Blocks),
         Compiled
  PROVE  PipelineSpec => TakesOwnBlock
<1> DEFINE I == Krun(Statements, Blocks)
           Pool == PoolInv(Statements, Blocks)
           OwnBlock == \A i \in DOMAIN states : Pop(i) => Head(tmp) = Top(i).first
<1>1. PipelineInit => I
  BY PipelineInvInit DEF PipelineInit, Krun, Translated, KrunPool
<1>2. Init => Pool /\ Alone
  BY PoolInvInit DEF Alone
<1>3. Init' => Pool' /\ Alone'
  <2> HIDE DEF Pool
  <2> QED
    BY <1>2, PTL
<1>4. I /\ [PipelineNext]_pipelineVars => I'
  <2> SUFFICES ASSUME I, [PipelineNext]_pipelineVars PROVE KrunPool(Statements, Blocks)'
    BY PipelineInvNext, TranslatedNext DEF Krun
  <2>1. CASE Start
    <3>1. Pool' /\ Alone' /\ phase' = "rewrite"
      BY <1>3, <2>1, StartInits DEF Krun, Start, Goto
    <3> QED
      BY <3>1 DEF KrunPool
  <2>2. CASE Rewrite
    <3>1. phase = "rewrite" /\ phase' = phase /\ Next
      BY <2>2 DEF Rewrite, Reached, cli
    <3>2. Pool' /\ Alone'
      BY <3>1, PoolInvNext, AloneNext DEF Krun, KrunPool
    <3> QED
      BY <3>1, <3>2 DEF KrunPool
  <2>3. CASE ~ Start /\ ~ Rewrite
    BY <2>3, OthersKeepPool, KeptPool DEF Krun
  <2> QED
    BY <2>1, <2>2, <2>3
<1>5. I /\ [PipelineNext]_pipelineVars => [OwnBlock]_vars
  <2> SUFFICES ASSUME I, [PipelineNext]_pipelineVars PROVE [OwnBlock]_vars
    OBVIOUS
  <2>1. CASE Start
    BY <2>1 DEF Krun, KrunPool, Start, Reached
  <2>2. CASE Rewrite
    BY <2>2, AlonePops DEF Krun, KrunPool, Rewrite, Reached
  <2>3. CASE ~ Start /\ ~ Rewrite
    BY <2>3, OthersKeepPool
  <2> QED
    BY <2>1, <2>2, <2>3
<1>6. TakesOwnBlock <=> [][OwnBlock]_vars
  BY DEF TakesOwnBlock
<1> HIDE DEF I, OwnBlock
<1> QED
  BY <1>1, <1>4, <1>5, <1>6, PTL DEF PipelineSpec

===============================================================================
