CONSTANTS
  Vars = {x}
  Programs <- CompiledPrograms
  Compiled = TRUE
  Options <- FewOptions
SPECIFICATION PipelineSpec
CHECK_DEADLOCK FALSE
INVARIANTS
  ReportSound
  Tidy
PROPERTIES
  TakesOwnBlock
  JoinsOwnLoop
