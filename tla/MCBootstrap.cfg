\* Every variable in turn takes every value in both places.
SPECIFICATION BootSpec
CONSTANTS
  Numerals <- SomeNumerals
  Words = {"fit", "other", "unfit", "empty"}
INVARIANTS
  ConfigAsGiven
  TracesGoAstrayOnlyByFile
\* The process is up, or it stopped.
CHECK_DEADLOCK FALSE
