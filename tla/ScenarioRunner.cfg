SPECIFICATION FairRunSpec
CONSTANTS
  Members <- MCMembers
  LoadsFields <- MCLoadsFields
  LoadsDiagnostics <- MCLoadsDiagnostics
  AdmittedControls <- MCAdmittedControls
  MaxLedger = 4
  RetiredDuringLoad = FALSE
INVARIANT RunIsTruthful
PROPERTIES SerialDispatch TerminalIsFinal RunSettles
