SPECIFICATION Spec
CONSTANTS
  Run = {r1, r2}
  OfWorker = {r1}
  Resolver = {p1}
  Texts <- MCTexts
  Bundles <- MCBundles
  Answers <- MCAnswers
  None = None
CHECK_DEADLOCK FALSE
INVARIANTS FindingsAreOfOneRun RcaIsOfTheFindings VerdictsHaveEvidence LastRunIsKept
PROPERTY InvestigationsAreRecorded
